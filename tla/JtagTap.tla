-------------------------------- MODULE JtagTap --------------------------------
(***************************************************************************)
(* A TAP built from JtagTapFSM.vhd, JtagTapIR.vhd and Jtag2BSCAN.vhd, half *)
(* a TCK period at a time, and the two programs that follow the same wires *)
(* to tell what goes on: the sniffer of the server (jtagDump.cc), which    *)
(* sees a bit of TMS, TDI and TDO per period, and that of the simulation   *)
(* (JtagSniffer.py), which sees TMS and TDI.                               *)
(*                                                                         *)
(* Jtag2BSCAN exists in two variants, clocked by TCK and by a faster clock *)
(* with enables for the edges of TCK; both are here.  The user's register  *)
(* behind the BSCAN port is external.  Registers are functions from bit    *)
(* numbers to 0 and 1.                                                     *)
(***************************************************************************)
EXTENDS Naturals, Sequences

CONSTANTS
    IR_LENGTH,     \* IR_LENGTH_G
    DR_LENGTH,     \* bits of the codes and of the user's register
    REG_IDCODE, REG_USERCODE, REG_USER,    \* instructions
    IR_VAL, IDCODE_VAL, USERCODE_VAL, USER_VAL,  \* captured values
    INT_BITS, WORD_BITS,  \* bits of an int (32) and of a uint64_t
    Beyond(_),     \* bits that 1 << b sets for b >= INT_BITS: undefined, up to the build
    MaxBits        \* bound on the bits shifted in one scan

Bit == {0, 1}
IrType == [0..(IR_LENGTH - 1) -> Bit]
DrType == [0..(DR_LENGTH - 1) -> Bit]

ASSUME TapAssumption ==
    /\ IR_LENGTH \in Nat \ {0} /\ DR_LENGTH \in Nat \ {0} /\ MaxBits \in Nat
    /\ INT_BITS \in Nat \ {0} /\ WORD_BITS \in Nat /\ WORD_BITS >= INT_BITS
    /\ {REG_IDCODE, REG_USERCODE, REG_USER, IR_VAL} \subseteq IrType
    /\ {IDCODE_VAL, USERCODE_VAL, USER_VAL} \subseteq DrType

VARIABLES
    tck, tms, tdi,  \* the pins; tms and tdi change when TCK falls
    fsm,            \* r of JtagTapFSM: the bits of primaryState and scanSubState that are set
    ir,             \* rn.ir
    rp,             \* rp of JtagTapIR
    bscan,          \* r of Jtag2BSCAN
    ce,             \* DRCK, SEL and UPDATE of the variant with clock enables
    user,           \* the user's register
    dump,           \* JtagDumpCtx
    sniff           \* JtagSniffer

vars == <<tck, tms, tdi, fsm, ir, rp, bscan, ce, user, dump, sniff>>

REG_BYPASS == [i \in 0..(IR_LENGTH - 1) |-> 1]
Zeros(n) == [i \in 0..(n - 1) |-> 0]

\* A register as the sequence of its bits, low bit first
Bits(vec, n) == [i \in 1..n |-> vec[i - 1]]

REG_P_INIT ==
    [shift_ir |-> Zeros(IR_LENGTH), shift_dr |-> Zeros(DR_LENGTH), dr_decoded |-> TRUE, dr_lst |-> 0]

\* JtagRegType, as the arguments of addBit since clear(); Ones is what v_ makes of them
Cleared == <<>>
addBit(reg, b) == Append(reg, b)

\* Bits of a word of v_ that 1 << b sets: the 1 is an int, so that its top bit is the
\* sign, which the conversion copies to the upper half of the word
ShiftedOne(b) ==
    IF b < INT_BITS - 1 THEN {b}
    ELSE IF b = INT_BITS - 1 THEN b..(WORD_BITS - 1) ELSE Beyond(b)

\* Numbers of the bits of v_ that are 1: every 1 that was added is ORed to its word
Ones(reg) ==
    UNION {{WORD_BITS * ((i - 1) \div WORD_BITS) + k : k \in ShiftedOne((i - 1) % WORD_BITS)} :
             i \in {j \in 1..Len(reg) : reg[j] = 1}}

\* print(): as many bits as were added
Shown(reg) == [i \in 1..Len(reg) |-> IF i - 1 \in Ones(reg) THEN 1 ELSE 0]

DumpInit ==
    [state |-> "TestLogicReset", iri |-> Cleared, iro |-> Cleared, dri |-> Cleared, dro |-> Cleared]

Init ==
    /\ tck = 0 /\ tms \in Bit /\ tdi \in Bit
    /\ fsm = [primaryState |-> {"TEST_LOGIC_RESET"}, scanSubState |-> {}]
    /\ ir = REG_IDCODE
    /\ rp = REG_P_INIT
    /\ bscan = [tdo |-> 0, captureDR |-> FALSE, shiftDR |-> FALSE, updateDR |-> FALSE,
                selUSER |-> FALSE, drckSel |-> FALSE]
    /\ ce = [DRCK |-> FALSE, SEL |-> FALSE, UPDATE |-> FALSE]
    /\ user = Zeros(DR_LENGTH)
    /\ dump = DumpInit
    /\ sniff = [state |-> "TestLogicReset", ir |-> Bits(Zeros(IR_LENGTH), IR_LENGTH), irShr |-> <<>>,
                raised |-> FALSE]

-----------------------------------------------------------------------------
(* JtagTapFSM: P_COMB, and its outputs *)

\* A mutant of NextSub: Exit2 does not lead back to Shift
NextSubExit2(s, m) ==
    LET step == [CAPTURE |-> <<"SHIFT", "EXIT1">>, SHIFT |-> <<"SHIFT", "EXIT1">>,
                 EXIT1   |-> <<"PAUSE", "UPDATE">>, PAUSE |-> <<"PAUSE", "EXIT2">>,
                 EXIT2   |-> <<"PAUSE", "UPDATE">>]
    IN  step[s][m + 1]
\* Where TMS = 0 and TMS = 1 lead within a scan
NextSub(s, m) ==
    LET step == [CAPTURE |-> <<"SHIFT", "EXIT1">>, SHIFT |-> <<"SHIFT", "EXIT1">>,
                 EXIT1   |-> <<"PAUSE", "UPDATE">>, PAUSE |-> <<"PAUSE", "EXIT2">>,
                 EXIT2   |-> <<"SHIFT", "UPDATE">>]
    IN  step[s][m + 1]

NextFsm(m) ==
    LET In(p) == p \in fsm.primaryState
        InSub(s) == (In("SCAN_DR") \/ In("SCAN_IR")) /\ s \in fsm.scanSubState
        State(p, s) == [primaryState |-> p, scanSubState |-> s]
    IN  CASE In("TEST_LOGIC_RESET") -> IF m = 0 THEN State({"RUN_TEST_IDLE"}, {}) ELSE fsm
          [] In("RUN_TEST_IDLE") -> IF m = 1 THEN State({"SCAN_DR"}, {"SELECT_SCAN"}) ELSE fsm
          [] InSub("SELECT_SCAN") ->
               IF m = 0 THEN State(fsm.primaryState, {"CAPTURE"})
               ELSE IF In("SCAN_DR") THEN State({"SCAN_IR"}, fsm.scanSubState)
               ELSE State({"TEST_LOGIC_RESET"}, {})
          [] InSub("UPDATE")  ->
               IF m = 1 THEN State({"SCAN_DR"}, {"SELECT_SCAN"}) ELSE State({"RUN_TEST_IDLE"}, {})
          [] \E s \in {"CAPTURE", "SHIFT", "EXIT1", "PAUSE", "EXIT2"} : InSub(s) ->
               State(fsm.primaryState, {NextSub(s, m) : s \in fsm.scanSubState})
          [] OTHER -> State({"TEST_LOGIC_RESET"}, {})

testLogicReset == "TEST_LOGIC_RESET" \in fsm.primaryState
nextStateTLR == "TEST_LOGIC_RESET" \in NextFsm(tms).primaryState
InIR(s) == "SCAN_IR" \in fsm.primaryState /\ s \in fsm.scanSubState
InDR(s) == "SCAN_DR" \in fsm.primaryState /\ s \in fsm.scanSubState

-----------------------------------------------------------------------------
(* JtagTapIR: P_COMB_N (falling edge), P_COMB_P (rising edge) and tdo *)

\* A mutant of NextIr: the instruction survives Test-Logic-Reset
NextIrKept == IF InIR("UPDATE") THEN rp.shift_ir ELSE ir
NextIr == IF testLogicReset THEN REG_IDCODE ELSE IF InIR("UPDATE") THEN rp.shift_ir ELSE ir
selUSERTap == NextIr # REG_BYPASS /\ NextIr = REG_USER

\* b goes in at bit n, the bits below move down; those above stay
ShiftBelow(b, vec, n) ==
    [i \in DOMAIN vec |-> IF i = n THEN b ELSE IF i < n THEN vec[i + 1] ELSE vec[i]]

CapturedDR ==
    CASE ir = REG_IDCODE -> [rp EXCEPT !.shift_dr = IDCODE_VAL, !.dr_lst = DR_LENGTH - 1,
                                       !.dr_decoded = TRUE]
      [] ir # REG_IDCODE /\ ir = REG_USERCODE ->
           [rp EXCEPT !.shift_dr = USERCODE_VAL, !.dr_lst = DR_LENGTH - 1, !.dr_decoded = TRUE]
      [] OTHER -> [rp EXCEPT !.shift_dr[0] = 0, !.dr_lst = 0, !.dr_decoded = (ir = REG_BYPASS)]

NextRp ==
    CASE testLogicReset -> REG_P_INIT
      [] InIR("CAPTURE") -> [rp EXCEPT !.shift_ir = IR_VAL]
      [] InIR("SHIFT")   -> [rp EXCEPT !.shift_ir = ShiftBelow(tdi, @, IR_LENGTH - 1)]
      [] InDR("CAPTURE") -> CapturedDR
      [] InDR("SHIFT")   -> [rp EXCEPT !.shift_dr = ShiftBelow(tdi, @, rp.dr_lst)]
      [] OTHER -> rp

\* A mutant of tapTdo: the instruction register is not shown
tapTdoDr == IF rp.dr_decoded THEN rp.shift_dr[0] ELSE 1
tapTdo == IF InIR("SHIFT") THEN rp.shift_ir[0] ELSE IF rp.dr_decoded THEN rp.shift_dr[0] ELSE 1

-----------------------------------------------------------------------------
(* Jtag2BSCAN: P_COMB (falling edge) and the BSCAN port *)

BscanSel ==
    IF testLogicReset THEN FALSE ELSE IF InIR("UPDATE") THEN selUSERTap ELSE bscan.selUSER

\* A mutant of NextBscan: DRCK does not run in Capture-DR
NextBscanNoCapture ==
    LET userTdo == IF selUSERTap /\ ~InIR("SHIFT") THEN user[0] ELSE tapTdo
    IN  [tdo       |-> IF InDR("SHIFT") \/ InIR("SHIFT") THEN userTdo ELSE 1,
         captureDR |-> InDR("CAPTURE"),
         shiftDR   |-> InDR("SHIFT"),
         updateDR  |-> InDR("UPDATE"),
         selUSER   |-> BscanSel,
         drckSel   |-> InDR("SHIFT") /\ BscanSel]

NextBscan ==
    LET userTdo == IF selUSERTap /\ ~InIR("SHIFT") THEN user[0] ELSE tapTdo
    IN  [tdo       |-> IF InDR("SHIFT") \/ InIR("SHIFT") THEN userTdo ELSE 1,
         captureDR |-> InDR("CAPTURE"),
         shiftDR   |-> InDR("SHIFT"),
         updateDR  |-> InDR("UPDATE"),
         selUSER   |-> BscanSel,
         drckSel   |-> (InDR("CAPTURE") \/ InDR("SHIFT")) /\ BscanSel]

\* The variant clocked by TCK
\* A mutant of SEL: it is dropped a half period late
SELLate == bscan.selUSER
SEL == bscan.selUSER /\ ~testLogicReset
DRCK == IF bscan.drckSel THEN tck = 1 ELSE SEL

\* Behind the BSCAN port: a register clocked by DRCK
UserEdge(capture, shift, in) ==
    IF capture THEN USER_VAL ELSE IF shift THEN ShiftBelow(in, user, DR_LENGTH - 1) ELSE user

-----------------------------------------------------------------------------
(* The state machines of the two sniffers: jtagDump.cc and JtagSniffer.py *)

\* The state after TMS = 0 and after TMS = 1
After == [
    TestLogicReset |-> <<"RunTestIdle", "TestLogicReset">>,
    RunTestIdle    |-> <<"RunTestIdle", "SelectDRScan">>,
    SelectDRScan   |-> <<"CaptureDR", "SelectIRScan">>,
    CaptureDR      |-> <<"ShiftDR", "Exit1DR">>,
    ShiftDR        |-> <<"ShiftDR", "Exit1DR">>,
    Exit1DR        |-> <<"PauseDR", "UpdateDR">>,
    PauseDR        |-> <<"PauseDR", "Exit2DR">>,
    Exit2DR        |-> <<"ShiftDR", "UpdateDR">>,
    UpdateDR       |-> <<"RunTestIdle", "SelectDRScan">>,
    SelectIRScan   |-> <<"CaptureIR", "TestLogicReset">>,
    CaptureIR      |-> <<"ShiftIR", "Exit1IR">>,
    ShiftIR        |-> <<"ShiftIR", "Exit1IR">>,
    Exit1IR        |-> <<"PauseIR", "UpdateIR">>,
    PauseIR        |-> <<"PauseIR", "Exit2IR">>,
    Exit2IR        |-> <<"ShiftIR", "UpdateIR">>,
    UpdateIR       |-> <<"RunTestIdle", "SelectDRScan">>]
Advance(s, m) == After[s][m + 1]

\* Capture clears what the dump has seen, Shift adds a bit to what it saw sent
\* and received, Update reports it.  What is not reported again before the next
\* Capture is forgotten at Update; the IR sent is, with each scan of the DR.
DumpAdvance(m, sent, rcvd) ==
    LET d == [dump EXCEPT !.state = Advance(@, m)]
    IN  CASE dump.state \in {"CaptureDR", "UpdateDR"} -> [d EXCEPT !.dri = Cleared, !.dro = Cleared]
          [] dump.state = "CaptureIR" -> [d EXCEPT !.iri = Cleared, !.iro = Cleared]
          [] dump.state = "UpdateIR" -> [d EXCEPT !.iri = Cleared]
          [] dump.state = "ShiftDR" -> [d EXCEPT !.dri = addBit(@, rcvd), !.dro = addBit(@, sent)]
          [] dump.state = "ShiftIR" -> [d EXCEPT !.iri = addBit(@, rcvd), !.iro = addBit(@, sent)]
          [] OTHER -> d

\* A mutant of IrComplete: any length will do
IrAnyLength == TRUE
IrComplete == Len(sniff.irShr) = IR_LENGTH

\* JtagSniffer: an instruction of the wrong length raises an error.  The data
\* register is left out: it is what the dump calls dro.  The shift register is
\* not used between Update and the next Capture, and forgotten there.
SniffAdvance(m, in) ==
    LET d == [sniff EXCEPT !.state = Advance(@, m)]
    IN  CASE sniff.raised -> sniff
          [] ~sniff.raised /\ sniff.state = "CaptureIR" -> [d EXCEPT !.irShr = <<>>]
          [] ~sniff.raised /\ sniff.state = "ShiftIR" -> [d EXCEPT !.irShr = Append(@, in)]
          [] ~sniff.raised /\ sniff.state = "UpdateIR" ->
               IF IrComplete THEN [d EXCEPT !.ir = sniff.irShr, !.irShr = <<>>]
                             ELSE [sniff EXCEPT !.raised = TRUE, !.irShr = <<>>]
          [] OTHER -> d

-----------------------------------------------------------------------------
\* Bounds the scans: TMS leads to one more bit only if there is room for it
WithinBound(m) ==
    LET d == DumpAdvance(m, 0, 0)
    IN  /\ d.state = "ShiftDR" => Len(d.dro) < MaxBits
        /\ d.state = "ShiftIR" => Len(d.iro) < MaxBits

\* TCK rises.  The user's register sees a rising edge of DRCK if that passes TCK.
Rise ==
    /\ tck = 0
    /\ tck' = 1
    /\ fsm' = NextFsm(tms)
    /\ rp' = NextRp
    /\ dump' = DumpAdvance(tms, tdi, bscan.tdo)
    /\ sniff' = SniffAdvance(tms, tdi)
    /\ ce' = [DRCK   |-> ~nextStateTLR /\ (NextBscan.drckSel \/ NextBscan.selUSER),
              SEL    |-> ~nextStateTLR /\ ce.SEL,
              UPDATE |-> FALSE]
    /\ user' = IF bscan.drckSel THEN UserEdge(bscan.captureDR, bscan.shiftDR, tdi) ELSE user
    /\ UNCHANGED <<tms, tdi, ir, bscan>>

\* TCK falls, and the next bits go to the pins.  DRCK rises if it stops here.
Fall(m, i) ==
    /\ tck = 1
    /\ WithinBound(m)
    /\ tck' = 0
    /\ ir' = NextIr
    /\ bscan' = NextBscan
    /\ ce' = [DRCK   |-> ~NextBscan.drckSel /\ NextBscan.selUSER,
              SEL    |-> NextBscan.selUSER,
              UPDATE |-> NextBscan.updateDR]
    /\ user' = IF bscan.drckSel /\ ce'.DRCK
               THEN UserEdge(bscan'.captureDR, bscan'.shiftDR, tdi) ELSE user
    /\ tms' = m /\ tdi' = i
    /\ UNCHANGED <<fsm, rp, dump, sniff>>

Next == Rise \/ \E m, i \in Bit : Fall(m, i)

Spec == Init /\ [][Next]_vars

-----------------------------------------------------------------------------
\* The state that the bits of primaryState and scanSubState stand for
TapStates ==
    {<<{"TEST_LOGIC_RESET"}, {}, "TestLogicReset">>, <<{"RUN_TEST_IDLE"}, {}, "RunTestIdle">>,
     <<{"SCAN_DR"}, {"SELECT_SCAN"}, "SelectDRScan">>, <<{"SCAN_IR"}, {"SELECT_SCAN"}, "SelectIRScan">>,
     <<{"SCAN_DR"}, {"CAPTURE"}, "CaptureDR">>, <<{"SCAN_IR"}, {"CAPTURE"}, "CaptureIR">>,
     <<{"SCAN_DR"}, {"SHIFT"}, "ShiftDR">>, <<{"SCAN_IR"}, {"SHIFT"}, "ShiftIR">>,
     <<{"SCAN_DR"}, {"EXIT1"}, "Exit1DR">>, <<{"SCAN_IR"}, {"EXIT1"}, "Exit1IR">>,
     <<{"SCAN_DR"}, {"PAUSE"}, "PauseDR">>, <<{"SCAN_IR"}, {"PAUSE"}, "PauseIR">>,
     <<{"SCAN_DR"}, {"EXIT2"}, "Exit2DR">>, <<{"SCAN_IR"}, {"EXIT2"}, "Exit2IR">>,
     <<{"SCAN_DR"}, {"UPDATE"}, "UpdateDR">>, <<{"SCAN_IR"}, {"UPDATE"}, "UpdateIR">>}

\* The TAP and the two sniffers are in the same state, whatever TMS has been; in
\* the TAP at most one bit of each state vector is set.
StatesAgree ==
    /\ <<fsm.primaryState, fsm.scanSubState, dump.state>> \in TapStates
    /\ ~sniff.raised => sniff.state = dump.state

IsPrefix(s, t) == Len(s) <= Len(t) /\ \A i \in 1..Len(s) : s[i] = t[i]
LastBits(s, n) == SubSeq(s, Len(s) - n + 1, Len(s))

\* What the instruction puts between TDI and TDO
Selected ==
    CASE ir = REG_IDCODE   -> Bits(IDCODE_VAL, DR_LENGTH)
      [] ir = REG_USERCODE -> Bits(USERCODE_VAL, DR_LENGTH)
      [] ir = REG_USER     -> Bits(USER_VAL, DR_LENGTH)
      [] ir = REG_BYPASS   -> <<0>>
Decoded == ir \in {REG_IDCODE, REG_USERCODE, REG_USER, REG_BYPASS}

ScanningDR == dump.state \in {"ShiftDR", "Exit1DR", "PauseDR", "Exit2DR", "UpdateDR"}
ScanningIR == dump.state \in {"ShiftIR", "Exit1IR", "PauseIR", "Exit2IR", "UpdateIR"}

\* What the server's sniffer shows as received in a scan that is shorter than an int
\* is the captured register and then, behind it, the bits it shows as sent, and no
\* other bit is set in the word: TDO is taken at the right edge, through any number
\* of pauses (JtagTapIR, Jtag2BSCAN's registered TDO).  From 32 bits on, the length
\* of an IDCODE, addBit() sets other bits than it should and this does not hold.
Reports(rcvd, captured, sent) ==
    Len(rcvd) < INT_BITS =>
        IsPrefix(Shown(rcvd), captured \o Shown(sent)) /\ Ones(rcvd) \subseteq 0..(Len(rcvd) - 1)
ScanThrough ==
    /\ ScanningDR /\ Decoded => Reports(dump.dri, Selected, dump.dro)
    /\ ScanningDR /\ ~Decoded => Reports(dump.dri, [i \in 1..Len(dump.dri) |-> 1], <<>>)
    /\ ScanningIR => Reports(dump.iri, Bits(IR_VAL, IR_LENGTH), dump.iro)

\* The instruction is the last of the bits that the sniffer was given in the last scan
\* of the IR, until a reset selects IDCODE (falling edge of TCK, JtagTapIR).
InstructionKnown ==
    tck = 0 =>
        /\ dump.state = "TestLogicReset" => ir = REG_IDCODE
        /\ dump.state \notin {"ShiftIR", "Exit1IR", "PauseIR", "Exit2IR"} =>
              \/ ir = REG_IDCODE
              \/ Bits(ir, IR_LENGTH) = LastBits(Bits(IR_VAL, IR_LENGTH) \o dump.iro, IR_LENGTH)

\* Both variants of Jtag2BSCAN show the same SEL and DRCK in every half period,
\* and UPDATE rises at the same time (G_TCK and G_TCK_CE).
VariantsAgree == ce.SEL = SEL /\ ce.DRCK = DRCK /\ (tck = 0 => ce.UPDATE = bscan.updateDR)

\* A register clocked by DRCK captures and shifts once per period of a scan of
\* USER and at no other time (drckSel, CAPTURE and SHIFT).
UserScan ==
    ScanningDR /\ ir = REG_USER =>
        Bits(user, DR_LENGTH) = LastBits(Bits(USER_VAL, DR_LENGTH) \o dump.dro, DR_LENGTH)

\* The simulation's sniffer knows the instruction as long as no reset has
\* changed it behind its back.
SnifferKnows ==
    (tck = 0 /\ ~sniff.raised /\ ir # REG_IDCODE /\ ~ScanningIR)
        => sniff.ir = Bits(ir, IR_LENGTH)
===============================================================================
