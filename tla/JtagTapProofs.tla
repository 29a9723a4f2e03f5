----------------------------- MODULE JtagTapProofs -----------------------------
(***************************************************************************)
(* The TAP, the two variants of its BSCAN port and the two sniffers agree, *)
(* for registers of any length and with any contents.                      *)
(***************************************************************************)
EXTENDS JtagTap, TLAPS

States == DOMAIN After

\* The bits of the state vectors, and the state that the sniffers call by its name
FsmOk(f, d) == <<f.primaryState, f.scanSubState, d>> \in TapStates

\* r of JtagTapFSM has these fields
FsmType(f) == f = [primaryState |-> f.primaryState, scanSubState |-> f.scanSubState]

-----------------------------------------------------------------------------
(* The state machines *)

\* JtagTapFSM's outputs, in terms of the state that the sniffers know
LEMMA Outputs ==
    ASSUME FsmOk(fsm, dump.state)
    PROVE  /\ dump.state \in States
           /\ testLogicReset = (dump.state = "TestLogicReset")
           /\ InIR("CAPTURE") = (dump.state = "CaptureIR")
           /\ InIR("SHIFT") = (dump.state = "ShiftIR")
           /\ InIR("UPDATE") = (dump.state = "UpdateIR")
           /\ InDR("CAPTURE") = (dump.state = "CaptureDR")
           /\ InDR("SHIFT") = (dump.state = "ShiftDR")
           /\ InDR("UPDATE") = (dump.state = "UpdateDR")
  BY DEF FsmOk, TapStates, States, After, testLogicReset, InIR, InDR

\* The tables, entry by entry
LEMMA AdvanceIs ==
    ASSUME NEW m \in Bit
    PROVE
           /\ Advance("TestLogicReset", m) = IF m = 0 THEN "RunTestIdle" ELSE "TestLogicReset"
           /\ Advance("RunTestIdle", m) = IF m = 0 THEN "RunTestIdle" ELSE "SelectDRScan"
           /\ Advance("SelectDRScan", m) = IF m = 0 THEN "CaptureDR" ELSE "SelectIRScan"
           /\ Advance("CaptureDR", m) = IF m = 0 THEN "ShiftDR" ELSE "Exit1DR"
           /\ Advance("ShiftDR", m) = IF m = 0 THEN "ShiftDR" ELSE "Exit1DR"
           /\ Advance("Exit1DR", m) = IF m = 0 THEN "PauseDR" ELSE "UpdateDR"
           /\ Advance("PauseDR", m) = IF m = 0 THEN "PauseDR" ELSE "Exit2DR"
           /\ Advance("Exit2DR", m) = IF m = 0 THEN "ShiftDR" ELSE "UpdateDR"
           /\ Advance("UpdateDR", m) = IF m = 0 THEN "RunTestIdle" ELSE "SelectDRScan"
           /\ Advance("SelectIRScan", m) = IF m = 0 THEN "CaptureIR" ELSE "TestLogicReset"
           /\ Advance("CaptureIR", m) = IF m = 0 THEN "ShiftIR" ELSE "Exit1IR"
           /\ Advance("ShiftIR", m) = IF m = 0 THEN "ShiftIR" ELSE "Exit1IR"
           /\ Advance("Exit1IR", m) = IF m = 0 THEN "PauseIR" ELSE "UpdateIR"
           /\ Advance("PauseIR", m) = IF m = 0 THEN "PauseIR" ELSE "Exit2IR"
           /\ Advance("Exit2IR", m) = IF m = 0 THEN "ShiftIR" ELSE "UpdateIR"
           /\ Advance("UpdateIR", m) = IF m = 0 THEN "RunTestIdle" ELSE "SelectDRScan"
  BY DEF Advance, After, Bit

\* The steps within a scan, entry by entry
LEMMA NextSubIs ==
    ASSUME NEW m \in Bit
    PROVE
           /\ NextSub("CAPTURE", m) = IF m = 0 THEN "SHIFT" ELSE "EXIT1"
           /\ NextSub("SHIFT", m) = IF m = 0 THEN "SHIFT" ELSE "EXIT1"
           /\ NextSub("EXIT1", m) = IF m = 0 THEN "PAUSE" ELSE "UPDATE"
           /\ NextSub("PAUSE", m) = IF m = 0 THEN "PAUSE" ELSE "EXIT2"
           /\ NextSub("EXIT2", m) = IF m = 0 THEN "SHIFT" ELSE "UPDATE"
  BY DEF NextSub, Bit

\* Within a scan, the one bit of scanSubState that is set moves on
LEMMA SubAdvances ==
    ASSUME NEW m \in Bit, NEW s \in {"CAPTURE", "SHIFT", "EXIT1", "PAUSE", "EXIT2"},
           NEW p \in {"SCAN_DR", "SCAN_IR"},
           fsm = [primaryState |-> {p}, scanSubState |-> {s}]
    PROVE  NextFsm(m) = [primaryState |-> {p}, scanSubState |-> {NextSub(s, m)}]
<1>1. NextFsm(m) = [primaryState |-> fsm.primaryState,
                    scanSubState |-> {NextSub(t, m) : t \in fsm.scanSubState}]
  BY DEF NextFsm
<1>2. {NextSub(t, m) : t \in {s}} = {NextSub(s, m)}
  OBVIOUS
<1> QED BY <1>1, <1>2

\* JtagTapFSM goes from state to state like the tables of the sniffers
LEMMA FsmAdvances ==
    ASSUME FsmOk(fsm, dump.state), FsmType(fsm), NEW m \in Bit
    PROVE  /\ FsmType(NextFsm(m))
           /\ FsmOk(NextFsm(m), Advance(dump.state, m))
<1> DEFINE Q == /\ FsmType(NextFsm(m))
                /\ FsmOk(NextFsm(m), Advance(dump.state, m))
<1>1. CASE \E p \in {"SCAN_DR", "SCAN_IR"}, s \in {"CAPTURE", "SHIFT", "EXIT1", "PAUSE", "EXIT2"} :
              fsm = [primaryState |-> {p}, scanSubState |-> {s}]
  <2>1. PICK p \in {"SCAN_DR", "SCAN_IR"}, s \in {"CAPTURE", "SHIFT", "EXIT1", "PAUSE", "EXIT2"} :
              fsm = [primaryState |-> {p}, scanSubState |-> {s}]
    BY <1>1
  <2>2. NextFsm(m) = [primaryState |-> {p}, scanSubState |-> {NextSub(s, m)}]
    BY <2>1, SubAdvances
  <2>3. <<{p}, {s}, dump.state>> \in TapStates
    BY <2>1 DEF FsmOk
  <2>4. <<{p}, {NextSub(s, m)}, Advance(dump.state, m)>> \in TapStates
    BY <2>3, AdvanceIs, NextSubIs DEF TapStates, Bit
  <2> QED BY <2>2, <2>4 DEF FsmOk, FsmType
<1>2. CASE \E p \in {"SCAN_DR", "SCAN_IR"}, s \in {"SELECT_SCAN", "UPDATE"} :
              fsm = [primaryState |-> {p}, scanSubState |-> {s}]
  BY <1>2, AdvanceIs, SMTT(20) DEF FsmOk, FsmType, TapStates, NextFsm, Bit
<1>3. CASE fsm = [primaryState |-> {"TEST_LOGIC_RESET"}, scanSubState |-> {}]
  BY <1>3, AdvanceIs DEF FsmOk, FsmType, TapStates, NextFsm, Bit
<1>4. CASE fsm = [primaryState |-> {"RUN_TEST_IDLE"}, scanSubState |-> {}]
  BY <1>4, AdvanceIs DEF FsmOk, FsmType, TapStates, NextFsm, Bit
<1>5. fsm = [primaryState |-> fsm.primaryState, scanSubState |-> fsm.scanSubState]
  BY DEF FsmType
<1> QED BY <1>1, <1>2, <1>3, <1>4, <1>5 DEF FsmOk, TapStates

-----------------------------------------------------------------------------
(* The inductive invariant *)

\* The registers have their lengths
TapTypes ==
    /\ tck \in Bit /\ tms \in Bit /\ tdi \in Bit
    /\ FsmType(fsm)
    /\ ir \in IrType
    /\ rp \in [shift_ir : IrType, shift_dr : DrType, dr_decoded : BOOLEAN, dr_lst : 0..(DR_LENGTH - 1)]
    /\ bscan \in [tdo : Bit, captureDR : BOOLEAN, shiftDR : BOOLEAN, updateDR : BOOLEAN,
                  selUSER : BOOLEAN, drckSel : BOOLEAN]
    /\ user \in DrType
    /\ dump \in [state : States, iri : Seq(Bit), iro : Seq(Bit), dri : Seq(Bit), dro : Seq(Bit)]
    /\ sniff \in [state : States, ir : Seq(Bit), irShr : Seq(Bit), raised : BOOLEAN]

\* Before TCK rises the BSCAN port has what the state and the instruction call for
PortInv ==
    tck = 0 =>
        /\ bscan.captureDR = (dump.state = "CaptureDR")
        /\ bscan.shiftDR = (dump.state = "ShiftDR")
        /\ bscan.updateDR = (dump.state = "UpdateDR")
        /\ bscan.drckSel = (dump.state \in {"CaptureDR", "ShiftDR"} /\ bscan.selUSER)
        /\ dump.state = "TestLogicReset" => ir = REG_IDCODE /\ ~bscan.selUSER
        /\ dump.state = "UpdateIR" =>
              ir = rp.shift_ir /\ bscan.selUSER = (ir # REG_BYPASS /\ ir = REG_USER)

\* The instructions can be told apart
Distinct ==
    /\ REG_IDCODE \notin {REG_USERCODE, REG_USER, REG_BYPASS}
    /\ REG_USERCODE \notin {REG_USER, REG_BYPASS}
    /\ REG_USER # REG_BYPASS

\* TDO, registered when TCK falls, is the low bit of the register in the chain
TdoOfIr == tck = 0 /\ dump.state = "ShiftIR" => bscan.tdo = rp.shift_ir[0]
TdoOfDr ==
    tck = 0 /\ dump.state = "ShiftDR" =>
        bscan.tdo = IF ir = REG_USER THEN user[0] ELSE IF rp.dr_decoded THEN rp.shift_dr[0] ELSE 1

\* The n low bits of a register are the last n bits of what went through it
Holds(vec, n, all) == \A i \in 1..n : vec[i - 1] = all[Len(all) - n + i]

\* A register of the DR in the middle of a scan
DrInv ==
    ScanningDR =>
        /\ Len(dump.dri) = Len(dump.dro)
        /\ Decoded => IsPrefix(dump.dri, Selected \o dump.dro)
        /\ ~Decoded => ~rp.dr_decoded /\ \A i \in 1..Len(dump.dri) : dump.dri[i] = 1
        /\ ir \in {REG_IDCODE, REG_USERCODE} =>
              /\ rp.dr_decoded /\ rp.dr_lst = DR_LENGTH - 1
              /\ Holds(rp.shift_dr, DR_LENGTH, Selected \o dump.dro)
        /\ ir = REG_BYPASS =>
              rp.dr_decoded /\ rp.dr_lst = 0 /\ Holds(rp.shift_dr, 1, Selected \o dump.dro)
        /\ ir = REG_USER => Holds(user, DR_LENGTH, Selected \o dump.dro)

\* The instruction register in the middle of a scan
ThroughIr(s) == Bits(IR_VAL, IR_LENGTH) \o s
IrInv ==
    ScanningIR =>
        /\ Len(dump.iri) = Len(dump.iro)
        /\ IsPrefix(dump.iri, ThroughIr(dump.iro))
        /\ Holds(rp.shift_ir, IR_LENGTH, ThroughIr(dump.iro))
        /\ ~sniff.raised => sniff.irShr = dump.iro

\* From Update-IR on the instruction is what was scanned, until the next scan
KnownInv ==
    /\ (tck = 0 \/ dump.state # "UpdateIR") /\ dump.state \notin {"ShiftIR", "Exit1IR", "PauseIR", "Exit2IR"} =>
          ir = REG_IDCODE \/ Holds(ir, IR_LENGTH, ThroughIr(dump.iro))
    /\ ~sniff.raised /\ ir # REG_IDCODE /\ ~ScanningIR => sniff.ir = Bits(ir, IR_LENGTH)

\* The user's instruction is selected in the TAP and in Jtag2BSCAN together
UserSel == bscan.selUSER = (ir = REG_USER)

PortsInv == TapTypes /\ StatesAgree /\ PortInv /\ VariantsAgree
InstrInv == PortsInv /\ TdoOfIr /\ IrInv /\ KnownInv
DataInv == PortsInv /\ UserSel /\ TdoOfDr /\ DrInv

-----------------------------------------------------------------------------
(* What goes through a register *)

\* A register as a sequence of bits
LEMMA BitsType ==
    ASSUME NEW n \in Nat, NEW vec \in [0..(n - 1) -> Bit]
    PROVE  Bits(vec, n) \in Seq(Bit) /\ Len(Bits(vec, n)) = n /\ \A i \in 1..n : Bits(vec, n)[i] = vec[i - 1]
<1>1. \A i \in 1..n : vec[i - 1] \in Bit
  OBVIOUS
<1>2. Bits(vec, n) \in [1..n -> Bit]
  BY <1>1 DEF Bits
<1>3. \A i \in 1..n : Bits(vec, n)[i] = vec[i - 1]
  BY DEF Bits
<1> QED BY <1>2, <1>3

\* A shift keeps the length of the register
LEMMA ShiftType ==
    ASSUME NEW k \in Nat, NEW vec \in [0..(k - 1) -> Bit], NEW n \in 0..(k - 1), NEW b \in Bit
    PROVE  ShiftBelow(b, vec, n) \in [0..(k - 1) -> Bit]
  BY DEF ShiftBelow

\* A shift lets the lowest of the bits out and the next one in
LEMMA HoldsNext ==
    ASSUME NEW k \in Nat, NEW vec \in [0..(k - 1) -> Bit], NEW n \in 1..k, NEW b \in Bit,
           NEW all \in Seq(Bit), n <= Len(all), Holds(vec, n, all)
    PROVE  Holds(ShiftBelow(b, vec, n - 1), n, Append(all, b))
<1> DEFINE w == ShiftBelow(b, vec, n - 1)
           a == Append(all, b)
<1> SUFFICES ASSUME NEW i \in 1..n PROVE w[i - 1] = a[Len(a) - n + i]
  BY DEF Holds
<1>1. Len(a) = Len(all) + 1 /\ a[Len(all) + 1] = b /\ \A j \in 1..Len(all) : a[j] = all[j]
  OBVIOUS
<1>2. CASE i = n
  BY <1>1, <1>2 DEF ShiftBelow
<1>3. CASE i # n
  <2>1. w[i - 1] = vec[i]
    BY <1>3 DEF ShiftBelow
  <2>2. vec[(i + 1) - 1] = all[Len(all) - n + (i + 1)]
    BY <1>3 DEF Holds
  <2>3. Len(a) - n + i = Len(all) - n + (i + 1) /\ Len(all) - n + (i + 1) \in 1..Len(all)
    BY <1>1, <1>3
  <2>4. vec[i] = vec[(i + 1) - 1]
    OBVIOUS
  <2> QED BY <1>1, <2>1, <2>2, <2>3, <2>4
<1> QED BY <1>2, <1>3

\* The captured register is the last of what is there when nothing was shifted
LEMMA HoldsFirst ==
    ASSUME NEW n \in Nat, NEW vec \in [0..(n - 1) -> Bit]
    PROVE  Holds(vec, n, Bits(vec, n) \o <<>>) /\ Bits(vec, n) \o <<>> = Bits(vec, n)
<1>1. Bits(vec, n) \o <<>> = Bits(vec, n)
  BY BitsType
<1> QED BY <1>1, BitsType DEF Holds

\* All the bits of a register are the last bits of what went through it
LEMMA HoldsLast ==
    ASSUME NEW n \in Nat \ {0}, NEW vec \in [0..(n - 1) -> Bit], NEW all \in Seq(Bit), n <= Len(all),
           Holds(vec, n, all)
    PROVE  Bits(vec, n) = LastBits(all, n)
<1> DEFINE l == LastBits(all, n)
<1>1. l \in Seq(Bit) /\ Len(l) = n /\ \A i \in 1..n : l[i] = all[Len(all) - n + 1 + i - 1]
  BY DEF LastBits
<1>2. \A i \in 1..n : Bits(vec, n)[i] = l[i]
  <2> SUFFICES ASSUME NEW i \in 1..n PROVE Bits(vec, n)[i] = l[i]
    OBVIOUS
  <2>1. Bits(vec, n)[i] = vec[i - 1]
    BY DEF Bits
  <2>2. vec[i - 1] = all[Len(all) - n + i]
    BY DEF Holds
  <2>3. Len(all) - n + i = Len(all) - n + 1 + i - 1
    OBVIOUS
  <2> QED BY <1>1, <2>1, <2>2, <2>3
<1> HIDE DEF l
<1>3. Bits(vec, n) \in Seq(Bit) /\ Len(Bits(vec, n)) = n
  BY BitsType
<1>4. Bits(vec, n) = l
  BY <1>1, <1>2, <1>3
<1> QED BY <1>4 DEF l

\* The bit that comes out is the next one of what went through
LEMMA PrefixNext ==
    ASSUME NEW r \in Seq(Bit), NEW all \in Seq(Bit), NEW n \in Nat \ {0}, Len(all) = Len(r) + n,
           IsPrefix(r, all), NEW b \in Bit, NEW c \in Bit, c = all[Len(r) + 1]
    PROVE  IsPrefix(Append(r, c), Append(all, b))
  BY DEF IsPrefix

\* What went through, one bit later
LEMMA ThroughNext ==
    ASSUME NEW v \in Seq(Bit), NEW s \in Seq(Bit), NEW b \in Bit
    PROVE  v \o Append(s, b) = Append(v \o s, b) /\ v \o s \in Seq(Bit) /\ Len(v \o s) = Len(v) + Len(s)
  OBVIOUS

\* One bit goes in and one comes out of a register in the chain: what comes out is
\* still what was captured, followed by what went in
LEMMA RegisterStep ==
    ASSUME NEW k \in Nat, NEW vec \in [0..(k - 1) -> Bit], NEW n \in 1..k,
           NEW v \in Seq(Bit), Len(v) = n, NEW r \in Seq(Bit), NEW s \in Seq(Bit), Len(r) = Len(s),
           IsPrefix(r, v \o s), Holds(vec, n, v \o s), NEW b \in Bit, NEW c \in Bit, c = vec[0]
    PROVE  /\ IsPrefix(Append(r, c), v \o Append(s, b))
           /\ Holds(ShiftBelow(b, vec, n - 1), n, v \o Append(s, b))
<1> DEFINE all == v \o s
<1>1. v \o Append(s, b) = Append(all, b) /\ all \in Seq(Bit) /\ Len(all) = Len(v) + Len(s)
  BY ThroughNext
<1> HIDE DEF all
<1>2. IsPrefix(r, all) /\ Holds(vec, n, all)
  BY DEF all
<1>3. Len(r) \in Nat /\ Len(s) \in Nat /\ n \in Nat \ {0} /\ Len(all) = Len(r) + n /\ n <= Len(all)
  BY <1>1
<1>4. c = all[Len(r) + 1]
  <2>1. 1 \in 1..n
    BY <1>3
  <2>2. vec[1 - 1] = all[Len(all) - n + 1]
    BY <1>2, <2>1 DEF Holds
  <2>3. Len(all) - n + 1 = Len(r) + 1 /\ 1 - 1 = 0
    BY <1>3
  <2> QED BY <2>2, <2>3
<1>5. IsPrefix(Append(r, c), Append(all, b))
  BY <1>1, <1>2, <1>3, <1>4, PrefixNext
<1>6. Holds(ShiftBelow(b, vec, n - 1), n, Append(all, b))
  BY <1>1, <1>2, <1>3, HoldsNext
<1> QED BY <1>1, <1>5, <1>6

-----------------------------------------------------------------------------
(* Types and states *)

\* The assumptions on the registers, one by one
LEMMA Registers ==
    /\ IR_LENGTH \in Nat \ {0} /\ DR_LENGTH \in Nat \ {0}
    /\ REG_IDCODE \in IrType /\ REG_USERCODE \in IrType /\ REG_USER \in IrType /\ IR_VAL \in IrType
    /\ REG_BYPASS \in IrType
    /\ IDCODE_VAL \in DrType /\ USERCODE_VAL \in DrType /\ USER_VAL \in DrType
    /\ Zeros(IR_LENGTH) \in IrType /\ Zeros(DR_LENGTH) \in DrType
    /\ REG_P_INIT \in [shift_ir : IrType, shift_dr : DrType, dr_decoded : BOOLEAN, dr_lst : 0..(DR_LENGTH - 1)]
<1>1. IR_LENGTH \in Nat \ {0} /\ DR_LENGTH \in Nat \ {0}
  BY TapAssumption
<1>2. REG_BYPASS \in IrType
  BY DEF REG_BYPASS, IrType, Bit
<1>3. Zeros(IR_LENGTH) \in IrType /\ Zeros(DR_LENGTH) \in DrType
  BY DEF Zeros, IrType, DrType, Bit
<1>4. REG_P_INIT \in [shift_ir : IrType, shift_dr : DrType, dr_decoded : BOOLEAN, dr_lst : 0..(DR_LENGTH - 1)]
  BY <1>1, <1>3 DEF REG_P_INIT
<1> QED BY <1>1, <1>2, <1>3, <1>4, TapAssumption

\* Records with the fields of rp, of the dump and of the sniffer
Rp(i, d, c, l) == [shift_ir |-> i, shift_dr |-> d, dr_decoded |-> c, dr_lst |-> l]
Dump(s, ii, io, di, do) == [state |-> s, iri |-> ii, iro |-> io, dri |-> di, dro |-> do]
Sniff(s, i, h, r) == [state |-> s, ir |-> i, irShr |-> h, raised |-> r]

\* JtagTapIR's registers after TCK rises, state by state
LEMMA RpIs ==
    ASSUME TapTypes, StatesAgree
    PROVE  NextRp =
             CASE dump.state = "TestLogicReset" -> Rp(Zeros(IR_LENGTH), Zeros(DR_LENGTH), TRUE, 0)
               [] dump.state = "CaptureIR" -> Rp(IR_VAL, rp.shift_dr, rp.dr_decoded, rp.dr_lst)
               [] dump.state = "ShiftIR" ->
                    Rp(ShiftBelow(tdi, rp.shift_ir, IR_LENGTH - 1), rp.shift_dr, rp.dr_decoded, rp.dr_lst)
               [] dump.state = "CaptureDR" ->
                    IF ir = REG_IDCODE THEN Rp(rp.shift_ir, IDCODE_VAL, TRUE, DR_LENGTH - 1)
                    ELSE IF ir = REG_USERCODE THEN Rp(rp.shift_ir, USERCODE_VAL, TRUE, DR_LENGTH - 1)
                    ELSE Rp(rp.shift_ir, [rp.shift_dr EXCEPT ![0] = 0], ir = REG_BYPASS, 0)
               [] dump.state = "ShiftDR" ->
                    Rp(rp.shift_ir, ShiftBelow(tdi, rp.shift_dr, rp.dr_lst), rp.dr_decoded, rp.dr_lst)
               [] OTHER -> Rp(rp.shift_ir, rp.shift_dr, rp.dr_decoded, rp.dr_lst)
<1>1. rp = Rp(rp.shift_ir, rp.shift_dr, rp.dr_decoded, rp.dr_lst)
  BY DEF TapTypes, Rp
<1>2. [rp EXCEPT !.shift_ir = IR_VAL] = Rp(IR_VAL, rp.shift_dr, rp.dr_decoded, rp.dr_lst)
  BY <1>1 DEF Rp
<1>3. [rp EXCEPT !.shift_ir = ShiftBelow(tdi, @, IR_LENGTH - 1)]
        = Rp(ShiftBelow(tdi, rp.shift_ir, IR_LENGTH - 1), rp.shift_dr, rp.dr_decoded, rp.dr_lst)
  BY <1>1 DEF Rp
<1>4. [rp EXCEPT !.shift_dr = ShiftBelow(tdi, @, rp.dr_lst)]
        = Rp(rp.shift_ir, ShiftBelow(tdi, rp.shift_dr, rp.dr_lst), rp.dr_decoded, rp.dr_lst)
  BY <1>1 DEF Rp
<1>5. \A e, t, k : [rp EXCEPT !.shift_dr = e, !.dr_lst = k, !.dr_decoded = t] = Rp(rp.shift_ir, e, t, k)
  <2> TAKE e, t, k
  <2>1. PICK i, d, c, l : rp = Rp(i, d, c, l) /\ rp.shift_ir = i
    BY <1>1
  <2>2. [Rp(i, d, c, l) EXCEPT !.shift_dr = e, !.dr_lst = k, !.dr_decoded = t] = Rp(i, e, t, k)
    <3>1. [Rp(i, d, c, l) EXCEPT !.shift_dr = e] = Rp(i, e, c, l)
      BY DEF Rp
    <3>2. [Rp(i, e, c, l) EXCEPT !.dr_lst = k] = Rp(i, e, c, k)
      BY DEF Rp
    <3>3. [Rp(i, e, c, k) EXCEPT !.dr_decoded = t] = Rp(i, e, t, k)
      BY DEF Rp
    <3> QED BY <3>1, <3>2, <3>3
  <2> QED BY <2>1, <2>2
<1>6. \A t : [rp EXCEPT !.shift_dr[0] = 0, !.dr_lst = 0, !.dr_decoded = t]
                 = Rp(rp.shift_ir, [rp.shift_dr EXCEPT ![0] = 0], t, 0)
  <2> TAKE t
  <2>1. PICK i, d, c, l : rp = Rp(i, d, c, l) /\ rp.shift_ir = i /\ rp.shift_dr = d
    BY <1>1
  <2>2. [Rp(i, d, c, l) EXCEPT !.shift_dr[0] = 0, !.dr_lst = 0, !.dr_decoded = t]
          = Rp(i, [d EXCEPT ![0] = 0], t, 0)
    <3> DEFINE e == [d EXCEPT ![0] = 0]
    <3>1. [Rp(i, d, c, l) EXCEPT !.shift_dr[0] = 0] = Rp(i, e, c, l)
      BY DEF Rp
    <3>2. [Rp(i, e, c, l) EXCEPT !.dr_lst = 0] = Rp(i, e, c, 0)
      BY DEF Rp
    <3>3. [Rp(i, e, c, 0) EXCEPT !.dr_decoded = t] = Rp(i, e, t, 0)
      BY DEF Rp
    <3> QED BY <3>1, <3>2, <3>3
  <2> QED BY <2>1, <2>2
<1>7. [rp EXCEPT !.shift_dr = IDCODE_VAL, !.dr_lst = DR_LENGTH - 1, !.dr_decoded = TRUE]
        = Rp(rp.shift_ir, IDCODE_VAL, TRUE, DR_LENGTH - 1)
  BY <1>5, Zenon
<1>8. [rp EXCEPT !.shift_dr = USERCODE_VAL, !.dr_lst = DR_LENGTH - 1, !.dr_decoded = TRUE]
        = Rp(rp.shift_ir, USERCODE_VAL, TRUE, DR_LENGTH - 1)
  BY <1>5, Zenon
<1>9. [rp EXCEPT !.shift_dr[0] = 0, !.dr_lst = 0, !.dr_decoded = (ir = REG_BYPASS)]
        = Rp(rp.shift_ir, [rp.shift_dr EXCEPT ![0] = 0], ir = REG_BYPASS, 0)
  BY <1>6, Zenon
<1>10. REG_P_INIT = Rp(Zeros(IR_LENGTH), Zeros(DR_LENGTH), TRUE, 0)
  BY DEF REG_P_INIT, Rp
<1> QED BY <1>1, <1>2, <1>3, <1>4, <1>7, <1>8, <1>9, <1>10, Outputs DEF StatesAgree, FsmOk, NextRp, CapturedDR

\* The server's sniffer after TCK rises, state by state
LEMMA DumpIs ==
    ASSUME TapTypes, NEW m \in Bit, NEW b \in Bit, NEW c \in Bit
    PROVE  LET t == Advance(dump.state, m)
           IN  DumpAdvance(m, b, c) =
             CASE dump.state \in {"CaptureDR", "UpdateDR"} -> Dump(t, dump.iri, dump.iro, <<>>, <<>>)
               [] dump.state = "CaptureIR" -> Dump(t, <<>>, <<>>, dump.dri, dump.dro)
               [] dump.state = "UpdateIR" -> Dump(t, <<>>, dump.iro, dump.dri, dump.dro)
               [] dump.state = "ShiftDR" -> Dump(t, dump.iri, dump.iro, Append(dump.dri, c), Append(dump.dro, b))
               [] dump.state = "ShiftIR" -> Dump(t, Append(dump.iri, c), Append(dump.iro, b), dump.dri, dump.dro)
               [] OTHER -> Dump(t, dump.iri, dump.iro, dump.dri, dump.dro)
<1> DEFINE d == [dump EXCEPT !.state = Advance(@, m)]
           s == Advance(dump.state, m)
<1>1. d = Dump(s, dump.iri, dump.iro, dump.dri, dump.dro)
  <2>1. dump = Dump(dump.state, dump.iri, dump.iro, dump.dri, dump.dro)
    BY DEF TapTypes, Dump
  <2>2. \A z, x, y, u, v : [Dump(z, x, y, u, v) EXCEPT !.state = Advance(@, m)] = Dump(Advance(z, m), x, y, u, v)
    BY DEF Dump
  <2>3. \A z, x, y, u, v : dump = Dump(z, x, y, u, v) => d = Dump(Advance(z, m), x, y, u, v)
    BY <2>2
  <2> QED BY <2>1, <2>3
<1>2. PICK ii, io, di, do :
         /\ d = Dump(s, ii, io, di, do)
         /\ dump.iri = ii /\ dump.iro = io /\ dump.dri = di /\ dump.dro = do
  BY <1>1, Zenon
<1> HIDE DEF d, s
<1>3. d.iri = ii /\ d.iro = io /\ d.dri = di /\ d.dro = do
  BY <1>2 DEF Dump
<1>4. \A x, y : [d EXCEPT !.dri = x, !.dro = y] = Dump(s, ii, io, x, y)
  <2> TAKE x, y
  <2>1. [Dump(s, ii, io, di, do) EXCEPT !.dri = x] = Dump(s, ii, io, x, do)
    BY DEF Dump
  <2>2. [Dump(s, ii, io, x, do) EXCEPT !.dro = y] = Dump(s, ii, io, x, y)
    BY DEF Dump
  <2> QED BY <1>2, <2>1, <2>2
<1>5. \A x, y : [d EXCEPT !.iri = x, !.iro = y] = Dump(s, x, y, di, do)
  <2> TAKE x, y
  <2>1. [Dump(s, ii, io, di, do) EXCEPT !.iri = x] = Dump(s, x, io, di, do)
    BY DEF Dump
  <2>2. [Dump(s, x, io, di, do) EXCEPT !.iro = y] = Dump(s, x, y, di, do)
    BY DEF Dump
  <2> QED BY <1>2, <2>1, <2>2
<1>6. [d EXCEPT !.iri = Cleared] = Dump(s, <<>>, io, di, do)
  BY <1>2 DEF Dump, Cleared
<1>7. /\ [d EXCEPT !.dri = Cleared, !.dro = Cleared] = Dump(s, ii, io, <<>>, <<>>)
      /\ [d EXCEPT !.iri = Cleared, !.iro = Cleared] = Dump(s, <<>>, <<>>, di, do)
      /\ [d EXCEPT !.dri = addBit(@, c), !.dro = addBit(@, b)] = Dump(s, ii, io, Append(di, c), Append(do, b))
      /\ [d EXCEPT !.iri = addBit(@, c), !.iro = addBit(@, b)] = Dump(s, Append(ii, c), Append(io, b), di, do)
  BY <1>3, <1>4, <1>5, ZenonT(30) DEF Cleared, addBit
<1>8. DumpAdvance(m, b, c) =
        CASE dump.state \in {"CaptureDR", "UpdateDR"} -> [d EXCEPT !.dri = Cleared, !.dro = Cleared]
          [] dump.state = "CaptureIR" -> [d EXCEPT !.iri = Cleared, !.iro = Cleared]
          [] dump.state = "UpdateIR" -> [d EXCEPT !.iri = Cleared]
          [] dump.state = "ShiftDR" -> [d EXCEPT !.dri = addBit(@, c), !.dro = addBit(@, b)]
          [] dump.state = "ShiftIR" -> [d EXCEPT !.iri = addBit(@, c), !.iro = addBit(@, b)]
          [] OTHER -> d
  BY DEF DumpAdvance, d
<1> QED BY <1>2, <1>6, <1>7, <1>8 DEF s

\* The simulation's sniffer after TCK rises, state by state
LEMMA SniffIs ==
    ASSUME TapTypes, NEW m \in Bit, NEW b \in Bit
    PROVE  LET t == Advance(sniff.state, m)
           IN  SniffAdvance(m, b) =
             IF sniff.raised THEN sniff
             ELSE CASE sniff.state = "CaptureIR" -> Sniff(t, sniff.ir, <<>>, FALSE)
               [] sniff.state = "ShiftIR" -> Sniff(t, sniff.ir, Append(sniff.irShr, b), FALSE)
               [] sniff.state = "UpdateIR" ->
                    IF Len(sniff.irShr) = IR_LENGTH THEN Sniff(t, sniff.irShr, <<>>, FALSE)
                    ELSE Sniff(sniff.state, sniff.ir, <<>>, TRUE)
               [] OTHER -> Sniff(t, sniff.ir, sniff.irShr, FALSE)
<1> DEFINE d == [sniff EXCEPT !.state = Advance(@, m)]
           s == Advance(sniff.state, m)
<1>1. d = Sniff(s, sniff.ir, sniff.irShr, sniff.raised)
      /\ sniff = Sniff(sniff.state, sniff.ir, sniff.irShr, sniff.raised)
  BY DEF TapTypes, Sniff
<1>2. PICK z, i, h, r :
         /\ d = Sniff(s, i, h, r) /\ sniff = Sniff(z, i, h, r)
         /\ sniff.state = z /\ sniff.ir = i /\ sniff.irShr = h /\ sniff.raised = r
  BY <1>1, Zenon
<1> HIDE DEF d, s
<1>3. \A x : [d EXCEPT !.irShr = x] = Sniff(s, i, x, r)
  BY <1>2 DEF Sniff
<1>4. \A x, y : [d EXCEPT !.ir = x, !.irShr = y] = Sniff(s, x, y, r)
  <2> TAKE x, y
  <2>1. [Sniff(s, i, h, r) EXCEPT !.ir = x] = Sniff(s, x, h, r)
    BY DEF Sniff
  <2>2. [Sniff(s, x, h, r) EXCEPT !.irShr = y] = Sniff(s, x, y, r)
    BY DEF Sniff
  <2> QED BY <1>2, <2>1, <2>2
<1>5. \A x, y : [sniff EXCEPT !.raised = x, !.irShr = y] = Sniff(z, i, y, x)
  <2> TAKE x, y
  <2>1. [Sniff(z, i, h, r) EXCEPT !.raised = x] = Sniff(z, i, h, x)
    BY DEF Sniff
  <2>2. [Sniff(z, i, h, x) EXCEPT !.irShr = y] = Sniff(z, i, y, x)
    BY DEF Sniff
  <2> QED BY <1>2, <2>1, <2>2
<1>6. d.irShr = h
  BY <1>2 DEF Sniff
<1>7. /\ [d EXCEPT !.irShr = <<>>] = Sniff(s, i, <<>>, r)
      /\ [d EXCEPT !.irShr = Append(@, b)] = Sniff(s, i, Append(h, b), r)
      /\ [d EXCEPT !.ir = sniff.irShr, !.irShr = <<>>] = Sniff(s, h, <<>>, r)
      /\ [sniff EXCEPT !.raised = TRUE, !.irShr = <<>>] = Sniff(z, i, <<>>, TRUE)
  BY <1>2, <1>3, <1>4, <1>5, <1>6, Zenon
<1>8. SniffAdvance(m, b) =
        CASE sniff.raised -> sniff
          [] ~sniff.raised /\ sniff.state = "CaptureIR" -> [d EXCEPT !.irShr = <<>>]
          [] ~sniff.raised /\ sniff.state = "ShiftIR" -> [d EXCEPT !.irShr = Append(@, b)]
          [] ~sniff.raised /\ sniff.state = "UpdateIR" ->
               IF Len(sniff.irShr) = IR_LENGTH THEN [d EXCEPT !.ir = sniff.irShr, !.irShr = <<>>]
                             ELSE [sniff EXCEPT !.raised = TRUE, !.irShr = <<>>]
          [] OTHER -> d
  BY DEF SniffAdvance, IrComplete, d
<1>9. ~r => r = FALSE
  BY <1>2 DEF TapTypes
<1> QED BY <1>2, <1>7, <1>8, <1>9 DEF s

\* JtagTapIR's registers keep their lengths
LEMMA RpType ==
    ASSUME TapTypes, StatesAgree
    PROVE  NextRp \in [shift_ir : IrType, shift_dr : DrType, dr_decoded : BOOLEAN, dr_lst : 0..(DR_LENGTH - 1)]
<1> DEFINE R == [shift_ir : IrType, shift_dr : DrType, dr_decoded : BOOLEAN, dr_lst : 0..(DR_LENGTH - 1)]
<1>1. rp.shift_ir \in IrType /\ rp.shift_dr \in DrType /\ rp.dr_decoded \in BOOLEAN
      /\ rp.dr_lst \in 0..(DR_LENGTH - 1) /\ tdi \in Bit
  BY DEF TapTypes
<1>2. IR_LENGTH - 1 \in 0..(IR_LENGTH - 1) /\ DR_LENGTH - 1 \in 0..(DR_LENGTH - 1) /\ 0 \in 0..(DR_LENGTH - 1)
      /\ IR_LENGTH \in Nat /\ DR_LENGTH \in Nat
  BY Registers
<1>3. ShiftBelow(tdi, rp.shift_ir, IR_LENGTH - 1) \in IrType
  BY <1>1, <1>2, ShiftType DEF IrType
<1>4. ShiftBelow(tdi, rp.shift_dr, rp.dr_lst) \in DrType
  BY <1>1, <1>2, ShiftType DEF DrType
<1>5. [rp.shift_dr EXCEPT ![0] = 0] \in DrType
  BY <1>1 DEF DrType, Bit
<1>6. \A i \in IrType, d \in DrType, c \in BOOLEAN, l \in 0..(DR_LENGTH - 1) : Rp(i, d, c, l) \in R
  BY DEF Rp
<1> HIDE DEF R
<1>7. /\ Rp(Zeros(IR_LENGTH), Zeros(DR_LENGTH), TRUE, 0) \in R
      /\ Rp(IR_VAL, rp.shift_dr, rp.dr_decoded, rp.dr_lst) \in R
      /\ Rp(ShiftBelow(tdi, rp.shift_ir, IR_LENGTH - 1), rp.shift_dr, rp.dr_decoded, rp.dr_lst) \in R
      /\ Rp(rp.shift_ir, IDCODE_VAL, TRUE, DR_LENGTH - 1) \in R
      /\ Rp(rp.shift_ir, USERCODE_VAL, TRUE, DR_LENGTH - 1) \in R
      /\ Rp(rp.shift_ir, [rp.shift_dr EXCEPT ![0] = 0], ir = REG_BYPASS, 0) \in R
      /\ Rp(rp.shift_ir, ShiftBelow(tdi, rp.shift_dr, rp.dr_lst), rp.dr_decoded, rp.dr_lst) \in R
      /\ Rp(rp.shift_ir, rp.shift_dr, rp.dr_decoded, rp.dr_lst) \in R
  BY <1>1, <1>2, <1>3, <1>4, <1>5, <1>6, Registers, Zenon
<1>8. NextRp \in R
  BY <1>7, RpIs
<1> QED BY <1>8 DEF R

\* The states of the tables lead to states of the tables
LEMMA AdvanceType ==
    ASSUME NEW s \in States, NEW m \in Bit
    PROVE  Advance(s, m) \in States
  BY AdvanceIs DEF States, After

\* The sniffers' registers are sequences of bits
LEMMA SnifferTypes ==
    ASSUME TapTypes, NEW m \in Bit, NEW b \in Bit, NEW c \in Bit
    PROVE  /\ DumpAdvance(m, b, c) \in [state : States, iri : Seq(Bit), iro : Seq(Bit),
                                          dri : Seq(Bit), dro : Seq(Bit)]
           /\ SniffAdvance(m, b) \in [state : States, ir : Seq(Bit), irShr : Seq(Bit), raised : BOOLEAN]
<1> DEFINE D == [state : States, iri : Seq(Bit), iro : Seq(Bit), dri : Seq(Bit), dro : Seq(Bit)]
           N == [state : States, ir : Seq(Bit), irShr : Seq(Bit), raised : BOOLEAN]
<1>1. Advance(dump.state, m) \in States /\ Advance(sniff.state, m) \in States
  BY AdvanceType DEF TapTypes
<1>2. \A s \in States, x, y, u, v \in Seq(Bit) : Dump(s, x, y, u, v) \in D
  BY DEF Dump
<1>3. \A s \in States, x, y \in Seq(Bit), r \in BOOLEAN : Sniff(s, x, y, r) \in N
  BY DEF Sniff
<1>4. /\ dump.iri \in Seq(Bit) /\ dump.iro \in Seq(Bit) /\ dump.dri \in Seq(Bit) /\ dump.dro \in Seq(Bit)
      /\ sniff \in N /\ sniff.state \in States /\ sniff.ir \in Seq(Bit) /\ sniff.irShr \in Seq(Bit)
      /\ <<>> \in Seq(Bit) /\ \A s \in Seq(Bit) : Append(s, b) \in Seq(Bit) /\ Append(s, c) \in Seq(Bit)
  BY DEF TapTypes
<1> HIDE DEF D, N
<1>5. DumpAdvance(m, b, c) \in D
  <2> DEFINE t == Advance(dump.state, m)
  <2>1. /\ Dump(t, dump.iri, dump.iro, <<>>, <<>>) \in D
        /\ Dump(t, <<>>, <<>>, dump.dri, dump.dro) \in D
        /\ Dump(t, <<>>, dump.iro, dump.dri, dump.dro) \in D
        /\ Dump(t, dump.iri, dump.iro, Append(dump.dri, c), Append(dump.dro, b)) \in D
        /\ Dump(t, Append(dump.iri, c), Append(dump.iro, b), dump.dri, dump.dro) \in D
        /\ Dump(t, dump.iri, dump.iro, dump.dri, dump.dro) \in D
    BY <1>1, <1>2, <1>4, Zenon
  <2> QED BY <2>1, DumpIs
<1>6. SniffAdvance(m, b) \in N
  <2> DEFINE t == Advance(sniff.state, m)
  <2>1. /\ sniff \in N
        /\ Sniff(t, sniff.ir, <<>>, FALSE) \in N
        /\ Sniff(t, sniff.ir, Append(sniff.irShr, b), FALSE) \in N
        /\ Sniff(t, sniff.irShr, <<>>, FALSE) \in N
        /\ Sniff(sniff.state, sniff.ir, <<>>, TRUE) \in N
        /\ Sniff(t, sniff.ir, sniff.irShr, FALSE) \in N
    BY <1>1, <1>3, <1>4, Zenon
  <2> QED BY <2>1, SniffIs
<1> QED BY <1>5, <1>6 DEF D, N

\* TCK rises: everyone who watches TMS goes on to the same state
LEMMA RiseStates ==
    ASSUME TapTypes, StatesAgree, Rise
    PROVE  /\ TapTypes' /\ StatesAgree'
           /\ tck = 0 /\ tck' = 1 /\ ir' = ir /\ bscan' = bscan
           /\ dump'.state = Advance(dump.state, tms)
<1>1. tck \in Bit /\ tms \in Bit /\ tdi \in Bit /\ bscan.tdo \in Bit /\ FsmType(fsm) /\ FsmOk(fsm, dump.state)
  BY DEF TapTypes, StatesAgree, FsmOk
<1>2. tck = 0 /\ tck' = 1 /\ tms' = tms /\ tdi' = tdi /\ ir' = ir /\ bscan' = bscan
      /\ fsm' = NextFsm(tms) /\ rp' = NextRp
      /\ dump' = DumpAdvance(tms, tdi, bscan.tdo) /\ sniff' = SniffAdvance(tms, tdi)
  BY DEF Rise
<1>3. FsmType(fsm') /\ FsmOk(fsm', Advance(dump.state, tms))
  BY <1>1, <1>2, FsmAdvances
<1>4. dump'.state = Advance(dump.state, tms)
  BY <1>1, <1>2, DumpIs DEF Dump
<1>5. ~sniff'.raised => sniff'.state = Advance(dump.state, tms)
  <2>1. ~sniff.raised => sniff.state = dump.state
    BY DEF StatesAgree
  <2> DEFINE t == Advance(sniff.state, tms)
  <2>2. \/ sniff.raised /\ sniff' = sniff
        \/ ~sniff.raised /\ \E x, y : sniff' = Sniff(t, x, y, FALSE)
        \/ \E x, y : sniff' = Sniff(sniff.state, x, y, TRUE)
    BY <1>1, <1>2, SniffIs
  <2> HIDE DEF t
  <2>3. \A s, x, y, r : Sniff(s, x, y, r).state = s /\ Sniff(s, x, y, r).raised = r
    BY DEF Sniff
  <2>4. CASE sniff.raised /\ sniff' = sniff
    BY <2>4
  <2>5. CASE ~sniff.raised /\ \E x, y : sniff' = Sniff(t, x, y, FALSE)
    <3>1. PICK x, y : sniff' = Sniff(t, x, y, FALSE)
      BY <2>5
    <3>2. sniff'.state = t
      BY <2>3, <3>1, Zenon
    <3>3. t = Advance(dump.state, tms)
      BY <2>1, <2>5 DEF t
    <3> QED BY <3>2, <3>3
  <2>6. CASE \E x, y : sniff' = Sniff(sniff.state, x, y, TRUE)
    <3>1. PICK x, y : sniff' = Sniff(sniff.state, x, y, TRUE)
      BY <2>6
    <3>2. sniff'.raised = TRUE
      <4>1. Sniff(sniff.state, x, y, TRUE).raised = TRUE
        BY DEF Sniff
      <4> QED BY <3>1, <4>1, Zenon
    <3> QED BY <3>2, Zenon
  <2> QED BY <2>2, <2>4, <2>5, <2>6
<1>6. user' \in DrType
  <2>1. ShiftBelow(tdi, user, DR_LENGTH - 1) \in DrType
    <3>1. user \in DrType /\ DR_LENGTH \in Nat /\ DR_LENGTH - 1 \in 0..(DR_LENGTH - 1)
      BY Registers DEF TapTypes
    <3> QED BY <1>1, <3>1, ShiftType DEF DrType
  <2>2. user \in DrType /\ USER_VAL \in DrType
    BY Registers DEF TapTypes
  <2> QED BY <2>1, <2>2 DEF Rise, UserEdge
<1>7. /\ dump' \in [state : States, iri : Seq(Bit), iro : Seq(Bit), dri : Seq(Bit), dro : Seq(Bit)]
      /\ sniff' \in [state : States, ir : Seq(Bit), irShr : Seq(Bit), raised : BOOLEAN]
  BY <1>1, <1>2, SnifferTypes
<1>8. rp' \in [shift_ir : IrType, shift_dr : DrType, dr_decoded : BOOLEAN, dr_lst : 0..(DR_LENGTH - 1)]
  BY <1>2, RpType
<1>9. tck' \in Bit
  BY <1>2 DEF Bit
<1>10. TapTypes'
  BY <1>2, <1>3, <1>6, <1>7, <1>8, <1>9 DEF TapTypes
<1>11. StatesAgree'
  BY <1>3, <1>4, <1>5 DEF StatesAgree, FsmOk
<1> QED BY <1>2, <1>4, <1>10, <1>11

\* TCK falls: the instruction and the BSCAN port follow the state, which stays
LEMMA FallStates ==
    ASSUME TapTypes, StatesAgree, NEW m \in Bit, NEW i \in Bit, Fall(m, i)
    PROVE  /\ TapTypes' /\ StatesAgree'
           /\ tck = 1 /\ tck' = 0 /\ rp' = rp /\ dump' = dump /\ sniff' = sniff
           /\ ir' = NextIr /\ bscan' = NextBscan
<1>1. /\ tck = 1 /\ tck' = 0 /\ rp' = rp /\ dump' = dump /\ sniff' = sniff /\ fsm' = fsm
      /\ tms' = m /\ tdi' = i
      /\ ir' = NextIr /\ bscan' = NextBscan
  BY DEF Fall
<1>2. user' \in DrType
  <2>1. ShiftBelow(tdi, user, DR_LENGTH - 1) \in DrType
    <3>1. tdi \in Bit /\ user \in DrType /\ DR_LENGTH \in Nat /\ DR_LENGTH - 1 \in 0..(DR_LENGTH - 1)
      BY Registers DEF TapTypes
    <3> QED BY <3>1, ShiftType DEF DrType
  <2>2. user \in DrType /\ USER_VAL \in DrType
    BY Registers DEF TapTypes
  <2> QED BY <2>1, <2>2 DEF Fall, UserEdge
<1>3. ir' \in IrType
  BY <1>1, Registers DEF NextIr, TapTypes
<1>4. bscan' \in [tdo : Bit, captureDR : BOOLEAN, shiftDR : BOOLEAN, updateDR : BOOLEAN,
                  selUSER : BOOLEAN, drckSel : BOOLEAN]
  <2>1. user[0] \in Bit /\ rp.shift_ir[0] \in Bit /\ rp.shift_dr[0] \in Bit /\ 1 \in Bit
    BY Registers DEF TapTypes, IrType, DrType, Bit
  <2>2. tapTdo \in Bit
    BY <2>1 DEF tapTdo
  <2>3. NextBscan.tdo \in Bit
    BY <2>1, <2>2 DEF NextBscan
  <2>4. /\ InDR("CAPTURE") \in BOOLEAN /\ InDR("SHIFT") \in BOOLEAN /\ InDR("UPDATE") \in BOOLEAN
        /\ BscanSel \in BOOLEAN
        /\ ((InDR("CAPTURE") \/ InDR("SHIFT")) /\ BscanSel) \in BOOLEAN
    BY DEF InDR, BscanSel, selUSERTap, TapTypes
  <2> QED BY <1>1, <2>3, <2>4 DEF NextBscan
<1>5. tck' \in Bit
  BY <1>1 DEF Bit
<1>6. TapTypes'
  BY <1>1, <1>2, <1>3, <1>4, <1>5 DEF TapTypes
<1>7. StatesAgree'
  BY <1>1 DEF StatesAgree
<1> QED BY <1>1, <1>6, <1>7

-----------------------------------------------------------------------------
(* The two variants of the BSCAN port *)

\* Test-Logic-Reset, for any state vectors
LEMMA ResetOutput ==
    ASSUME NEW f, NEW d, FsmOk(f, d)
    PROVE  ("TEST_LOGIC_RESET" \in f.primaryState) = (d = "TestLogicReset")
  BY DEF FsmOk, TapStates

\* Between the edges the BSCAN port would not change: it is settled before TCK rises
LEMMA Settles ==
    ASSUME TapTypes, StatesAgree, PortInv, tck = 0
    PROVE  BscanSel = bscan.selUSER /\ NextIr = ir
<1>1. FsmOk(fsm, dump.state)
  BY DEF StatesAgree, FsmOk
<1>2. testLogicReset = (dump.state = "TestLogicReset") /\ InIR("UPDATE") = (dump.state = "UpdateIR")
  BY <1>1, Outputs
<1>3. NextIr = ir
  BY <1>2 DEF NextIr, PortInv
<1>4. bscan.selUSER \in BOOLEAN
  BY DEF TapTypes
<1>5. CASE dump.state = "TestLogicReset"
  BY <1>2, <1>3, <1>4, <1>5 DEF BscanSel, PortInv
<1>6. CASE dump.state = "UpdateIR"
  <2>1. bscan.selUSER = (ir # REG_BYPASS /\ ir = REG_USER)
    BY <1>6 DEF PortInv
  <2>2. selUSERTap = (ir # REG_BYPASS /\ ir = REG_USER)
    BY <1>3 DEF selUSERTap
  <2>3. BscanSel = selUSERTap
    BY <1>2, <1>6 DEF BscanSel
  <2> QED BY <1>3, <2>1, <2>2, <2>3
<1>7. CASE dump.state \notin {"TestLogicReset", "UpdateIR"}
  BY <1>2, <1>3, <1>7 DEF BscanSel
<1> QED BY <1>5, <1>6, <1>7

\* When TCK rises the two variants of the port make the same step
LEMMA RisePorts ==
    ASSUME PortsInv, Rise
    PROVE  PortsInv'
<1>1. TapTypes /\ StatesAgree /\ PortInv /\ VariantsAgree
  BY DEF PortsInv
<1>2. /\ TapTypes' /\ StatesAgree' /\ tck = 0 /\ tck' = 1 /\ ir' = ir /\ bscan' = bscan
      /\ dump'.state = Advance(dump.state, tms)
  BY <1>1, RiseStates
<1>3. PortInv'
  BY <1>2 DEF PortInv
<1>4. testLogicReset' = (dump'.state = "TestLogicReset") /\ testLogicReset = (dump.state = "TestLogicReset")
  <2>1. FsmOk(fsm, dump.state) /\ FsmOk(fsm', dump'.state)
    BY <1>1, <1>2 DEF StatesAgree, FsmOk
  <2> QED BY <2>1, ResetOutput DEF testLogicReset
<1>5. nextStateTLR = testLogicReset'
  BY DEF nextStateTLR, testLogicReset, Rise
<1>6. BscanSel = bscan.selUSER
  BY <1>1, <1>2, Settles
<1>7. InDR("CAPTURE") = (dump.state = "CaptureDR") /\ InDR("SHIFT") = (dump.state = "ShiftDR")
  BY <1>1, Outputs DEF StatesAgree, FsmOk
<1>8. /\ NextBscan.selUSER = bscan.selUSER
      /\ NextBscan.drckSel = ((InDR("CAPTURE") \/ InDR("SHIFT")) /\ bscan.selUSER)
  BY <1>6 DEF NextBscan
<1>9. bscan.drckSel = (dump.state \in {"CaptureDR", "ShiftDR"} /\ bscan.selUSER)
  BY <1>1, <1>2 DEF PortInv
<1>10. bscan.drckSel => bscan.selUSER /\ dump'.state # "TestLogicReset"
  <2>1. tms \in Bit
    BY <1>1 DEF TapTypes
  <2>2. Advance("CaptureDR", tms) # "TestLogicReset" /\ Advance("ShiftDR", tms) # "TestLogicReset"
    BY <2>1, AdvanceIs
  <2>3. dump'.state = Advance(dump.state, tms)
    BY <1>2
  <2> QED BY <1>9, <2>2, <2>3
<1>11. NextBscan.drckSel \/ NextBscan.selUSER <=> bscan.selUSER
  BY <1>8
<1>12. ce'.SEL = (~nextStateTLR /\ ce.SEL) /\ ce'.DRCK = (~nextStateTLR /\ (NextBscan.drckSel \/ NextBscan.selUSER))
  BY DEF Rise
<1>13. ce.SEL = (bscan.selUSER /\ ~testLogicReset)
  BY <1>1 DEF VariantsAgree, SEL
<1>14. dump.state = "TestLogicReset" => ~bscan.selUSER
  BY <1>1, <1>2 DEF PortInv
<1>15. ce'.SEL = (bscan.selUSER /\ ~testLogicReset')
  BY <1>4, <1>5, <1>12, <1>13, <1>14, Zenon
<1>16. ce'.DRCK = (bscan.selUSER /\ ~testLogicReset')
  BY <1>5, <1>11, <1>12, Zenon
<1>17. SEL' = (bscan.selUSER /\ ~testLogicReset')
  BY <1>2 DEF SEL
<1>18. DRCK' = IF bscan.drckSel THEN TRUE ELSE SEL'
  BY <1>2 DEF DRCK
<1>19. DRCK' = (bscan.selUSER /\ ~testLogicReset')
  BY <1>4, <1>10, <1>17, <1>18
<1>20. VariantsAgree'
  BY <1>2, <1>15, <1>16, <1>17, <1>19 DEF VariantsAgree
<1> QED BY <1>2, <1>3, <1>20 DEF PortsInv

\* When TCK falls both variants show the state of the TAP
LEMMA FallPorts ==
    ASSUME PortsInv, NEW m \in Bit, NEW i \in Bit, Fall(m, i)
    PROVE  PortsInv'
<1>1. TapTypes /\ StatesAgree
  BY DEF PortsInv
<1>2. /\ TapTypes' /\ StatesAgree' /\ tck' = 0 /\ rp' = rp /\ dump' = dump
      /\ ir' = NextIr /\ bscan' = NextBscan
  BY <1>1, FallStates
<1>3. FsmOk(fsm, dump.state) /\ fsm' = fsm
  BY <1>1 DEF StatesAgree, FsmOk, Fall
<1>4. /\ testLogicReset = (dump.state = "TestLogicReset") /\ InIR("UPDATE") = (dump.state = "UpdateIR")
      /\ InDR("CAPTURE") = (dump.state = "CaptureDR") /\ InDR("SHIFT") = (dump.state = "ShiftDR")
      /\ InDR("UPDATE") = (dump.state = "UpdateDR")
  BY <1>3, Outputs
<1>5. /\ bscan'.captureDR = InDR("CAPTURE") /\ bscan'.shiftDR = InDR("SHIFT")
      /\ bscan'.updateDR = InDR("UPDATE") /\ bscan'.selUSER = BscanSel
      /\ bscan'.drckSel = ((InDR("CAPTURE") \/ InDR("SHIFT")) /\ BscanSel)
  BY <1>2 DEF NextBscan
<1>6. dump.state = "TestLogicReset" => NextIr = REG_IDCODE /\ ~BscanSel
  BY <1>4 DEF NextIr, BscanSel
<1>7. dump.state = "UpdateIR" => NextIr = rp.shift_ir /\ BscanSel = (NextIr # REG_BYPASS /\ NextIr = REG_USER)
  BY <1>4 DEF NextIr, BscanSel, selUSERTap
<1>8. bscan'.drckSel = (dump.state \in {"CaptureDR", "ShiftDR"} /\ bscan'.selUSER)
  BY <1>4, <1>5
<1>9. PortInv'
  BY <1>2, <1>4, <1>5, <1>6, <1>7, <1>8 DEF PortInv
<1>10. testLogicReset' = testLogicReset
  BY <1>3 DEF testLogicReset
<1>11. ce'.SEL = bscan'.selUSER /\ ce'.DRCK = (~bscan'.drckSel /\ bscan'.selUSER) /\ ce'.UPDATE = bscan'.updateDR
  BY DEF Fall
<1>12. SEL' = (bscan'.selUSER /\ ~testLogicReset') /\ DRCK' = IF bscan'.drckSel THEN FALSE ELSE SEL'
  <2>1. SEL' = (bscan'.selUSER /\ ~testLogicReset')
    BY DEF SEL
  <2>2. DRCK' = IF bscan'.drckSel THEN tck' = 1 ELSE SEL'
    BY DEF DRCK
  <2>3. (tck' = 1) = FALSE
    BY <1>2
  <2> QED BY <2>1, <2>2, <2>3, Zenon
<1>13. bscan'.selUSER \in BOOLEAN /\ bscan'.drckSel \in BOOLEAN
  BY <1>2 DEF TapTypes
<1>14. testLogicReset' => ~bscan'.selUSER
  BY <1>4, <1>5, <1>6, <1>10, Zenon
<1>15. SEL' = bscan'.selUSER
  BY <1>12, <1>13, <1>14, Zenon
<1>16. DRCK' = (~bscan'.drckSel /\ bscan'.selUSER)
  BY <1>12, <1>13, <1>15
<1>17. VariantsAgree'
  BY <1>11, <1>15, <1>16 DEF VariantsAgree
<1> QED BY <1>2, <1>9, <1>17 DEF PortsInv

\* The first state
LEMMA InitPorts ==
    ASSUME Init
    PROVE  PortsInv
<1>1. Bits(Zeros(IR_LENGTH), IR_LENGTH) \in Seq(Bit)
  BY Registers, BitsType DEF IrType
<1>2. TapTypes
  <2>1. tck \in Bit /\ tms \in Bit /\ tdi \in Bit /\ FsmType(fsm) /\ ir \in IrType /\ user \in DrType
    BY Registers DEF Init, FsmType, Bit
  <2>2. rp \in [shift_ir : IrType, shift_dr : DrType, dr_decoded : BOOLEAN, dr_lst : 0..(DR_LENGTH - 1)]
    BY Registers DEF Init
  <2>3. bscan \in [tdo : Bit, captureDR : BOOLEAN, shiftDR : BOOLEAN, updateDR : BOOLEAN,
                   selUSER : BOOLEAN, drckSel : BOOLEAN]
    BY DEF Init, Bit
  <2>4. dump \in [state : States, iri : Seq(Bit), iro : Seq(Bit), dri : Seq(Bit), dro : Seq(Bit)]
    BY DEF Init, DumpInit, Cleared, States, After
  <2>5. sniff \in [state : States, ir : Seq(Bit), irShr : Seq(Bit), raised : BOOLEAN]
    BY <1>1 DEF Init, States, After
  <2> QED BY <2>1, <2>2, <2>3, <2>4, <2>5 DEF TapTypes
<1>3. StatesAgree
  BY DEF Init, StatesAgree, DumpInit, TapStates
<1>4. PortInv
  BY DEF Init, PortInv, DumpInit
<1>5. VariantsAgree
  <2>1. bscan.selUSER = FALSE /\ bscan.drckSel = FALSE /\ bscan.updateDR = FALSE
        /\ ce.SEL = FALSE /\ ce.DRCK = FALSE /\ ce.UPDATE = FALSE
    BY DEF Init
  <2>2. SEL = FALSE
    BY <2>1 DEF SEL
  <2>3. DRCK = FALSE
    BY <2>1, <2>2 DEF DRCK
  <2> QED BY <2>1, <2>2, <2>3 DEF VariantsAgree
<1> QED BY <1>2, <1>3, <1>4, <1>5 DEF PortsInv

\* Every step of the TAP keeps the states and the two ports together
LEMMA NextPorts ==
    ASSUME PortsInv, [Next]_vars
    PROVE  PortsInv'
<1>1. CASE Rise
  BY <1>1, RisePorts
<1>2. CASE \E m, i \in Bit : Fall(m, i)
  BY <1>2, FallPorts
<1>3. CASE UNCHANGED vars
  <2>1. TapTypes' /\ StatesAgree' /\ PortInv'
    BY <1>3 DEF PortsInv, TapTypes, StatesAgree, PortInv, vars
  <2>2. VariantsAgree'
    <3>1. bscan' = bscan /\ ce' = ce /\ tck' = tck /\ testLogicReset' = testLogicReset
      BY <1>3 DEF vars, testLogicReset
    <3>2. SEL' = SEL /\ DRCK' = DRCK
      BY <3>1 DEF SEL, DRCK
    <3> QED BY <3>1, <3>2 DEF PortsInv, VariantsAgree
  <2> QED BY <2>1, <2>2 DEF PortsInv
<1> QED BY <1>1, <1>2, <1>3 DEF Next

\* JtagTapFSM.vhd, jtagDump.cc and JtagSniffer.py are three implementations of one
\* state machine: they are in the same state whatever TMS does, and at most one bit
\* of each state vector of the TAP is set.
THEOREM StatesInStep == Spec => []StatesAgree
<1>1. Init => PortsInv
  BY InitPorts
<1>2. PortsInv /\ [Next]_vars => PortsInv'
  BY NextPorts
<1>3. PortsInv => StatesAgree
  BY DEF PortsInv
<1> QED BY <1>1, <1>2, <1>3, PTL DEF Spec

\* The variant of Jtag2BSCAN clocked by TCK and the one with clock enables show the
\* same SEL and DRCK in every half period and raise UPDATE together, for every choice
\* of instructions.
THEOREM PortsAgree == Spec => []VariantsAgree
<1>1. Init => PortsInv
  BY InitPorts
<1>2. PortsInv /\ [Next]_vars => PortsInv'
  BY NextPorts
<1>3. PortsInv => VariantsAgree
  BY DEF PortsInv
<1> QED BY <1>1, <1>2, <1>3, PTL DEF Spec

-----------------------------------------------------------------------------
(* The instruction register *)

\* What TCK rising does to the registers, field by field
LEMMA RiseFields ==
    ASSUME TapTypes, StatesAgree, Rise
    PROVE  LET z == dump.state IN
           /\ dump'.iri = IF z \in {"CaptureIR", "UpdateIR"} THEN <<>>
                          ELSE IF z = "ShiftIR" THEN Append(dump.iri, bscan.tdo) ELSE dump.iri
           /\ dump'.iro = IF z = "CaptureIR" THEN <<>>
                          ELSE IF z = "ShiftIR" THEN Append(dump.iro, tdi) ELSE dump.iro
           /\ dump'.dri = IF z \in {"CaptureDR", "UpdateDR"} THEN <<>>
                          ELSE IF z = "ShiftDR" THEN Append(dump.dri, bscan.tdo) ELSE dump.dri
           /\ dump'.dro = IF z \in {"CaptureDR", "UpdateDR"} THEN <<>>
                          ELSE IF z = "ShiftDR" THEN Append(dump.dro, tdi) ELSE dump.dro
           /\ z = "CaptureIR" => rp'.shift_ir = IR_VAL
           /\ z = "ShiftIR" => rp'.shift_ir = ShiftBelow(tdi, rp.shift_ir, IR_LENGTH - 1)
           /\ z \notin {"TestLogicReset", "CaptureIR", "ShiftIR"} => rp'.shift_ir = rp.shift_ir
<1> DEFINE z == dump.state
           t == Advance(z, tms)
<1>1. tms \in Bit /\ tdi \in Bit /\ bscan.tdo \in Bit /\ dump.state \in States
  BY DEF TapTypes
<1>2. dump' = CASE z \in {"CaptureDR", "UpdateDR"} -> Dump(t, dump.iri, dump.iro, <<>>, <<>>)
                [] z = "CaptureIR" -> Dump(t, <<>>, <<>>, dump.dri, dump.dro)
                [] z = "UpdateIR" -> Dump(t, <<>>, dump.iro, dump.dri, dump.dro)
                [] z = "ShiftDR" ->
                     Dump(t, dump.iri, dump.iro, Append(dump.dri, bscan.tdo), Append(dump.dro, tdi))
                [] z = "ShiftIR" ->
                     Dump(t, Append(dump.iri, bscan.tdo), Append(dump.iro, tdi), dump.dri, dump.dro)
                [] OTHER -> Dump(t, dump.iri, dump.iro, dump.dri, dump.dro)
  BY <1>1, DumpIs DEF Rise
<1>3. \A s, x, y, u, v : /\ Dump(s, x, y, u, v).iri = x /\ Dump(s, x, y, u, v).iro = y
                         /\ Dump(s, x, y, u, v).dri = u /\ Dump(s, x, y, u, v).dro = v
  BY DEF Dump
<1> HIDE DEF t
<1>4. /\ dump'.iri = IF z \in {"CaptureIR", "UpdateIR"} THEN <<>>
                     ELSE IF z = "ShiftIR" THEN Append(dump.iri, bscan.tdo) ELSE dump.iri
      /\ dump'.iro = IF z = "CaptureIR" THEN <<>>
                     ELSE IF z = "ShiftIR" THEN Append(dump.iro, tdi) ELSE dump.iro
  BY <1>2, <1>3
<1>5. /\ dump'.dri = IF z \in {"CaptureDR", "UpdateDR"} THEN <<>>
                     ELSE IF z = "ShiftDR" THEN Append(dump.dri, bscan.tdo) ELSE dump.dri
      /\ dump'.dro = IF z \in {"CaptureDR", "UpdateDR"} THEN <<>>
                     ELSE IF z = "ShiftDR" THEN Append(dump.dro, tdi) ELSE dump.dro
  BY <1>2, <1>3
<1>6. \A a, d, c, l : Rp(a, d, c, l).shift_ir = a
  BY DEF Rp
<1>7. /\ z = "CaptureIR" => rp'.shift_ir = IR_VAL
      /\ z = "ShiftIR" => rp'.shift_ir = ShiftBelow(tdi, rp.shift_ir, IR_LENGTH - 1)
      /\ z \notin {"TestLogicReset", "CaptureIR", "ShiftIR"} => rp'.shift_ir = rp.shift_ir
  <2>1. rp' = NextRp
    BY DEF Rise
  <2>2. CASE z = "CaptureIR"
    <3>1. NextRp = Rp(IR_VAL, rp.shift_dr, rp.dr_decoded, rp.dr_lst)
      BY <2>2, RpIs
    <3> QED BY <1>6, <2>1, <2>2, <3>1
  <2>3. CASE z = "ShiftIR"
    <3>1. NextRp = Rp(ShiftBelow(tdi, rp.shift_ir, IR_LENGTH - 1), rp.shift_dr, rp.dr_decoded, rp.dr_lst)
      BY <2>3, RpIs
    <3> QED BY <1>6, <2>1, <2>3, <3>1
  <2>4. CASE z \notin {"TestLogicReset", "CaptureIR", "ShiftIR"}
    <3>1. NextRp.shift_ir = rp.shift_ir
      <4>1. \/ NextRp = Rp(rp.shift_ir, IDCODE_VAL, TRUE, DR_LENGTH - 1)
            \/ NextRp = Rp(rp.shift_ir, USERCODE_VAL, TRUE, DR_LENGTH - 1)
            \/ NextRp = Rp(rp.shift_ir, [rp.shift_dr EXCEPT ![0] = 0], ir = REG_BYPASS, 0)
            \/ NextRp = Rp(rp.shift_ir, ShiftBelow(tdi, rp.shift_dr, rp.dr_lst), rp.dr_decoded, rp.dr_lst)
            \/ NextRp = Rp(rp.shift_ir, rp.shift_dr, rp.dr_decoded, rp.dr_lst)
        BY <2>4, RpIs
      <4>2. /\ Rp(rp.shift_ir, IDCODE_VAL, TRUE, DR_LENGTH - 1).shift_ir = rp.shift_ir
            /\ Rp(rp.shift_ir, USERCODE_VAL, TRUE, DR_LENGTH - 1).shift_ir = rp.shift_ir
            /\ Rp(rp.shift_ir, [rp.shift_dr EXCEPT ![0] = 0], ir = REG_BYPASS, 0).shift_ir = rp.shift_ir
            /\ Rp(rp.shift_ir, ShiftBelow(tdi, rp.shift_dr, rp.dr_lst), rp.dr_decoded, rp.dr_lst).shift_ir
                  = rp.shift_ir
            /\ Rp(rp.shift_ir, rp.shift_dr, rp.dr_decoded, rp.dr_lst).shift_ir = rp.shift_ir
        BY DEF Rp
      <4> QED BY <4>1, <4>2, Zenon
    <3> QED BY <2>1, <2>4, <3>1
  <2> QED BY <2>2, <2>3, <2>4
<1> QED BY <1>4, <1>5, <1>7

\* What TCK rising does to the simulation's sniffer as long as nothing was raised
LEMMA RiseSniff ==
    ASSUME TapTypes, StatesAgree, Rise
    PROVE  /\ sniff.raised => sniff'.raised
           /\ ~sniff'.raised =>
                /\ ~sniff.raised /\ sniff.state = dump.state
                /\ sniff'.irShr = IF dump.state \in {"CaptureIR", "UpdateIR"} THEN <<>>
                                  ELSE IF dump.state = "ShiftIR" THEN Append(sniff.irShr, tdi) ELSE sniff.irShr
                /\ sniff'.ir = IF dump.state = "UpdateIR" THEN sniff.irShr ELSE sniff.ir
                /\ dump.state = "UpdateIR" => Len(sniff.irShr) = IR_LENGTH
<1> DEFINE t == Advance(sniff.state, tms)
<1>1. sniff' = IF sniff.raised THEN sniff
               ELSE CASE sniff.state = "CaptureIR" -> Sniff(t, sniff.ir, <<>>, FALSE)
                 [] sniff.state = "ShiftIR" -> Sniff(t, sniff.ir, Append(sniff.irShr, tdi), FALSE)
                 [] sniff.state = "UpdateIR" ->
                      IF Len(sniff.irShr) = IR_LENGTH THEN Sniff(t, sniff.irShr, <<>>, FALSE)
                      ELSE Sniff(sniff.state, sniff.ir, <<>>, TRUE)
                 [] OTHER -> Sniff(t, sniff.ir, sniff.irShr, FALSE)
  <2>1. tms \in Bit /\ tdi \in Bit
    BY DEF TapTypes
  <2> QED BY <2>1, SniffIs DEF Rise
<1> HIDE DEF t
<1>3. CASE sniff.raised
  BY <1>1, <1>3
<1>4. CASE ~sniff.raised /\ sniff.state = "UpdateIR" /\ Len(sniff.irShr) # IR_LENGTH
  <2>1. sniff' = Sniff(sniff.state, sniff.ir, <<>>, TRUE)
    BY <1>1, <1>4
  <2>2. Sniff(sniff.state, sniff.ir, <<>>, TRUE).raised = TRUE
    BY DEF Sniff
  <2> QED BY <1>4, <2>1, <2>2, Zenon
<1>5. CASE ~sniff.raised /\ ~(sniff.state = "UpdateIR" /\ Len(sniff.irShr) # IR_LENGTH)
  <2>1. sniff.state = dump.state
    BY <1>5 DEF StatesAgree
  <2>2. /\ sniff'.irShr = IF dump.state \in {"CaptureIR", "UpdateIR"} THEN <<>>
                          ELSE IF dump.state = "ShiftIR" THEN Append(sniff.irShr, tdi) ELSE sniff.irShr
        /\ sniff'.ir = IF dump.state = "UpdateIR" THEN sniff.irShr ELSE sniff.ir
    <3>1. CASE dump.state = "CaptureIR"
      <4>1. sniff' = Sniff(t, sniff.ir, <<>>, FALSE)
        BY <1>1, <1>5, <2>1, <3>1
      <4>2. Sniff(t, sniff.ir, <<>>, FALSE).ir = sniff.ir /\ Sniff(t, sniff.ir, <<>>, FALSE).irShr = <<>>
        BY DEF Sniff
      <4> QED BY <3>1, <4>1, <4>2
    <3>2. CASE dump.state = "ShiftIR"
      <4>1. sniff' = Sniff(t, sniff.ir, Append(sniff.irShr, tdi), FALSE)
        BY <1>1, <1>5, <2>1, <3>2
      <4>2. Sniff(t, sniff.ir, Append(sniff.irShr, tdi), FALSE).ir = sniff.ir /\ Sniff(t, sniff.ir, Append(sniff.irShr, tdi), FALSE).irShr = Append(sniff.irShr, tdi)
        BY DEF Sniff
      <4> QED BY <3>2, <4>1, <4>2
    <3>3. CASE dump.state = "UpdateIR"
      <4>1. sniff' = Sniff(t, sniff.irShr, <<>>, FALSE)
        BY <1>1, <1>5, <2>1, <3>3
      <4>2. Sniff(t, sniff.irShr, <<>>, FALSE).ir = sniff.irShr /\ Sniff(t, sniff.irShr, <<>>, FALSE).irShr = <<>>
        BY DEF Sniff
      <4> QED BY <3>3, <4>1, <4>2
    <3>4. CASE dump.state \notin {"CaptureIR", "ShiftIR", "UpdateIR"}
      <4>1. sniff' = Sniff(t, sniff.ir, sniff.irShr, FALSE)
        BY <1>1, <1>5, <2>1, <3>4
      <4>2. Sniff(t, sniff.ir, sniff.irShr, FALSE).ir = sniff.ir /\ Sniff(t, sniff.ir, sniff.irShr, FALSE).irShr = sniff.irShr
        BY DEF Sniff
      <4> QED BY <3>4, <4>1, <4>2
    <3> QED BY <3>1, <3>2, <3>3, <3>4
  <2> QED BY <1>5, <2>1, <2>2
<1> QED BY <1>3, <1>4, <1>5

\* A register that was filled from end to end
LEMMA HoldsWhole ==
    ASSUME NEW n \in Nat, NEW vec \in [0..(n - 1) -> Bit], NEW v \in Seq(Bit), NEW s \in Seq(Bit),
           Len(v) = n, Len(s) = n, Holds(vec, n, v \o s)
    PROVE  s = Bits(vec, n)
<1>1. Bits(vec, n) \in Seq(Bit) /\ Len(Bits(vec, n)) = n /\ \A i \in 1..n : Bits(vec, n)[i] = vec[i - 1]
  BY BitsType
<1>2. ASSUME NEW i \in 1..n PROVE s[i] = Bits(vec, n)[i]
  <2>1. vec[i - 1] = (v \o s)[Len(v \o s) - n + i]
    BY DEF Holds
  <2>2. Len(v \o s) - n + i = Len(v) + i /\ (v \o s)[Len(v) + i] = s[i]
    OBVIOUS
  <2> QED BY <1>1, <2>1, <2>2
<1> QED BY <1>1, <1>2

\* The instruction register while TCK rises
LEMMA RiseInstr ==
    ASSUME InstrInv, Rise
    PROVE  InstrInv'
<1> DEFINE V == Bits(IR_VAL, IR_LENGTH)
<1>1. TapTypes /\ StatesAgree /\ PortsInv /\ TdoOfIr /\ IrInv /\ KnownInv
  BY DEF InstrInv, PortsInv
<1>2. /\ TapTypes' /\ tck = 0 /\ tck' = 1 /\ ir' = ir /\ bscan' = bscan
      /\ dump'.state = Advance(dump.state, tms)
  BY <1>1, RiseStates
<1>3. PortsInv' /\ TdoOfIr'
  BY <1>1, <1>2, RisePorts DEF TdoOfIr
<1>4. /\ tms \in Bit /\ tdi \in Bit /\ bscan.tdo \in Bit /\ dump.state \in States
      /\ dump.iri \in Seq(Bit) /\ dump.iro \in Seq(Bit) /\ rp.shift_ir \in IrType /\ ir \in IrType
  BY <1>1 DEF TapTypes
<1>5. V \in Seq(Bit) /\ Len(V) = IR_LENGTH /\ IR_LENGTH \in Nat \ {0}
  BY Registers, BitsType DEF IrType
<1>6. /\ dump'.iri = IF dump.state \in {"CaptureIR", "UpdateIR"} THEN <<>>
                     ELSE IF dump.state = "ShiftIR" THEN Append(dump.iri, bscan.tdo) ELSE dump.iri
      /\ dump'.iro = IF dump.state = "CaptureIR" THEN <<>>
                     ELSE IF dump.state = "ShiftIR" THEN Append(dump.iro, tdi) ELSE dump.iro
      /\ dump.state = "CaptureIR" => rp'.shift_ir = IR_VAL
      /\ dump.state = "ShiftIR" => rp'.shift_ir = ShiftBelow(tdi, rp.shift_ir, IR_LENGTH - 1)
      /\ dump.state \notin {"TestLogicReset", "CaptureIR", "ShiftIR"} => rp'.shift_ir = rp.shift_ir
  BY <1>1, RiseFields
<1>7. ~sniff'.raised =>
        /\ ~sniff.raised
        /\ sniff'.irShr = IF dump.state \in {"CaptureIR", "UpdateIR"} THEN <<>>
                          ELSE IF dump.state = "ShiftIR" THEN Append(sniff.irShr, tdi) ELSE sniff.irShr
        /\ sniff'.ir = IF dump.state = "UpdateIR" THEN sniff.irShr ELSE sniff.ir
        /\ dump.state = "UpdateIR" => Len(sniff.irShr) = IR_LENGTH
  BY <1>1, RiseSniff
<1>8. IrInv'
  <2>1. CASE dump.state = "CaptureIR"
    <3>1. dump'.iri = <<>> /\ dump'.iro = <<>> /\ rp'.shift_ir = IR_VAL
      BY <1>6, <2>1
    <3>2. Holds(IR_VAL, IR_LENGTH, ThroughIr(<<>>))
      BY Registers, HoldsFirst DEF ThroughIr, IrType
    <3>3. IsPrefix(<<>>, ThroughIr(<<>>))
      BY <1>5 DEF IsPrefix, ThroughIr
    <3>4. ~sniff'.raised => sniff'.irShr = <<>>
      BY <1>7, <2>1
    <3> QED BY <3>1, <3>2, <3>3, <3>4 DEF IrInv
  <2>2. CASE dump.state = "ShiftIR"
    <3>1. dump'.iri = Append(dump.iri, bscan.tdo) /\ dump'.iro = Append(dump.iro, tdi)
          /\ rp'.shift_ir = ShiftBelow(tdi, rp.shift_ir, IR_LENGTH - 1)
      BY <1>6, <2>2
    <3>2. /\ Len(dump.iri) = Len(dump.iro) /\ IsPrefix(dump.iri, V \o dump.iro)
          /\ Holds(rp.shift_ir, IR_LENGTH, V \o dump.iro)
          /\ ~sniff.raised => sniff.irShr = dump.iro
      BY <1>1, <2>2 DEF IrInv, ScanningIR, ThroughIr
    <3>3. bscan.tdo = rp.shift_ir[0]
      BY <1>1, <1>2, <2>2 DEF TdoOfIr
    <3>4. rp.shift_ir \in [0..(IR_LENGTH - 1) -> Bit] /\ IR_LENGTH \in 1..IR_LENGTH /\ IR_LENGTH \in Nat
      BY <1>4, <1>5 DEF IrType
    <3> HIDE DEF V
    <3>5. /\ Len(dump'.iri) = Len(dump'.iro)
          /\ IsPrefix(dump'.iri, V \o dump'.iro)
          /\ Holds(rp'.shift_ir, IR_LENGTH, V \o dump'.iro)
      <4>1. Len(Append(dump.iri, bscan.tdo)) = Len(Append(dump.iro, tdi))
        BY <1>4, <3>2
      <4>2. /\ IsPrefix(Append(dump.iri, bscan.tdo), V \o Append(dump.iro, tdi))
            /\ Holds(ShiftBelow(tdi, rp.shift_ir, IR_LENGTH - 1), IR_LENGTH, V \o Append(dump.iro, tdi))
        BY <1>4, <1>5, <3>2, <3>3, <3>4, RegisterStep
      <4> QED BY <3>1, <4>1, <4>2
    <3>6. ~sniff'.raised => sniff'.irShr = dump'.iro
      BY <1>7, <2>2, <3>1, <3>2
    <3> QED BY <3>5, <3>6 DEF IrInv, ThroughIr, V
  <2>3. CASE dump.state \in {"Exit1IR", "PauseIR", "Exit2IR"}
    <3>1. dump'.iri = dump.iri /\ dump'.iro = dump.iro /\ rp'.shift_ir = rp.shift_ir
      BY <1>6, <2>3
    <3>2. ~sniff'.raised => ~sniff.raised /\ sniff'.irShr = sniff.irShr
      BY <1>7, <2>3
    <3> QED BY <1>1, <2>3, <3>1, <3>2 DEF IrInv, ScanningIR
  <2>4. CASE dump.state \notin {"CaptureIR", "ShiftIR", "Exit1IR", "PauseIR", "Exit2IR"}
    <3>1. ~ScanningIR'
      BY <1>2, <1>4, <2>4, AdvanceIs DEF ScanningIR, States, After
    <3> QED BY <3>1 DEF IrInv
  <2> QED BY <2>1, <2>2, <2>3, <2>4
<1>9. KnownInv'
  <2>1. ASSUME (tck' = 0 \/ dump'.state # "UpdateIR"),
               dump'.state \notin {"ShiftIR", "Exit1IR", "PauseIR", "Exit2IR"}
        PROVE  ir' = REG_IDCODE \/ Holds(ir', IR_LENGTH, ThroughIr(dump'.iro))
    <3>1. dump.state \notin {"CaptureIR", "ShiftIR", "Exit1IR", "PauseIR", "Exit2IR"}
      BY <1>2, <1>4, <2>1, AdvanceIs
    <3>2. dump'.iro = dump.iro
      BY <1>6, <3>1
    <3> QED BY <1>1, <1>2, <3>1, <3>2 DEF KnownInv
  <2>2. ASSUME ~sniff'.raised, ir' # REG_IDCODE, ~ScanningIR'
        PROVE  sniff'.ir = Bits(ir', IR_LENGTH)
    <3>1. dump.state = "UpdateIR" \/ ~ScanningIR
      BY <1>2, <1>4, <2>2, AdvanceIs DEF ScanningIR
    <3>2. CASE dump.state = "UpdateIR"
      <4>1. sniff'.ir = dump.iro /\ Len(dump.iro) = IR_LENGTH
        BY <1>1, <1>7, <2>2, <3>2 DEF IrInv, ScanningIR
      <4>2. Holds(ir, IR_LENGTH, V \o dump.iro)
        BY <1>1, <1>2, <2>2, <3>2 DEF KnownInv, ThroughIr
      <4>3. ir \in [0..(IR_LENGTH - 1) -> Bit]
        BY <1>4 DEF IrType
      <4> QED BY <1>2, <1>4, <1>5, <4>1, <4>2, <4>3, HoldsWhole
    <3>3. CASE dump.state # "UpdateIR" /\ ~ScanningIR
      BY <1>1, <1>2, <1>7, <2>2, <3>3 DEF KnownInv
    <3> QED BY <3>1, <3>2, <3>3
  <2> QED BY <2>1, <2>2 DEF KnownInv
<1> QED BY <1>3, <1>8, <1>9 DEF InstrInv

\* The instruction register while TCK falls
LEMMA FallInstr ==
    ASSUME InstrInv, NEW m \in Bit, NEW i \in Bit, Fall(m, i)
    PROVE  InstrInv'
<1>1. TapTypes /\ StatesAgree /\ PortsInv /\ IrInv /\ KnownInv
  BY DEF InstrInv, PortsInv
<1>2. /\ tck = 1 /\ tck' = 0 /\ rp' = rp /\ dump' = dump /\ sniff' = sniff
      /\ ir' = NextIr /\ bscan' = NextBscan
  BY <1>1, FallStates
<1>3. PortsInv'
  BY <1>1, FallPorts
<1>4. /\ testLogicReset = (dump.state = "TestLogicReset") /\ InIR("UPDATE") = (dump.state = "UpdateIR")
      /\ InIR("SHIFT") = (dump.state = "ShiftIR")
  BY <1>1, Outputs DEF StatesAgree, FsmOk
<1>5. TdoOfIr'
  BY <1>2, <1>4 DEF TdoOfIr, NextBscan, tapTdo
<1>6. IrInv'
  BY <1>1, <1>2 DEF IrInv, ScanningIR
<1>7. KnownInv'
  <2>1. CASE dump.state = "TestLogicReset"
    <3>1. ir' = REG_IDCODE
      BY <1>2, <1>4, <2>1 DEF NextIr
    <3> QED BY <3>1 DEF KnownInv
  <2>2. CASE dump.state = "UpdateIR"
    <3>1. ir' = rp.shift_ir /\ ScanningIR /\ ScanningIR'
      BY <1>2, <1>4, <2>2 DEF NextIr, ScanningIR
    <3>2. Holds(ir', IR_LENGTH, ThroughIr(dump'.iro))
      BY <1>1, <1>2, <3>1 DEF IrInv
    <3> QED BY <3>1, <3>2 DEF KnownInv
  <2>3. CASE dump.state \notin {"TestLogicReset", "UpdateIR"}
    <3>1. ir' = ir
      BY <1>2, <1>4, <2>3 DEF NextIr
    <3> QED BY <1>1, <1>2, <2>3, <3>1 DEF KnownInv, ScanningIR
  <2> QED BY <2>1, <2>2, <2>3
<1> QED BY <1>3, <1>5, <1>6, <1>7 DEF InstrInv

\* The instruction register in the first state and in every step
LEMMA InstrInductive ==
    /\ Init => InstrInv
    /\ InstrInv /\ [Next]_vars => InstrInv'
<1>1. Init => InstrInv
  <2> SUFFICES ASSUME Init PROVE InstrInv
    OBVIOUS
  <2>1. dump.state = "TestLogicReset" /\ ir = REG_IDCODE
    BY DEF Init, DumpInit
  <2> QED BY <2>1, InitPorts DEF InstrInv, TdoOfIr, IrInv, KnownInv, ScanningIR
<1>2. ASSUME InstrInv, [Next]_vars PROVE InstrInv'
  <2>1. CASE Rise
    BY <1>2, <2>1, RiseInstr
  <2>2. CASE \E m, i \in Bit : Fall(m, i)
    BY <1>2, <2>2, FallInstr
  <2>3. CASE UNCHANGED vars
    <3>1. PortsInv'
      BY <1>2, NextPorts DEF InstrInv
    <3> QED BY <1>2, <2>3, <3>1 DEF InstrInv, TdoOfIr, IrInv, KnownInv, ScanningIR, vars
  <2> QED BY <1>2, <2>1, <2>2, <2>3 DEF Next
<1> QED BY <1>1, <1>2

\* What went through the instruction register is long enough to fill it
LEMMA ThroughIrType ==
    ASSUME NEW s \in Seq(Bit)
    PROVE  ThroughIr(s) \in Seq(Bit) /\ IR_LENGTH <= Len(ThroughIr(s)) /\ IR_LENGTH \in Nat \ {0}
<1>1. Bits(IR_VAL, IR_LENGTH) \in Seq(Bit) /\ Len(Bits(IR_VAL, IR_LENGTH)) = IR_LENGTH /\ IR_LENGTH \in Nat \ {0}
  BY Registers, BitsType DEF IrType
<1> QED BY <1>1 DEF ThroughIr

\* While TCK is low the instruction of the TAP is the last bits of the last scan of the
\* IR that the server's sniffer reports, unless a reset has selected IDCODE.
THEOREM InstructionReported == Spec => []InstructionKnown
<1>1. InstrInv => InstructionKnown
  <2> SUFFICES ASSUME InstrInv, tck = 0
               PROVE  /\ dump.state = "TestLogicReset" => ir = REG_IDCODE
                      /\ dump.state \notin {"ShiftIR", "Exit1IR", "PauseIR", "Exit2IR"} =>
                            ir = REG_IDCODE \/ Bits(ir, IR_LENGTH) = LastBits(ThroughIr(dump.iro), IR_LENGTH)
    BY DEF InstructionKnown, ThroughIr
  <2>1. dump.state = "TestLogicReset" => ir = REG_IDCODE
    BY DEF InstrInv, PortsInv, PortInv
  <2>2. ASSUME dump.state \notin {"ShiftIR", "Exit1IR", "PauseIR", "Exit2IR"}, ir # REG_IDCODE
        PROVE  Bits(ir, IR_LENGTH) = LastBits(ThroughIr(dump.iro), IR_LENGTH)
    <3>1. Holds(ir, IR_LENGTH, ThroughIr(dump.iro))
      BY <2>2 DEF InstrInv, KnownInv
    <3>2. ir \in [0..(IR_LENGTH - 1) -> Bit] /\ dump.iro \in Seq(Bit)
      BY DEF InstrInv, PortsInv, TapTypes, IrType
    <3>3. ThroughIr(dump.iro) \in Seq(Bit) /\ IR_LENGTH <= Len(ThroughIr(dump.iro)) /\ IR_LENGTH \in Nat \ {0}
      BY <3>2, ThroughIrType
    <3> QED BY <3>1, <3>2, <3>3, HoldsLast
  <2> QED BY <2>1, <2>2
<1> QED BY <1>1, InstrInductive, PTL DEF Spec

\* As long as it has not met an instruction of the wrong length, the simulation's
\* sniffer knows the instruction of the TAP whenever that is not the one of a reset.
THEOREM SnifferFollows == Spec => []SnifferKnows
<1>1. InstrInv => SnifferKnows
  BY DEF InstrInv, KnownInv, SnifferKnows
<1> QED BY <1>1, InstrInductive, PTL DEF Spec

-----------------------------------------------------------------------------
(* The data registers *)

\* What the instruction selects, for instructions that can be told apart
LEMMA SelectedIs ==
    ASSUME Distinct
    PROVE  /\ ir = REG_IDCODE => Selected = Bits(IDCODE_VAL, DR_LENGTH)
           /\ ir = REG_USERCODE => Selected = Bits(USERCODE_VAL, DR_LENGTH)
           /\ ir = REG_USER => Selected = Bits(USER_VAL, DR_LENGTH)
           /\ ir = REG_BYPASS => Selected = <<0>>
           /\ Decoded => Selected \in Seq(Bit)
           /\ ir \in {REG_IDCODE, REG_USERCODE, REG_USER} => Len(Selected) = DR_LENGTH
<1>1. /\ ir = REG_IDCODE => Selected = Bits(IDCODE_VAL, DR_LENGTH)
      /\ ir = REG_USERCODE => Selected = Bits(USERCODE_VAL, DR_LENGTH)
      /\ ir = REG_USER => Selected = Bits(USER_VAL, DR_LENGTH)
      /\ ir = REG_BYPASS => Selected = <<0>>
  BY DEF Distinct, Selected
<1>2. \A v \in DrType : Bits(v, DR_LENGTH) \in Seq(Bit) /\ Len(Bits(v, DR_LENGTH)) = DR_LENGTH
  BY Registers, BitsType DEF DrType
<1>3. <<0>> \in Seq(Bit)
  BY DEF Bit
<1>4. \A v \in {IDCODE_VAL, USERCODE_VAL, USER_VAL} : v \in DrType
  BY Registers
<1> QED BY <1>1, <1>2, <1>3, <1>4 DEF Decoded

\* What TCK rising does to the data registers
LEMMA RiseData ==
    ASSUME DataInv, Rise
    PROVE  /\ dump.state = "CaptureDR" =>
                /\ ir = REG_IDCODE =>
                     rp'.shift_dr = IDCODE_VAL /\ rp'.dr_decoded = TRUE /\ rp'.dr_lst = DR_LENGTH - 1
                /\ ir # REG_IDCODE /\ ir = REG_USERCODE =>
                     rp'.shift_dr = USERCODE_VAL /\ rp'.dr_decoded = TRUE /\ rp'.dr_lst = DR_LENGTH - 1
                /\ ir # REG_IDCODE /\ ir # REG_USERCODE =>
                     rp'.shift_dr[0] = 0 /\ rp'.dr_decoded = (ir = REG_BYPASS) /\ rp'.dr_lst = 0
                /\ ir = REG_USER => user' = USER_VAL
           /\ dump.state = "ShiftDR" =>
                /\ rp'.shift_dr = ShiftBelow(tdi, rp.shift_dr, rp.dr_lst)
                /\ rp'.dr_decoded = rp.dr_decoded /\ rp'.dr_lst = rp.dr_lst
                /\ ir = REG_USER => user' = ShiftBelow(tdi, user, DR_LENGTH - 1)
           /\ dump.state \in {"Exit1DR", "PauseDR", "Exit2DR"} => rp' = rp /\ user' = user
<1>1. TapTypes /\ StatesAgree /\ PortInv /\ UserSel /\ tck = 0
  BY DEF DataInv, PortsInv, Rise
<1>2. rp' = NextRp /\ user' = IF bscan.drckSel THEN UserEdge(bscan.captureDR, bscan.shiftDR, tdi) ELSE user
  BY DEF Rise
<1>3. /\ bscan.captureDR = (dump.state = "CaptureDR") /\ bscan.shiftDR = (dump.state = "ShiftDR")
      /\ bscan.drckSel = (dump.state \in {"CaptureDR", "ShiftDR"} /\ bscan.selUSER)
      /\ bscan.selUSER = (ir = REG_USER)
  BY <1>1 DEF PortInv, UserSel
<1>4. CASE dump.state = "CaptureDR"
  <2>1. ASSUME ir = REG_USER PROVE user' = USER_VAL
    <3>1. bscan.drckSel /\ bscan.captureDR
      BY <1>3, <1>4, <2>1
    <3> QED BY <1>2, <3>1 DEF UserEdge
  <2>2. ASSUME ir = REG_IDCODE
        PROVE  rp'.shift_dr = IDCODE_VAL /\ rp'.dr_decoded = TRUE /\ rp'.dr_lst = DR_LENGTH - 1
    <3>1. rp' = Rp(rp.shift_ir, IDCODE_VAL, TRUE, DR_LENGTH - 1)
      BY <1>1, <1>2, <1>4, <2>2, RpIs
    <3> QED BY <3>1 DEF Rp
  <2>3. ASSUME ir # REG_IDCODE, ir = REG_USERCODE
        PROVE  rp'.shift_dr = USERCODE_VAL /\ rp'.dr_decoded = TRUE /\ rp'.dr_lst = DR_LENGTH - 1
    <3>1. rp' = Rp(rp.shift_ir, USERCODE_VAL, TRUE, DR_LENGTH - 1)
      BY <1>1, <1>2, <1>4, <2>3, RpIs
    <3> QED BY <3>1 DEF Rp
  <2>4. ASSUME ir # REG_IDCODE, ir # REG_USERCODE
        PROVE  rp'.shift_dr[0] = 0 /\ rp'.dr_decoded = (ir = REG_BYPASS) /\ rp'.dr_lst = 0
    <3> DEFINE e == [rp.shift_dr EXCEPT ![0] = 0]
    <3>1. rp' = Rp(rp.shift_ir, e, ir = REG_BYPASS, 0)
      BY <1>1, <1>2, <1>4, <2>4, RpIs
    <3>2. e[0] = 0
      BY <1>1, Registers DEF TapTypes, DrType
    <3> HIDE DEF e
    <3>3. rp'.shift_dr = e /\ rp'.dr_decoded = (ir = REG_BYPASS) /\ rp'.dr_lst = 0
      BY <3>1 DEF Rp
    <3> QED BY <3>2, <3>3
  <2> QED BY <1>4, <2>1, <2>2, <2>3, <2>4
<1>5. CASE dump.state = "ShiftDR"
  <2>1. ASSUME ir = REG_USER PROVE user' = ShiftBelow(tdi, user, DR_LENGTH - 1)
    <3>1. bscan.drckSel /\ ~bscan.captureDR /\ bscan.shiftDR
      BY <1>3, <1>5, <2>1
    <3> QED BY <1>2, <3>1 DEF UserEdge
  <2>2. rp' = Rp(rp.shift_ir, ShiftBelow(tdi, rp.shift_dr, rp.dr_lst), rp.dr_decoded, rp.dr_lst)
    BY <1>1, <1>2, <1>5, RpIs
  <2>3. /\ rp'.shift_dr = ShiftBelow(tdi, rp.shift_dr, rp.dr_lst)
        /\ rp'.dr_decoded = rp.dr_decoded /\ rp'.dr_lst = rp.dr_lst
    BY <2>2 DEF Rp
  <2> QED BY <1>5, <2>1, <2>3
<1>6. CASE dump.state \in {"Exit1DR", "PauseDR", "Exit2DR"}
  <2>1. ~bscan.drckSel
    BY <1>3, <1>6
  <2>2. ~testLogicReset /\ ~InIR("CAPTURE") /\ ~InIR("SHIFT") /\ ~InDR("CAPTURE") /\ ~InDR("SHIFT")
    BY <1>1, <1>6, Outputs DEF StatesAgree, FsmOk
  <2>3. NextRp = rp
    BY <2>2 DEF NextRp
  <2> QED BY <1>2, <1>6, <2>1, <2>3
<1>7. CASE dump.state \notin {"CaptureDR", "ShiftDR", "Exit1DR", "PauseDR", "Exit2DR"}
  BY <1>7
<1> QED BY <1>4, <1>5, <1>6, <1>7

\* A scan of the DR while TCK rises
LEMMA RiseScan ==
    ASSUME Distinct, DataInv, Rise
    PROVE  DataInv'
<1>1. TapTypes /\ StatesAgree /\ PortsInv /\ UserSel /\ TdoOfDr /\ DrInv
  BY DEF DataInv, PortsInv
<1>2. /\ TapTypes' /\ tck = 0 /\ tck' = 1 /\ ir' = ir /\ bscan' = bscan
      /\ dump'.state = Advance(dump.state, tms)
  BY <1>1, RiseStates
<1>3. PortsInv' /\ TdoOfDr' /\ UserSel'
  BY <1>1, <1>2, RisePorts DEF TdoOfDr, UserSel
<1>4. /\ tms \in Bit /\ tdi \in Bit /\ bscan.tdo \in Bit /\ dump.state \in States
      /\ dump.dri \in Seq(Bit) /\ dump.dro \in Seq(Bit)
      /\ rp.shift_dr \in [0..(DR_LENGTH - 1) -> Bit] /\ user \in [0..(DR_LENGTH - 1) -> Bit]
      /\ DR_LENGTH \in Nat /\ 1 \in 1..DR_LENGTH /\ DR_LENGTH \in 1..DR_LENGTH
  BY <1>1, Registers DEF TapTypes, DrType
<1>5. Selected' = Selected /\ Decoded' = Decoded
  BY <1>2 DEF Selected, Decoded
<1>6. /\ dump'.dri = IF dump.state \in {"CaptureDR", "UpdateDR"} THEN <<>>
                     ELSE IF dump.state = "ShiftDR" THEN Append(dump.dri, bscan.tdo) ELSE dump.dri
      /\ dump'.dro = IF dump.state \in {"CaptureDR", "UpdateDR"} THEN <<>>
                     ELSE IF dump.state = "ShiftDR" THEN Append(dump.dro, tdi) ELSE dump.dro
  BY <1>1, RiseFields
<1>7. DrInv'
  <2>1. CASE dump.state = "CaptureDR"
    <3>1. dump'.dri = <<>> /\ dump'.dro = <<>> /\ Len(dump'.dri) = Len(dump'.dro)
      BY <1>6, <2>1
    <3>2. Decoded => IsPrefix(<<>>, Selected \o <<>>)
      BY SelectedIs DEF IsPrefix
    <3>3. ~Decoded => ~rp'.dr_decoded /\ \A i \in 1..Len(dump'.dri) : dump'.dri[i] = 1
      <4> SUFFICES ASSUME ~Decoded PROVE ~rp'.dr_decoded
        BY <3>1
      <4>1. ir \notin {REG_IDCODE, REG_USERCODE, REG_BYPASS}
        BY DEF Decoded
      <4>2. rp'.dr_decoded = (ir = REG_BYPASS)
        BY <2>1, <4>1, RiseData
      <4> QED BY <4>1, <4>2
    <3>4. \A v \in DrType : Holds(v, DR_LENGTH, Bits(v, DR_LENGTH) \o <<>>)
      BY <1>4, HoldsFirst DEF DrType
    <3>5. ir \in {REG_IDCODE, REG_USERCODE} =>
              /\ rp'.dr_decoded /\ rp'.dr_lst = DR_LENGTH - 1
              /\ Holds(rp'.shift_dr, DR_LENGTH, Selected \o <<>>)
      BY <2>1, <3>4, RiseData, SelectedIs, Registers DEF Distinct
    <3>6. ir = REG_BYPASS =>
              rp'.dr_decoded /\ rp'.dr_lst = 0 /\ Holds(rp'.shift_dr, 1, Selected \o <<>>)
      <4> SUFFICES ASSUME ir = REG_BYPASS
                   PROVE  rp'.dr_decoded /\ rp'.dr_lst = 0 /\ Holds(rp'.shift_dr, 1, Selected \o <<>>)
        OBVIOUS
      <4>1. rp'.dr_decoded = (ir = REG_BYPASS) /\ rp'.dr_lst = 0 /\ rp'.shift_dr[0] = 0
        BY <2>1, RiseData DEF Distinct
      <4>2. Selected \o <<>> = <<0>>
        BY SelectedIs
      <4>3. Holds(rp'.shift_dr, 1, <<0>>)
        BY <4>1 DEF Holds
      <4> QED BY <4>1, <4>2, <4>3
    <3>7. ir = REG_USER => Holds(user', DR_LENGTH, Selected \o <<>>)
      BY <2>1, <3>4, RiseData, SelectedIs, Registers
    <3> QED BY <1>2, <1>5, <3>1, <3>2, <3>3, <3>5, <3>6, <3>7 DEF DrInv
  <2>2. CASE dump.state = "ShiftDR"
    <3>1. dump'.dri = Append(dump.dri, bscan.tdo) /\ dump'.dro = Append(dump.dro, tdi)
      BY <1>6, <2>2
    <3>2. /\ rp'.shift_dr = ShiftBelow(tdi, rp.shift_dr, rp.dr_lst)
          /\ rp'.dr_decoded = rp.dr_decoded /\ rp'.dr_lst = rp.dr_lst
          /\ ir = REG_USER => user' = ShiftBelow(tdi, user, DR_LENGTH - 1)
      BY <2>2, RiseData
    <3>3. bscan.tdo = IF ir = REG_USER THEN user[0] ELSE IF rp.dr_decoded THEN rp.shift_dr[0] ELSE 1
      BY <1>1, <1>2, <2>2 DEF TdoOfDr
    <3>4. /\ Len(dump.dri) = Len(dump.dro)
          /\ Decoded => IsPrefix(dump.dri, Selected \o dump.dro)
          /\ ~Decoded => ~rp.dr_decoded /\ \A i \in 1..Len(dump.dri) : dump.dri[i] = 1
          /\ ir \in {REG_IDCODE, REG_USERCODE} =>
                /\ rp.dr_decoded /\ rp.dr_lst = DR_LENGTH - 1
                /\ Holds(rp.shift_dr, DR_LENGTH, Selected \o dump.dro)
          /\ ir = REG_BYPASS =>
                rp.dr_decoded /\ rp.dr_lst = 0 /\ Holds(rp.shift_dr, 1, Selected \o dump.dro)
          /\ ir = REG_USER => Holds(user, DR_LENGTH, Selected \o dump.dro)
      BY <1>1, <2>2 DEF DrInv, ScanningDR
    <3>5. Len(dump'.dri) = Len(dump'.dro)
      BY <1>4, <3>1, <3>4
    <3>6. CASE ir \in {REG_IDCODE, REG_USERCODE}
      <4>1. Decoded /\ Selected \in Seq(Bit) /\ Len(Selected) = DR_LENGTH
        BY <3>6, SelectedIs DEF Decoded
      <4>2. bscan.tdo = rp.shift_dr[0] /\ rp.dr_lst = DR_LENGTH - 1 /\ rp.dr_decoded
        BY <3>3, <3>4, <3>6 DEF Distinct
      <4>3. IsPrefix(dump'.dri, Selected \o dump'.dro) /\ Holds(rp'.shift_dr, DR_LENGTH, Selected \o dump'.dro)
        <5>1. /\ IsPrefix(Append(dump.dri, bscan.tdo), Selected \o Append(dump.dro, tdi))
              /\ Holds(ShiftBelow(tdi, rp.shift_dr, DR_LENGTH - 1), DR_LENGTH, Selected \o Append(dump.dro, tdi))
          BY <1>4, <3>4, <3>6, <4>1, <4>2, RegisterStep
        <5> QED BY <3>1, <3>2, <3>6, <4>2, <5>1
      <4>4. ir # REG_USER /\ ir # REG_BYPASS
        BY <3>6 DEF Distinct
      <4> QED BY <1>2, <1>5, <3>2, <3>5, <4>1, <4>2, <4>3, <4>4 DEF DrInv
    <3>7. CASE ir = REG_BYPASS
      <4>1. Decoded /\ Selected \in Seq(Bit) /\ Len(Selected) = 1
        BY <3>7, SelectedIs DEF Decoded
      <4>2. bscan.tdo = rp.shift_dr[0] /\ rp.dr_lst = 1 - 1 /\ rp.dr_decoded /\ rp.dr_lst = 0
        BY <3>3, <3>4, <3>7 DEF Distinct
      <4>3. IsPrefix(dump'.dri, Selected \o dump'.dro) /\ Holds(rp'.shift_dr, 1, Selected \o dump'.dro)
        <5>1. /\ IsPrefix(Append(dump.dri, bscan.tdo), Selected \o Append(dump.dro, tdi))
              /\ Holds(ShiftBelow(tdi, rp.shift_dr, 1 - 1), 1, Selected \o Append(dump.dro, tdi))
          BY <1>4, <3>4, <3>7, <4>1, <4>2, RegisterStep
        <5> QED BY <3>1, <3>2, <3>7, <4>2, <5>1
      <4>4. ir \notin {REG_USER, REG_IDCODE, REG_USERCODE}
        BY <3>7 DEF Distinct
      <4> QED BY <1>2, <1>5, <3>2, <3>5, <4>1, <4>2, <4>3, <4>4 DEF DrInv
    <3>8. CASE ir = REG_USER
      <4>1. Decoded /\ Selected \in Seq(Bit) /\ Len(Selected) = DR_LENGTH
        BY <3>8, SelectedIs DEF Decoded
      <4>2. bscan.tdo = user[0]
        BY <3>3, <3>8
      <4>3. IsPrefix(dump'.dri, Selected \o dump'.dro) /\ Holds(user', DR_LENGTH, Selected \o dump'.dro)
        <5>1. /\ IsPrefix(Append(dump.dri, bscan.tdo), Selected \o Append(dump.dro, tdi))
              /\ Holds(ShiftBelow(tdi, user, DR_LENGTH - 1), DR_LENGTH, Selected \o Append(dump.dro, tdi))
          BY <1>4, <3>4, <3>8, <4>1, <4>2, RegisterStep
        <5> QED BY <3>1, <3>2, <3>8, <4>2, <5>1
      <4>4. ir \notin {REG_BYPASS, REG_IDCODE, REG_USERCODE}
        BY <3>8 DEF Distinct
      <4> QED BY <1>2, <1>5, <3>5, <4>1, <4>3, <4>4 DEF DrInv
    <3>9. CASE ~Decoded
      <4>1. ir \notin {REG_IDCODE, REG_USERCODE, REG_USER, REG_BYPASS}
        BY <3>9 DEF Decoded
      <4>2. bscan.tdo = 1 /\ ~rp'.dr_decoded
        BY <3>2, <3>3, <3>4, <3>9, <4>1
      <4>3. \A i \in 1..Len(dump'.dri) : dump'.dri[i] = 1
        BY <1>4, <3>1, <3>4, <3>9, <4>2
      <4> QED BY <1>2, <1>5, <3>5, <3>9, <4>1, <4>2, <4>3 DEF DrInv
    <3> QED BY <3>6, <3>7, <3>8, <3>9 DEF Decoded
  <2>3. CASE dump.state \in {"Exit1DR", "PauseDR", "Exit2DR"}
    <3>1. dump'.dri = dump.dri /\ dump'.dro = dump.dro /\ rp' = rp /\ user' = user
      BY <1>6, <2>3, RiseData
    <3> QED BY <1>1, <1>2, <1>5, <2>3, <3>1 DEF DrInv, ScanningDR
  <2>4. CASE dump.state \notin {"CaptureDR", "ShiftDR", "Exit1DR", "PauseDR", "Exit2DR"}
    <3>1. ~ScanningDR'
      BY <1>2, <1>4, <2>4, AdvanceIs DEF ScanningDR, States, After
    <3> QED BY <3>1 DEF DrInv
  <2> QED BY <2>1, <2>2, <2>3, <2>4
<1> QED BY <1>3, <1>7 DEF DataInv

\* A scan of the DR while TCK falls
LEMMA FallScan ==
    ASSUME Distinct, DataInv, NEW m \in Bit, NEW i \in Bit, Fall(m, i)
    PROVE  DataInv'
<1>1. TapTypes /\ StatesAgree /\ PortsInv /\ UserSel /\ DrInv
  BY DEF DataInv, PortsInv
<1>2. /\ tck' = 0 /\ rp' = rp /\ dump' = dump /\ ir' = NextIr /\ bscan' = NextBscan
  BY <1>1, FallStates
<1>3. PortsInv'
  BY <1>1, FallPorts
<1>4. /\ testLogicReset = (dump.state = "TestLogicReset") /\ InIR("UPDATE") = (dump.state = "UpdateIR")
      /\ InIR("SHIFT") = (dump.state = "ShiftIR") /\ InDR("SHIFT") = (dump.state = "ShiftDR")
  BY <1>1, Outputs DEF StatesAgree, FsmOk
<1>5. user' = user
  <2>1. ce'.DRCK = (~NextBscan.drckSel /\ NextBscan.selUSER)
    BY DEF Fall
  <2>2. /\ NextBscan.drckSel = ((InDR("CAPTURE") \/ InDR("SHIFT")) /\ BscanSel) /\ NextBscan.selUSER = BscanSel
        /\ NextBscan.captureDR = InDR("CAPTURE") /\ NextBscan.shiftDR = InDR("SHIFT")
    BY DEF NextBscan
  <2>3. ce'.DRCK => ~NextBscan.captureDR /\ ~NextBscan.shiftDR
    BY <2>1, <2>2, Zenon
  <2>4. user' = IF bscan.drckSel /\ ce'.DRCK THEN UserEdge(bscan'.captureDR, bscan'.shiftDR, tdi) ELSE user
    BY DEF Fall
  <2>5. ce'.DRCK => ~bscan'.captureDR /\ ~bscan'.shiftDR
    BY <1>2, <2>3
  <2> QED BY <2>4, <2>5 DEF UserEdge
<1>6. UserSel'
  <2>1. bscan'.selUSER = BscanSel
    BY <1>2 DEF NextBscan
  <2>2. CASE dump.state = "TestLogicReset"
    BY <1>2, <1>4, <2>1, <2>2 DEF UserSel, BscanSel, NextIr, Distinct
  <2>3. CASE dump.state = "UpdateIR"
    <3>1. BscanSel = selUSERTap
      BY <1>4, <2>3 DEF BscanSel
    <3>2. selUSERTap = (NextIr = REG_USER)
      BY DEF selUSERTap, Distinct
    <3> QED BY <1>2, <2>1, <3>1, <3>2 DEF UserSel
  <2>4. CASE dump.state \notin {"TestLogicReset", "UpdateIR"}
    BY <1>1, <1>2, <1>4, <2>1, <2>4 DEF UserSel, BscanSel, NextIr
  <2> QED BY <2>2, <2>3, <2>4
<1>7. TdoOfDr'
  <2> SUFFICES ASSUME dump.state = "ShiftDR"
               PROVE  bscan'.tdo = IF ir' = REG_USER THEN user[0] ELSE IF rp.dr_decoded THEN rp.shift_dr[0] ELSE 1
    BY <1>2, <1>5 DEF TdoOfDr
  <2>1. InDR("SHIFT") /\ ~InIR("SHIFT")
    BY <1>4
  <2>2. selUSERTap = (ir' = REG_USER)
    BY <1>2 DEF selUSERTap, Distinct
  <2>3. bscan'.tdo = IF selUSERTap THEN user[0] ELSE tapTdo
    BY <1>2, <2>1 DEF NextBscan
  <2>4. tapTdo = IF rp.dr_decoded THEN rp.shift_dr[0] ELSE 1
    BY <2>1 DEF tapTdo
  <2> QED BY <2>2, <2>3, <2>4
<1>8. DrInv'
  <2>1. CASE ScanningDR
    <3>1. ir' = ir
      BY <1>2, <1>4, <2>1 DEF NextIr, ScanningDR
    <3>2. Selected' = Selected /\ Decoded' = Decoded
      BY <3>1 DEF Selected, Decoded
    <3> QED BY <1>1, <1>2, <1>5, <2>1, <3>1, <3>2 DEF DrInv, ScanningDR
  <2>2. CASE ~ScanningDR
    BY <1>2, <2>2 DEF DrInv, ScanningDR
  <2> QED BY <2>1, <2>2
<1> QED BY <1>3, <1>6, <1>7, <1>8 DEF DataInv

\* The data registers in the first state and in every step
LEMMA DataInductive ==
    ASSUME Distinct
    PROVE  /\ Init => DataInv
           /\ DataInv /\ [Next]_vars => DataInv'
<1>1. ASSUME Init PROVE DataInv
  <2>1. dump.state = "TestLogicReset" /\ ir = REG_IDCODE /\ bscan.selUSER = FALSE
    BY <1>1 DEF Init, DumpInit
  <2>2. UserSel
    BY <2>1 DEF UserSel, Distinct
  <2>3. TdoOfDr /\ DrInv
    BY <2>1 DEF TdoOfDr, DrInv, ScanningDR
  <2> QED BY <1>1, <2>2, <2>3, InitPorts DEF DataInv
<1>2. ASSUME DataInv, [Next]_vars PROVE DataInv'
  <2>1. CASE Rise
    BY <1>2, <2>1, RiseScan
  <2>2. CASE \E m, i \in Bit : Fall(m, i)
    BY <1>2, <2>2, FallScan
  <2>3. CASE UNCHANGED vars
    <3>1. PortsInv'
      BY <1>2, NextPorts DEF DataInv
    <3>2. ir' = ir /\ rp' = rp /\ dump' = dump /\ user' = user /\ bscan' = bscan /\ tck' = tck
      BY <2>3 DEF vars
    <3>3. Selected' = Selected /\ Decoded' = Decoded
      BY <3>2 DEF Selected, Decoded
    <3> QED BY <1>2, <3>1, <3>2, <3>3 DEF DataInv, UserSel, TdoOfDr, DrInv, ScanningDR
  <2> QED BY <1>2, <2>1, <2>2, <2>3 DEF Next
<1> QED BY <1>1, <1>2

\* Of fewer bits than an int has, addBit() sets each at its place and no other.
LEMMA ShortOnes ==
    ASSUME NEW s \in Seq(Bit), Len(s) < INT_BITS
    PROVE  Shown(s) = s /\ Ones(s) \subseteq 0..(Len(s) - 1)
<1>1. INT_BITS \in Nat \ {0} /\ WORD_BITS \in Nat /\ WORD_BITS >= INT_BITS /\ Len(s) \in Nat
  BY TapAssumption
<1>2. ASSUME NEW i \in 1..Len(s)
      PROVE  (i - 1) \div WORD_BITS = 0 /\ (i - 1) % WORD_BITS = i - 1 /\ ShiftedOne(i - 1) = {i - 1}
  <2>1. i - 1 \in 0..(WORD_BITS - 1) /\ i - 1 < INT_BITS - 1
    BY <1>1, <1>2
  <2>2. \A a, b \in Nat : a < b => a \div b = 0 /\ a % b = a
    OBVIOUS
  <2>3. (i - 1) \div WORD_BITS = 0 /\ (i - 1) % WORD_BITS = i - 1
    BY <1>1, <2>1, <2>2
  <2> QED BY <2>1, <2>3 DEF ShiftedOne
<1>3. ASSUME NEW i \in 1..Len(s)
      PROVE  {WORD_BITS * ((i - 1) \div WORD_BITS) + k : k \in ShiftedOne((i - 1) % WORD_BITS)} = {i - 1}
  <2>1. WORD_BITS * 0 + (i - 1) = i - 1
    BY <1>1, <1>3
  <2>2. {WORD_BITS * 0 + k : k \in {i - 1}} = {i - 1}
    BY <2>1
  <2> QED BY <1>2, <1>3, <2>2
<1> DEFINE at(i) == {WORD_BITS * ((i - 1) \div WORD_BITS) + k : k \in ShiftedOne((i - 1) % WORD_BITS)}
           set == {j \in 1..Len(s) : s[j] = 1}
<1>a. Ones(s) = UNION {at(i) : i \in set}
  BY DEF Ones
<1>b. \A i \in 1..Len(s) : at(i) = {i - 1}
  BY <1>3
<1> HIDE DEF at
<1>c. ASSUME NEW b \in Ones(s) PROVE \E i \in 1..Len(s) : s[i] = 1 /\ b = i - 1
  <2>1. \E i \in set : b \in at(i)
    BY <1>a, <1>c
  <2>2. PICK i \in set : b \in at(i)
    BY <2>1
  <2> QED BY <1>b, <2>2
<1>d. ASSUME NEW i \in 1..Len(s), s[i] = 1 PROVE i - 1 \in Ones(s)
  <2>1. i \in set /\ i - 1 \in at(i)
    BY <1>b, <1>d
  <2> QED BY <1>a, <2>1
<1>5. Ones(s) \subseteq 0..(Len(s) - 1)
  BY <1>1, <1>c
<1>6. ASSUME NEW i \in 1..Len(s) PROVE (IF i - 1 \in Ones(s) THEN 1 ELSE 0) = s[i]
  <2>1. i - 1 \in Ones(s) => s[i] = 1
    <3>1. \A j \in 1..Len(s) : i - 1 = j - 1 => i = j
      BY <1>1
    <3> QED BY <1>c, <3>1
  <2>2. s[i] = 1 => i - 1 \in Ones(s)
    BY <1>d
  <2>3. s[i] \in {0, 1}
    BY DEF Bit
  <2> QED BY <2>1, <2>2, <2>3
<1>7. Shown(s) = [i \in 1..Len(s) |-> s[i]]
  BY <1>6 DEF Shown
<1>8. [i \in 1..Len(s) |-> s[i]] = s
  OBVIOUS
<1> QED BY <1>5, <1>7, <1>8

\* What is shown of a scan follows from the bits that passed the TAP.
LEMMA ShortReport ==
    ASSUME NEW r \in Seq(Bit), NEW t \in Seq(Bit), NEW c, Len(t) <= Len(r), IsPrefix(r, c \o t)
    PROVE  Reports(r, c, t)
<1> SUFFICES ASSUME Len(r) < INT_BITS
             PROVE  IsPrefix(Shown(r), c \o Shown(t)) /\ Ones(r) \subseteq 0..(Len(r) - 1)
  BY DEF Reports
<1>1. Len(t) < INT_BITS
  BY TapAssumption
<1>2. Shown(t) = t
  BY <1>1, ShortOnes
<1>3. Shown(r) = r /\ Ones(r) \subseteq 0..(Len(r) - 1)
  BY ShortOnes
<1> QED BY <1>2, <1>3

\* What the server's sniffer shows as received in a scan of fewer bits than an int has
\* is the captured register and, behind it, the bits it shows as sent, and no other bit
\* is set: for instruction and data registers of any length and any number of pauses,
\* and whatever the build makes of a shift by more bits than an int has.  In longer
\* scans, that of a 32-bit IDCODE included, the code shows something else.
THEOREM ScannedThrough ==
    ASSUME Distinct
    PROVE  Spec => []ScanThrough
<1>1. DataInv /\ InstrInv => ScanThrough
  <2> SUFFICES ASSUME DataInv, InstrInv PROVE ScanThrough
    OBVIOUS
  <2>1. dump.dri \in Seq(Bit) /\ dump.dro \in Seq(Bit) /\ dump.iri \in Seq(Bit) /\ dump.iro \in Seq(Bit)
    BY DEF DataInv, PortsInv, TapTypes
  <2>2. ASSUME ScanningDR, Decoded PROVE Reports(dump.dri, Selected, dump.dro)
    <3>1. Len(dump.dro) <= Len(dump.dri) /\ IsPrefix(dump.dri, Selected \o dump.dro)
      BY <2>1, <2>2 DEF DataInv, DrInv
    <3> QED BY <2>1, <3>1, ShortReport
  <2>3. ASSUME ScanningDR, ~Decoded PROVE Reports(dump.dri, [i \in 1..Len(dump.dri) |-> 1], <<>>)
    <3> DEFINE ones == [i \in 1..Len(dump.dri) |-> 1]
    <3>1. ones \o <<>> = ones /\ Len(ones) = Len(dump.dri) /\ \A i \in 1..Len(dump.dri) : ones[i] = 1
      <4>1. ones \in Seq({1}) /\ Len(ones) = Len(dump.dri)
        BY <2>1
      <4> QED BY <4>1
    <3>2. \A i \in 1..Len(dump.dri) : dump.dri[i] = 1
      BY <2>3 DEF DataInv, DrInv
    <3> HIDE DEF ones
    <3>3. IsPrefix(dump.dri, ones \o <<>>)
      BY <2>1, <3>1, <3>2 DEF IsPrefix
    <3>4. <<>> \in Seq(Bit) /\ Len(<<>>) <= Len(dump.dri)
      BY <2>1
    <3>5. Reports(dump.dri, ones, <<>>)
      BY <2>1, <3>3, <3>4, ShortReport
    <3> QED BY <3>5 DEF ones
  <2>4. ASSUME ScanningIR PROVE Reports(dump.iri, Bits(IR_VAL, IR_LENGTH), dump.iro)
    <3>1. Len(dump.iro) <= Len(dump.iri) /\ IsPrefix(dump.iri, Bits(IR_VAL, IR_LENGTH) \o dump.iro)
      BY <2>1, <2>4 DEF InstrInv, IrInv, ThroughIr
    <3> QED BY <2>1, <3>1, ShortReport
  <2> QED BY <2>2, <2>3, <2>4 DEF ScanThrough
<1> QED BY <1>1, DataInductive, InstrInductive, PTL DEF Spec

\* A register behind the BSCAN port captures and shifts once in each period of a scan
\* of USER, and at no other time.
THEOREM UserScanned ==
    ASSUME Distinct
    PROVE  Spec => []UserScan
<1>1. DataInv => UserScan
  <2> SUFFICES ASSUME DataInv, ScanningDR, ir = REG_USER
               PROVE  Bits(user, DR_LENGTH) = LastBits(Bits(USER_VAL, DR_LENGTH) \o dump.dro, DR_LENGTH)
    BY DEF UserScan
  <2> DEFINE V == Bits(USER_VAL, DR_LENGTH)
  <2>1. Holds(user, DR_LENGTH, V \o dump.dro)
    BY SelectedIs DEF DataInv, DrInv
  <2>2. user \in [0..(DR_LENGTH - 1) -> Bit] /\ dump.dro \in Seq(Bit)
    BY DEF DataInv, PortsInv, TapTypes, DrType
  <2>3. V \in Seq(Bit) /\ Len(V) = DR_LENGTH /\ DR_LENGTH \in Nat \ {0}
    BY Registers, BitsType DEF DrType
  <2> HIDE DEF V
  <2>4. V \o dump.dro \in Seq(Bit) /\ DR_LENGTH <= Len(V \o dump.dro)
    BY <2>2, <2>3
  <2>5. Bits(user, DR_LENGTH) = LastBits(V \o dump.dro, DR_LENGTH)
    BY <2>1, <2>2, <2>3, <2>4, HoldsLast
  <2> QED BY <2>5 DEF V
<1> QED BY <1>1, DataInductive, PTL DEF Spec

=============================================================================
