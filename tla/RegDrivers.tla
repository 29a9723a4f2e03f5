------------------------------ MODULE RegDrivers ------------------------------
(***************************************************************************)
(* The drivers that hand a message to the hardware a word at a time: the   *)
(* AXI debug bridge (xvcDrvAxiDbgBridgeIP.cc) and, in xvcDrvAxisTmem.cc,   *)
(* the raw serialiser (xfer32sdes) and bit-banging (xfer32bb) behind the   *)
(* registers of Tmem2BSCANWrapper.vhd.  There is no firmware that knows    *)
(* the protocol: xfer() answers the query itself, takes the message apart  *)
(* and puts the TDO words together.                                        *)
(*                                                                         *)
(* The mode "stream" stands for the other drivers, for which a message is  *)
(* opaque.  A TDO bit is the number of the rising edge of TCK before which *)
(* the TAP has it on the pin, 0 is a bit that is not from the TAP.         *)
(***************************************************************************)
EXTENDS SendVectors

CONSTANTS
    Modes,      \* kinds of driver there may be
    RegMaxVec,  \* getMaxVectorSize() of a register driver
    MaxStarts   \* bound on the processes

ASSUME RegAssumption ==
    /\ Modes \subseteq {"stream", "bridge", "sdes", "bb", "bbsdes"}
    /\ RegMaxVec \in Nat \ {0} /\ MaxStarts \in Nat /\ BufSz >= 4

VARIABLES
    mode,
    loc,     \* locals of xfer(): place at, pi, po, nbits, l; and resets so far
    rxb,     \* the bits of xfer()'s rxb
    eng,     \* registers of the engine: tms, tdi, len, run, tdo; bits done cnt
    pins,    \* JTAG as bit-banged, and the TDO pin
    jtag,    \* TMS and TDI at the rising edges of TCK since the call began
    edges,   \* rising edges ever
    start,   \* rising edges before the call
    nStart

hwVars == <<eng, pins, jtag, edges>>
vars == <<sendVars, mode, loc, rxb, hwVars, start, nStart>>

W == 32
Zero == 0
Bb == mode \in {"bb", "bbsdes"}      \* bitBang_
Sdes == mode \in {"sdes", "bbsdes"}  \* useSdes_: the firmware has the raw serialiser
Word(at) == [k \in 0..3 |-> message[at + k + 1]]
BitOf(w, j) == [octet |-> w[j \div 8], bit |-> j % 8]

\* The TMS and TDI words of reset(): 0xff and 0
Ones == [k \in 0..3 |-> Octet(0, IF k = 0 THEN "ones" ELSE "zeros", k)]
Zeros == [k \in 0..3 |-> Octet(0, "zeros", k)]

Init ==
    /\ SendInit
    /\ mode \in Modes
    /\ loc = [at |-> "idle", pi |-> 0, po |-> 0, nbits |-> 0, l |-> W, resets |-> 0]
    /\ rxb = <<>>
    /\ eng = [tms |-> Zeros, tdi |-> Zeros, len |-> 0, run |-> FALSE, cnt |-> 0,
              tdo |-> [j \in 0..(W - 1) |-> Zero]]
    /\ pins = [tck |-> FALSE, tms |-> BitOf(Zeros, 0), tdi |-> BitOf(Zeros, 0), tdo |-> 1]
    /\ jtag = <<>> /\ edges = 0 /\ start = 0
    /\ nStart = 0

-----------------------------------------------------------------------------
(* The hardware *)

\* TCK rises: the TAP samples TMS and TDI
Rise(tms, tdi) ==
    /\ jtag' = Append(jtag, [tms |-> tms, tdi |-> tdi])
    /\ edges' = edges + 1

\* TDO of the TAP changes when TCK falls
Fall(p) == [p EXCEPT !.tck = FALSE, !.tdo = IF p.tck THEN edges + 1 ELSE p.tdo]

\* The serialiser shifts TDO in at the top (JtagSerDesCore.vhd); the bridge puts
\* bit n of the response in bit n.
Sampled(tdo) ==
    IF mode = "bridge" THEN [tdo EXCEPT ![eng.cnt] = edges + 1]
    ELSE [j \in 0..(W - 1) |-> IF j = W - 1 THEN edges + 1 ELSE tdo[j + 1]]

EngineBit ==
    /\ eng.run /\ eng.cnt < eng.len
    /\ eng' = [eng EXCEPT !.tdo = Sampled(@), !.cnt = @ + 1]
    /\ Rise(BitOf(eng.tms, eng.cnt), BitOf(eng.tdi, eng.cnt))
    /\ pins' = [pins EXCEPT !.tdo = edges' + 1]
    /\ UNCHANGED <<sendVars, mode, loc, rxb, start, nStart>>

\* A mutant of EngineDone: the engine stays busy until a whole word is through
EngineDoneWhole ==
    /\ eng.run /\ eng.cnt = W
    /\ eng' = [eng EXCEPT !.run = FALSE]
    /\ UNCHANGED <<sendVars, mode, loc, rxb, pins, jtag, edges, start, nStart>>
EngineDone ==
    /\ eng.run /\ eng.cnt = eng.len
    /\ eng' = [eng EXCEPT !.run = FALSE]
    /\ UNCHANGED <<sendVars, mode, loc, rxb, pins, jtag, edges, start, nStart>>

\* Writing the vectors, the length and RUN
Run(tms, tdi, len) ==
    eng' = [eng EXCEPT !.tms = tms, !.tdi = tdi, !.len = len, !.run = TRUE, !.cnt = 0]

-----------------------------------------------------------------------------
(* Construction, reset() and query *)

\* A new process.  reset(), in the constructor and again in init(), takes the
\* bit-banged pins to TMS high, TCK and TDI low; where there is a serialiser it
\* also clocks eight bits with TMS high, bit-banging disabled.  The engine ends a
\* word in microseconds, long before a new process is up.
Start ==
    /\ nStart < MaxStarts /\ ~eng.run
    /\ Construct
    /\ nStart' = nStart + 1
    /\ jtag' = <<>> /\ start' = edges /\ rxb' = <<>>
    /\ IF Sdes \/ Bb
       THEN pins' = [Fall(pins) EXCEPT !.tms = BitOf(Ones, 0), !.tdi = BitOf(Zeros, 0)]
       ELSE UNCHANGED pins
    /\ IF Sdes
       THEN loc' = [loc EXCEPT !.at = "reset", !.resets = 1] /\ Run(Ones, Zeros, 8)
       ELSE loc' = [loc EXCEPT !.at = "idle"] /\ UNCHANGED eng
    /\ UNCHANGED <<mode, edges>>

ResetDone ==
    /\ loc.at = "reset" /\ ~eng.run
    /\ IF loc.resets < 2
       THEN loc' = [loc EXCEPT !.resets = @ + 1] /\ Run(Ones, Zeros, 8)
       ELSE loc' = [loc EXCEPT !.at = "idle"] /\ UNCHANGED eng
    /\ UNCHANGED <<sendVars, mode, rxb, pins, jtag, edges, start, nStart>>

\* The low bits of the reply that xfer() makes up for CMD_Q, and what query()
\* reads from them
mkQueryReply(wsz, depth) == depth * 16 + (wsz - 1)
RegTarget ==
    LET low == mkQueryReply(4, 0)
    IN  [wordSize |-> (low % 16) + 1, memDepth |-> low \div 16, maxVec |-> RegMaxVec]

DoConnect ==
    /\ loc.at = "idle"
    /\ IF mode = "stream" THEN \E t \in Targets : Connect(t) ELSE Connect(RegTarget)
    /\ UNCHANGED <<mode, loc, rxb, hwVars, start, nStart>>

DoSend == loc.at = "idle" /\ Sending /\ UNCHANGED <<mode, loc, rxb, hwVars, start, nStart>>

StreamXfer == mode = "stream" /\ Return /\ UNCHANGED <<mode, loc, rxb, hwVars, start, nStart>>

-----------------------------------------------------------------------------
(* xfer() *)

nwords == (bytesCeil + 3) \div 4

\* The header is taken off; the bridge's length register is set for whole words.
\* A message that is too short makes xfer() throw.
Xfer ==
    /\ mode # "stream" /\ pc = "xfer" /\ loc.at = "idle"
    /\ Len(message) >= nwords * 2 * 4
    /\ loc' = [loc EXCEPT !.at = "load", !.pi = wordSize, !.po = 0, !.nbits = bits, !.l = W]
    /\ rxb' = [k \in 0..(8 * bytesCeil - 1) |-> Zero]
    /\ eng' = IF mode = "bridge" THEN [eng EXCEPT !.len = W] ELSE eng
    /\ jtag' = <<>> /\ start' = edges
    /\ UNCHANGED <<sendVars, mode, pins, edges, nStart>>

\* Bits of the next word
WordBits == IF loc.nbits < W THEN loc.nbits ELSE loc.l

\* The bridge's length is written again only for a word that is not full
\* A mutant of EngineLen: nor for that one
EngineLenStale == IF mode = "bridge" THEN eng.len ELSE WordBits
EngineLen == IF mode = "bridge" /\ loc.nbits >= W THEN eng.len ELSE WordBits

\* A word to the engine
Load ==
    /\ ~Bb /\ loc.at = "load"
    /\ Run(Word(loc.pi), Word(loc.pi + 4), EngineLen)
    /\ loc' = [loc EXCEPT !.at = "poll", !.pi = @ + 8, !.l = WordBits]
    /\ UNCHANGED <<sendVars, mode, rxb, pins, jtag, edges, start, nStart>>

lb == (loc.l + 7) \div 8

\* setw32 puts the octets that have bits of the word at po; then the next word, or return
Store(tdo) ==
    /\ rxb' = [k \in DOMAIN rxb |->
                 IF k \in (8 * loc.po)..(8 * (loc.po + lb) - 1) THEN tdo[k - 8 * loc.po] ELSE rxb[k]]
    /\ IF loc.nbits > loc.l
       THEN /\ loc' = [loc EXCEPT !.at = "load", !.po = @ + lb, !.nbits = @ - loc.l]
            /\ UNCHANGED sendVars
       ELSE /\ loc' = [loc EXCEPT !.at = "idle", !.po = @ + lb, !.nbits = 0]
            /\ Return

\* What xfer32sdes makes of the TDO register
\* A mutant of Aligned: the response is left where the serialiser has it
AlignedNot(tdo) == tdo
Aligned(tdo) ==
    IF mode = "bridge" THEN tdo
    ELSE [j \in 0..(W - 1) |-> IF j < loc.l THEN tdo[j + W - loc.l] ELSE Zero]

\* The poll loop ends when the engine is not busy any more; wait() only decides
\* how often it looks.
NotBusy == ~eng.run

Poll ==
    /\ loc.at = "poll" /\ NotBusy
    /\ Store(Aligned(eng.tdo))
    /\ UNCHANGED <<mode, hwVars, start, nStart>>

\* xfer32bb, first half of a bit: TMS and TDI change with TCK low, and TDO is read.
\* TCK is still high from the last bit of the word before.
BbLow ==
    /\ Bb /\ loc.at \in {"load", "low"}
    /\ LET new == loc.at = "load"
           i == IF new THEN 0 ELSE eng.cnt
           tms == IF new THEN Word(loc.pi) ELSE eng.tms
           tdi == IF new THEN Word(loc.pi + 4) ELSE eng.tdi
           old == IF new THEN [j \in 0..(W - 1) |-> Zero] ELSE eng.tdo
       IN  /\ pins' = [Fall(pins) EXCEPT !.tms = BitOf(tms, i), !.tdi = BitOf(tdi, i)]
           /\ eng' = [eng EXCEPT !.tms = tms, !.tdi = tdi, !.cnt = i, !.tdo = [old EXCEPT ![i] = pins'.tdo]]
           /\ loc' = [loc EXCEPT !.at = "high", !.pi = IF new THEN @ + 8 ELSE @, !.l = WordBits]
    /\ UNCHANGED <<sendVars, mode, rxb, jtag, edges, start, nStart>>

\* Second half: TCK rises
BbHigh ==
    /\ loc.at = "high"
    /\ pins' = [pins EXCEPT !.tck = TRUE]
    /\ Rise(pins.tms, pins.tdi)
    /\ eng' = [eng EXCEPT !.cnt = @ + 1]
    /\ IF eng.cnt + 1 < loc.l
       THEN loc' = [loc EXCEPT !.at = "low"] /\ UNCHANGED <<rxb, sendVars>>
       ELSE Store(eng.tdo)
    /\ UNCHANGED <<mode, start, nStart>>

\* The process is ended from outside; a word in the engine goes on
Kill ==
    /\ mode # "stream" /\ nStart < MaxStarts
    /\ pc = "xfer"
    /\ pc' = "down"
    /\ loc' = [loc EXCEPT !.at = "idle"]
    /\ UNCHANGED <<parVars, bufSz, txBuf, nCalls, bits, idx, wp, message,
                   mode, rxb, hwVars, start, nStart>>

Driver == ResetDone \/ DoSend \/ StreamXfer \/ Xfer \/ Load \/ Poll \/ BbLow \/ BbHigh
Engine == EngineBit \/ EngineDone
Next == Start \/ DoConnect \/ Kill \/ Driver \/ Engine

\* The server's thread runs, and the hardware shifts what it was given
Spec == Init /\ [][Next]_vars /\ WF_vars(Driver) /\ WF_vars(Engine)

-----------------------------------------------------------------------------
Expected(k) ==
    IF message = <<>> THEN [tms |-> BitOf(Ones, (k - 1) % 8), tdi |-> BitOf(Zeros, (k - 1) % 8)]
    ELSE LET bit(what) == [octet |-> Octet(nCalls, what, (k - 1) \div 8), bit |-> (k - 1) % 8]
         IN  [tms |-> bit("tms"), tdi |-> bit("tdi")]

Returned == pc = "idle" /\ loc.at = "idle" /\ message # <<>> /\ mode # "stream"

\* In all three modes the TAP sees one rising edge of TCK for each bit of the
\* caller's vectors, with its TMS and TDI, in order, and no other edge: not
\* between words and calls, where bit-banging leaves TCK high, nor when a new
\* process takes the pins over; there reset() alone drives them.
BitsInOrder ==
    /\ (pc = "xfer" /\ loc.at # "idle") \/ loc.at = "reset" \/ Returned =>
         \A k \in 1..Len(jtag) : jtag[k] = Expected(k)
    /\ pc = "xfer" /\ loc.at # "idle" => Len(jtag) <= bits
    /\ Returned => Len(jtag) = bits
    /\ message = <<>> /\ pc = "idle" /\ loc.at = "idle" /\ nCalls = 0 /\ mode # "stream" =>
         Len(jtag) = IF Sdes THEN 16 ELSE 0

\* Bit k that sendVectors' caller gets is TDO as it was before rising edge k of
\* its own call, also in a word that is not full, and xfer() writes no octet
\* behind the vector.
TdoInPlace ==
    /\ loc.at \in {"poll", "low", "high"} => loc.po + lb <= bytesCeil
    /\ Returned => \A k \in 0..(bits - 1) : rxb[k] = start + k + 1

\* xfer() returns, however long the engine takes, unless the process is killed
TransfersEnd == (pc = "xfer") ~> (pc \in {"idle", "down"})
===============================================================================
