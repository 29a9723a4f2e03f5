---------------------------- MODULE AxisToJtagCore ----------------------------
(***************************************************************************)
(* AxisToJtagCore.vhd, clock cycle by clock cycle: it takes the header and *)
(* the pairs of TMS and TDI words from the request stream, hands them to   *)
(* the serialiser, and sends the TDO words, the last one right-aligned and *)
(* marked with TLAST.  The record core is the register r of the            *)
(* architecture.                                                           *)
(***************************************************************************)
EXTENDS JtagSerDesCore

VARIABLE core

TLAST_IGNORE == design.TLAST_IGNORE  \* TLAST_IGNORE_G

CoreInit ==
    core = [state |-> "IDLE_S", tms |-> NoWord, tdi |-> NoWord,
            tdo |-> [i \in 0..(WIDTH - 1) |-> NoTdo], nBits |-> 0, nBitsTot |-> 0,
            tdiValid |-> FALSE, sReady |-> TRUE, tdoValid |-> FALSE, tdoPass |-> TRUE,
            last |-> FALSE, tLastSeen |-> FALSE, iCnt |-> 0, oCnt |-> 0,
            tLast |-> FALSE, running |-> FALSE]

\* Combinatorial signals.  The request stream is [valid, last, data], where data
\* has the fields len, for the bits that a header word has the length in, and
\* bits, for a word of TMS or TDI.
mTdoValid == core.tdoValid /\ core.tdoPass
tdoReady(sAxisReady) == ~core.tdoValid \/ (sAxisReady /\ core.tdoPass)
TwoBits(n) == n % 4

\* The first word is the bit count (minus one)
CoreIdle(in) ==
    LET v == [core EXCEPT !.last = FALSE, !.tLastSeen = FALSE, !.iCnt = 0, !.oCnt = 0,
                          !.tLast = FALSE, !.tdoPass = TRUE, !.sReady = TRUE]
    IN  IF core.sReady /\ in.valid /\ ~in.last
        THEN [v EXCEPT !.nBitsTot = in.data.len, !.state = "GET_TMS_S"]
        ELSE v

\* The stream ends before a TDI word: finish what is under way
CoreAbort ==
    IF core.iCnt # core.oCnt
    THEN [core EXCEPT !.last = TRUE, !.tLastSeen = TRUE, !.nBits = WIDTH - 1, !.state = "ALIGN_S"]
    ELSE [core EXCEPT !.state = "IDLE_S"]

CoreGetTms(in) ==
    LET more == core.nBitsTot >= WIDTH
        v == [core EXCEPT !.tms = in.data.bits, !.state = "GET_TDI_S",
                          !.iCnt = TwoBits(@ + 1), !.running = TRUE,
                          !.nBits = IF more THEN WIDTH - 1 ELSE core.nBitsTot,
                          !.nBitsTot = IF more THEN @ - WIDTH ELSE @,
                          !.last = @ \/ ~more]
    IN  IF ~(core.sReady /\ in.valid) THEN core ELSE IF in.last THEN CoreAbort ELSE v

\* A premature end still does this word
CoreGetTdi(in) ==
    LET premature == in.last /\ ~core.last
    IN  IF core.sReady /\ in.valid
        THEN [core EXCEPT !.tLastSeen = @ \/ in.last, !.last = @ \/ in.last,
                          !.nBitsTot = IF premature THEN core.nBits ELSE @,
                          !.tdi = in.data.bits, !.tdiValid = TRUE, !.sReady = FALSE,
                          !.state = "SHIFT_S"]
        ELSE core

\* The serialiser takes the word
CoreShift ==
    IF sd.iReady /\ core.tdiValid
    THEN IF core.last THEN [core EXCEPT !.tdiValid = FALSE]
                      ELSE [core EXCEPT !.tdiValid = FALSE, !.state = "GET_TMS_S", !.sReady = TRUE]
    ELSE core

\* A mutant of CoreAlign: one shift too few
CoreAlignShort(sAxisReady) ==
    IF core.nBits + 1 >= WIDTH - 1
    THEN [core EXCEPT !.tLast = TRUE,
                      !.state = IF core.tdoValid /\ sAxisReady THEN "DISCARD_S" ELSE @]
    ELSE [core EXCEPT !.tdo = ShiftIn(NoTdo, @, WIDTH - 1), !.nBits = @ + 1]

\* The last word is shifted down to bit 0, then offered
CoreAlign(sAxisReady) ==
    IF core.nBits = WIDTH - 1
    THEN [core EXCEPT !.tLast = TRUE,
                      !.state = IF core.tdoValid /\ sAxisReady THEN "DISCARD_S" ELSE @]
    ELSE [core EXCEPT !.tdo = ShiftIn(NoTdo, @, WIDTH - 1), !.nBits = @ + 1]

\* Words behind the announced number of bits are dropped
CoreDiscard(in) ==
    CASE core.tLastSeen \/ TLAST_IGNORE -> [core EXCEPT !.tdoPass = TRUE]
      [] ~(core.tLastSeen \/ TLAST_IGNORE) /\ core.sReady /\ in.valid /\ in.last ->
           [core EXCEPT !.tLastSeen = TRUE, !.tdoPass = TRUE, !.sReady = FALSE]
      [] OTHER -> [core EXCEPT !.sReady = TRUE]

CoreState(in, sAxisReady) ==
    CASE core.state = "IDLE_S"    -> CoreIdle(in)
      [] core.state = "GET_TMS_S" -> CoreGetTms(in)
      [] core.state = "GET_TDI_S" -> CoreGetTdi(in)
      [] core.state = "SHIFT_S"   -> CoreShift
      [] core.state = "ALIGN_S"   -> CoreAlign(sAxisReady)
      [] core.state = "DISCARD_S" -> CoreDiscard(in)

\* In every state, the TDO word goes out ...
CoreSend(v, sAxisReady) ==
    CASE mTdoValid /\ sAxisReady /\ core.tLast ->
           [v EXCEPT !.running = FALSE, !.state = "IDLE_S", !.tdoValid = FALSE]
      [] mTdoValid /\ sAxisReady /\ ~core.tLast -> [v EXCEPT !.tdoValid = FALSE]
      [] OTHER -> v

\* ... and the serialiser's word comes in, the last one to be aligned first
CoreReceive(v, sAxisReady) ==
    LET n == TwoBits(core.oCnt + 1)
        w == [v EXCEPT !.tdo = dataOut, !.tdoValid = TRUE, !.oCnt = n]
    IN  CASE ~(sd.oValid /\ tdoReady(sAxisReady)) -> v
          [] sd.oValid /\ tdoReady(sAxisReady) /\ core.last /\ n = core.iCnt ->
               [w EXCEPT !.tdoPass = FALSE, !.state = "ALIGN_S"]
          [] OTHER -> w

\* One clock cycle of the core and of its serialiser
Core(in, sAxisReady) ==
    /\ core' = CoreReceive(CoreSend(CoreState(in, sAxisReady), sAxisReady), sAxisReady)
    /\ SerDes([numBits |-> core.nBits, tms |-> core.tms, tdi |-> core.tdi,
               valid |-> core.tdiValid],
              tdoReady(sAxisReady))
===============================================================================
