----------------------------- MODULE Axis2TmemFifo -----------------------------
(***************************************************************************)
(* Axis2TmemFifo.vhd, a clock at a time: two store-and-forward FIFOs       *)
(* between a bus that software reads and writes and a pair of AXI streams. *)
(* The registers that the FIFO drivers do not use are left out.            *)
(*                                                                         *)
(* TmemClock is one rising edge of clk.  Its parameters are the access on  *)
(* the bus, the incoming stream (a sequence of at most one word, and       *)
(* TLAST) and TREADY of the outgoing one.                                  *)
(***************************************************************************)
EXTENDS Naturals, Sequences

CONSTANT Depth  \* words in each FIFO (512)

ASSUME DepthAssumption == Depth \in Nat \ {0}

VARIABLES
    usrRst, seq,        \* fifoUsrRst, usrRstSeq
    out, outReg, owner, \* outgoing FIFO, word at its output if fifoOutValid, fifoOutOwnerAXIS
    inp, wcntReg, wcntCnt,
    ien                 \* fifoInpIrqEna

tmemVars == <<usrRst, seq, out, outReg, owner, inp, wcntReg, wcntCnt, ien>>

TmemInit ==
    /\ usrRst = FALSE /\ seq = 0
    /\ out = <<>> /\ outReg = <<>> /\ owner = FALSE
    /\ inp = <<>> /\ wcntReg = 0 /\ wcntCnt = 0
    /\ ien = FALSE

\* What there can be on the bus in a clock
NoAccess == [op |-> "none"]
ReadCsr == [op |-> "rcsr"]
ReadData == [op |-> "rdat"]
WriteData(w) == [op |-> "wdat", word |-> w]
WriteCsr(rst, eofo, ie) == [op |-> "wcsr", rst |-> rst, eofo |-> eofo, ien |-> ie]

aRst == seq > 4
rstInProg == seq # 0

\* The bits of the status register that the driver looks at or writes back
Status == [rst |-> usrRst, ien |-> ien, eofo |-> owner, empi |-> wcntReg = 0, nwrds |-> wcntReg]

irqLevel == ien /\ wcntReg # 0

\* Handshakes.  tReadyInp does not look at rstInProg, WREN does.
tReadyInp == Len(inp) < Depth /\ wcntReg = 0
fifoInpWREN(inw) == inw # <<>> /\ tReadyInp /\ ~rstInProg
tmemRDEN(bus) == bus.op = "rdat" /\ wcntReg # 0
fifoInpRDEN(bus) == tmemRDEN(bus) /\ inp # <<>> /\ ~rstInProg
fifoOutWREN(bus) == bus.op = "wdat" /\ ~owner /\ Len(out) < Depth /\ ~rstInProg
fifoOutEmpty == out = <<>>
fifoOutRDEN(ready) == ~rstInProg /\ owner /\ ~fifoOutEmpty /\ (outReg = <<>> \/ ready)

P_RESET ==
    seq' = IF rstInProg THEN (seq + 1) % 8 ELSE IF usrRst THEN 1 ELSE 0

\* The last word of a frame leaves: the FIFO belongs to the bus again
Released(ready) == outReg # <<>> /\ ready /\ fifoOutEmpty

Registers(bus, inw, last, ready) ==
    /\ outReg' = IF outReg # <<>> /\ ~ready THEN outReg
                 ELSE IF fifoOutRDEN(ready) THEN <<Head(out)>> ELSE <<>>
    /\ wcntCnt' = wcntCnt + (IF fifoInpWREN(inw) THEN 1 ELSE 0) - (IF fifoInpRDEN(bus) THEN 1 ELSE 0)
    /\ wcntReg' = IF fifoInpWREN(inw) /\ last THEN wcntCnt + 1
                  ELSE IF tmemRDEN(bus) THEN wcntReg - 1 ELSE wcntReg
    /\ owner' = IF Released(ready) THEN FALSE
                ELSE IF bus.op = "wcsr" /\ ~owner THEN bus.eofo ELSE owner
    /\ ien' = IF bus.op = "wcsr" THEN bus.ien ELSE ien

\* The FIFO macros
Macros(bus, inw, ready) ==
    /\ out' = LET o == IF fifoOutRDEN(ready) THEN Tail(out) ELSE out
              IN  IF fifoOutWREN(bus) THEN Append(o, bus.word) ELSE o
    /\ inp' = LET p == IF fifoInpRDEN(bus) THEN Tail(inp) ELSE inp
              IN  IF fifoInpWREN(inw) THEN p \o inw ELSE p

TmemClock(bus, inw, last, ready) ==
    /\ P_RESET
    /\ usrRst' = IF bus.op = "wcsr" THEN bus.rst ELSE usrRst
    /\ IF aRst
       THEN /\ out' = <<>> /\ outReg' = <<>> /\ owner' = FALSE
            /\ inp' = <<>> /\ wcntReg' = 0 /\ wcntCnt' = 0
            /\ ien' = FALSE
       ELSE Registers(bus, inw, last, ready) /\ Macros(bus, inw, ready)
===============================================================================
