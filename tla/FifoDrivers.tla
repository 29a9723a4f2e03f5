------------------------------ MODULE FifoDrivers ------------------------------
(***************************************************************************)
(* The drivers that pass messages to AxisToJtag through a FIFO, a word at  *)
(* a time: JtagDriverTmemFifo in FIFO mode (xvcDrvAxisTmem.cc), on the     *)
(* hardware of Axis2TmemFifo, and JtagDriverZynqFifo (xvcDrvAxisFifo.cc),  *)
(* on a FIFO of the vendor.  Polled and with interrupts.                   *)
(*                                                                         *)
(* A word of a message is [m, k, n]: word k of message m with n pairs.     *)
(* A word of a reply is [m, k, n] too.                                     *)
(***************************************************************************)
EXTENDS Axis2TmemFifo, FiniteSetsExt

CONSTANTS
    Kinds,      \* drivers: a subset of {"tmem", "zynq"}
    Sizes,      \* octets of the vectors that are sent
    Gap,        \* clocks between two accesses of the bus, at least
    DropEvery,  \* 256: the test mode drops one reply out of so many
    Retry,      \* retry_
    MaxCalls, MaxStarts

\* Nobody waits for the end of the FIFO's reset: it takes seven clocks from the
\* moment its request is taken back, and what is written in between is lost.
ASSUME FifoAssumption ==
    /\ Kinds \subseteq {"tmem", "zynq"} /\ Sizes \subseteq Nat \ {0}
    /\ Gap \in Nat /\ Gap >= 7
    /\ DropEvery \in Nat /\ DropEvery > 1 /\ Retry \in Nat /\ Retry > 0
    /\ MaxCalls \in Nat /\ MaxStarts \in Nat

VARIABLES
    kind, useIrq,  \* driver, and whether it waits for interrupts
    pc, round, set, \* where the driver is, the reset() it is in, and its local
    msg,           \* message under way: [m, n, size]
    i, got, csr,   \* locals of xfer()
    rx, stored,    \* words read of the reply, and octets copied to hdbuf and rxb
    attempt, drop, \* of xferRel; drop_
    nCalls, nStart,
    quiet,         \* clocks since the last access, up to Gap
    armed, event,  \* interrupt descriptor: enabled, event to be read
    tgt, mem,      \* AxisToJtag: request so far, whether it ended, words of the reply;
                   \* message whose reply it remembers, or 0
    zf             \* the vendor's FIFO

drvVars == <<kind, useIrq, round, set, msg, csr, attempt, drop, nCalls, nStart>>
xferVars == <<i, got, rx, stored>>
irqVars == <<armed, event>>
tgtVars == <<tgt, mem>>
vars == <<tmemVars, drvVars, xferVars, pc, quiet, irqVars, tgtVars, zf>>

NoMsg == [m |-> 0, n |-> 0, size |-> 0]
Word(k) == [m |-> msg.m, k |-> k, n |-> msg.n]
TxWords == 1 + 2 * msg.n

Init ==
    /\ TmemInit
    /\ kind \in Kinds /\ useIrq \in BOOLEAN
    /\ pc = "down" /\ round = 0 /\ set = {}
    /\ msg = NoMsg /\ i = 0 /\ got = 0 /\ csr = Status /\ rx = <<>> /\ stored = 0
    /\ attempt = 0 /\ drop = 0 /\ nCalls = 0 /\ nStart = 0
    /\ quiet = 0 /\ armed = FALSE /\ event = FALSE
    /\ tgt = [frame |-> <<>>, ended |-> FALSE, sent |-> 0] /\ mem = 0
    /\ zf = [rst |-> {}, sta |-> {}, ien |-> {}, tx |-> <<>>, go |-> <<>>, rx |-> <<>>, cnt |-> 0]

-----------------------------------------------------------------------------
(* The target, as the streams see it: it answers a request of n pairs with *)
(* a header and n words, word k not before its pair, at most two pairs     *)
(* behind the request.  The reply to a request that it has answered before *)
(* it has in its memory and does not wait for the words of the request,    *)
(* which it takes at one a clock (REPLAY_S).  No driver sends a request    *)
(* that it answers with an error.                                          *)

Fresh == [frame |-> <<>>, ended |-> FALSE, sent |-> 0]
Pairs == tgt.frame[1].n
Replaying == tgt.frame # <<>> /\ tgt.frame[1].m = mem
Absorbing == Replaying /\ ~tgt.ended
CanTake == ~tgt.ended /\ (Replaying \/ Len(tgt.frame) <= 2 * tgt.sent + 4)
CanGive ==
    /\ tgt.frame # <<>> /\ tgt.sent <= Pairs
    /\ Replaying \/ Len(tgt.frame) > 2 * tgt.sent
Given == [m |-> tgt.frame[1].m, k |-> tgt.sent, n |-> Pairs]
GivenLast == tgt.sent = Pairs

\* A request that is not remembered, every query among them, clears the memory, and
\* the last word of its reply makes it valid.  A header alone is not remembered.
Remembered(words, give) ==
    IF tgt.frame = <<>> THEN IF words # <<>> /\ words[1].m # mem THEN 0 ELSE mem
    ELSE IF give /\ GivenLast /\ Pairs > 0 THEN Given.m ELSE mem

\* After words taken from (at most one, the last of a frame or not) and given to the streams
Target(words, last, give) ==
    LET t == [frame |-> tgt.frame \o words, ended |-> tgt.ended \/ (words # <<>> /\ last),
              sent |-> IF give THEN tgt.sent + 1 ELSE tgt.sent]
    IN  /\ tgt' = IF t.ended /\ t.sent > t.frame[1].n THEN Fresh ELSE t
        /\ mem' = Remembered(words, give)

-----------------------------------------------------------------------------
(* A clock of the TMEM hardware, with what software does on the bus.  The  *)
(* target may be slow on both streams, except that it absorbs a request    *)
(* that it answers from its memory.                                        *)

Clock(bus, take, give) ==
    /\ kind = "tmem"
    /\ take => CanTake
    /\ Absorbing => take
    /\ give => CanGive
    /\ TmemClock(bus, IF give THEN <<Given>> ELSE <<>>, give /\ GivenLast, take)
    /\ Target(IF take THEN outReg ELSE <<>>, fifoOutEmpty, give /\ tReadyInp)

Tick(take, give) ==
    /\ Clock(NoAccess, take, give)
    /\ quiet' = Min({Gap, quiet + 1})
    /\ UNCHANGED <<drvVars, xferVars, pc, irqVars, zf>>

Access(bus) ==
    /\ quiet = Gap /\ quiet' = 0
    /\ \E take, give \in BOOLEAN : Clock(bus, take, give)
    /\ UNCHANGED <<irqVars, zf>>

-----------------------------------------------------------------------------
(* The vendor's FIFO, as the driver uses it *)

ZReset(x) ==
    /\ x \in zf.rst
    /\ zf' = [zf EXCEPT !.rst = @ \ {x}, !.sta = @ \cup {x},
                        ![x] = <<>>]
    /\ UNCHANGED <<tmemVars, drvVars, xferVars, pc, quiet, irqVars, tgtVars>>

ZOut ==
    /\ zf.go # <<>> /\ CanTake
    /\ Target(<<Head(zf.go)>>, Len(zf.go) = 1, FALSE)
    /\ zf' = [zf EXCEPT !.go = Tail(@)]
    /\ UNCHANGED <<tmemVars, drvVars, xferVars, pc, quiet, irqVars>>

\* There is no clock here: the end of a reply from the memory waits until its request
\* is absorbed, which takes less time than software needs for the words that it reads.
ZIn ==
    /\ kind = "zynq" /\ CanGive
    /\ GivenLast => tgt.ended
    /\ Target(<<>>, FALSE, TRUE)
    /\ zf' = [zf EXCEPT !.rx = Append(@, Given),
                        !.cnt = IF GivenLast THEN Len(zf.rx) + 1 ELSE @,
                        !.sta = IF GivenLast THEN @ \cup {"rdy"} ELSE @]
    /\ UNCHANGED <<tmemVars, drvVars, xferVars, pc, quiet, irqVars>>

\* An access of the driver to it: f is its state afterwards
ZAccess(f) ==
    /\ kind = "zynq"
    /\ zf' = f
    /\ UNCHANGED <<tmemVars, quiet, irqVars, tgtVars>>

-----------------------------------------------------------------------------
(* wait(): the descriptor is enabled by a write, and a read returns when   *)
(* there was an interrupt.  Interrupts are levels.                         *)

level == IF kind = "tmem" THEN irqLevel ELSE zf.sta \cap zf.ien # {}

Arm ==
    /\ pc \in {"arm", "zarm"}
    /\ armed' = TRUE
    /\ pc' = IF pc = "arm" THEN "sleep" ELSE "zsleep"
    /\ UNCHANGED <<tmemVars, drvVars, xferVars, quiet, event, tgtVars, zf>>

Interrupt ==
    /\ armed /\ level
    /\ armed' = FALSE /\ event' = TRUE
    /\ UNCHANGED <<tmemVars, drvVars, xferVars, pc, quiet, tgtVars, zf>>

Wake ==
    /\ pc \in {"sleep", "zsleep"} /\ event
    /\ event' = FALSE
    /\ pc' = IF pc = "sleep" THEN "poll" ELSE "zrx"
    /\ UNCHANGED <<tmemVars, drvVars, xferVars, quiet, armed, tgtVars, zf>>

-----------------------------------------------------------------------------
(* Constructor, reset() and init() *)

\* A new process comes up in milliseconds: by then the target has answered what
\* it was given.  No reset of the drivers reaches it.
Quiescent == tgt = Fresh /\ ~owner /\ outReg = <<>> /\ zf.go = <<>>

Start ==
    /\ pc = "down" /\ nStart < MaxStarts /\ Quiescent
    /\ nStart' = nStart + 1
    /\ pc' = IF kind = "tmem" THEN "magic" ELSE "zrst"
    /\ round' = 1 /\ set' = {}
    /\ msg' = NoMsg /\ i' = 0 /\ got' = 0 /\ rx' = <<>> /\ stored' = 0
    /\ attempt' = 0 /\ drop' = 0
    /\ armed' = FALSE /\ event' = FALSE
    /\ UNCHANGED <<tmemVars, kind, useIrq, csr, nCalls, quiet, tgtVars, zf>>

\* The magic number shares its address with the data: a word may be read with it.
\* In reset it reads differently, and the constructor throws.
Magic ==
    /\ pc = "magic" /\ Access(ReadData)
    /\ pc' = IF aRst THEN "down" ELSE "vers"
    /\ UNCHANGED <<drvVars, xferVars>>

\* The version is in the status register; in reset that reads differently as well,
\* and the constructor throws.
Vers ==
    /\ pc = "vers" /\ Access(ReadCsr)
    /\ pc' = IF aRst THEN "down" ELSE "rst"
    /\ UNCHANGED <<drvVars, xferVars>>

\* reset() is called by the constructor and by init()
ResetEnd ==
    /\ pc' = IF round = 2 THEN "idle" ELSE IF kind = "tmem" THEN "rst" ELSE "zrst"
    /\ round' = round + 1
    /\ set' = {}
    /\ UNCHANGED <<kind, useIrq, msg, csr, attempt, drop, nCalls, nStart, xferVars>>

Rst ==
    /\ pc = "rst" /\ Access(WriteCsr(TRUE, FALSE, FALSE))
    /\ pc' = "unrst"
    /\ UNCHANGED <<drvVars, xferVars>>

\* A mutant of Unrst: the interrupt is enabled while the FIFO is reset
UnrstLate ==
    /\ pc = "unrst" /\ Access(WriteCsr(TRUE, FALSE, useIrq))
    /\ IF useIrq THEN pc' = "ien" /\ UNCHANGED <<drvVars, xferVars>> ELSE ResetEnd
Unrst ==
    /\ pc = "unrst" /\ Access(WriteCsr(FALSE, FALSE, FALSE))
    /\ IF useIrq THEN pc' = "ien" /\ UNCHANGED <<drvVars, xferVars>> ELSE ResetEnd

Ien == pc = "ien" /\ Access(WriteCsr(FALSE, FALSE, TRUE)) /\ ResetEnd

\* JtagDriverZynqFifo: both sides are reset.  The status bits tell when it is done, and
\* so does bit 0 of the reset registers, which the driver looks at.  It does not clear
\* the status bits before: it relies on the reset for that.
ZRst ==
    /\ pc = "zrst"
    /\ ZAccess([zf EXCEPT !.rst = {"rx", "tx"}, !.sta = {},
                          !.ien = IF useIrq THEN {"rx", "tx", "rdy"} ELSE @])
    /\ pc' = "zrx"
    /\ UNCHANGED <<drvVars, xferVars>>

\* Bit 0 of a reset register: the vendor's, taken to be set unless a reset is under way
RstBit(x) == x \notin zf.rst

\* A side whose bit was not seen set yet: once it is, its status bit is cleared
ZSet(x) ==
    /\ ZAccess(IF x \notin set /\ RstBit(x) THEN [zf EXCEPT !.sta = @ \ {x}] ELSE zf)
    /\ set' = IF RstBit(x) THEN set \cup {x} ELSE set
    /\ UNCHANGED <<kind, useIrq, round, msg, csr, attempt, drop, nCalls, nStart, xferVars>>

ZRx == pc = "zrx" /\ ZSet("rx") /\ pc' = "ztx"
ZTx == pc = "ztx" /\ ZSet("tx") /\ pc' = "zset"

ZDone ==
    /\ pc = "zset" /\ ZAccess(zf)
    /\ IF set = {"rx", "tx"} THEN ResetEnd
       ELSE pc' = (IF useIrq THEN "zarm" ELSE "zrx") /\ UNCHANGED <<drvVars, xferVars>>

-----------------------------------------------------------------------------
(* xfer() *)

Begin == i' = 0 /\ got' = 0 /\ rx' = <<>> /\ stored' = 0 /\ pc' = "tx"

\* query() (size 0), first of all in init(), or sendVectors()
Call(size) ==
    /\ pc = "idle" /\ nCalls < MaxCalls
    /\ msg = NoMsg => size = 0
    /\ nCalls' = nCalls + 1
    /\ msg' = [m |-> nCalls + 1, n |-> (size + 3) \div 4, size |-> size]
    /\ attempt' = 0
    /\ Begin
    /\ UNCHANGED <<tmemVars, kind, useIrq, round, set, csr, drop, nStart, quiet, irqVars, tgtVars, zf>>

\* A mutant of LastWord: the frame ends a word early
LastWordEarly == i + 2 >= TxWords
LastWord == i + 1 >= TxWords

Tx ==
    /\ pc = "tx"
    /\ \/ Access(WriteData(Word(i)))
       \/ ZAccess([zf EXCEPT !.tx = Append(@, Word(i))])
    /\ i' = i + 1
    /\ pc' = IF ~LastWord THEN "tx" ELSE IF kind = "tmem" THEN "rmw" ELSE "end"
    /\ UNCHANGED <<drvVars, got, rx, stored>>

\* The FIFO is handed to the streams by a read and a write of the status register
Rmw ==
    /\ pc = "rmw" /\ Access(ReadCsr)
    /\ csr' = Status
    /\ pc' = "eof"
    /\ UNCHANGED <<kind, useIrq, round, set, msg, attempt, drop, nCalls, nStart, xferVars>>

Eof ==
    /\ pc = "eof" /\ Access(WriteCsr(csr.rst, TRUE, csr.ien))
    /\ pc' = "poll"
    /\ UNCHANGED <<drvVars, xferVars>>

\* The vendor's: by a write of the length
End ==
    /\ pc = "end" /\ ZAccess([zf EXCEPT !.go = zf.tx, !.tx = <<>>])
    /\ pc' = "poll"
    /\ UNCHANGED <<drvVars, xferVars>>

NotYet == pc' = (IF useIrq THEN "arm" ELSE "poll") /\ UNCHANGED got

Poll ==
    /\ pc = "poll"
    /\ \/ /\ Access(ReadCsr)
          /\ IF Status.empi THEN NotYet ELSE got' = 4 * Status.nwrds /\ pc' = "hdr"
       \/ /\ ZAccess(zf)
          /\ IF "rdy" \notin zf.sta THEN NotYet ELSE pc' = "clear" /\ UNCHANGED got
    /\ UNCHANGED <<drvVars, i, rx, stored>>

Clear ==
    /\ pc = "clear" /\ ZAccess([zf EXCEPT !.sta = @ \ {"rdy"}])
    /\ pc' = "cnt"
    /\ UNCHANGED <<drvVars, xferVars>>

Cnt ==
    /\ pc = "cnt" /\ ZAccess(zf)
    /\ got' = 4 * zf.cnt
    /\ pc' = "hdr"
    /\ UNCHANGED <<drvVars, i, rx, stored>>

\* A word is read from the FIFO
ReadFifo ==
    \/ /\ wcntReg # 0 /\ Access(ReadData)
       /\ rx' = Append(rx, Head(inp))
    \/ /\ zf.rx # <<>> /\ ZAccess([zf EXCEPT !.rx = Tail(@)])
       /\ rx' = Append(rx, Head(zf.rx))

\* The header.  Without one xfer() throws.
ReadHdr ==
    /\ pc = "hdr" /\ got >= 4 /\ ReadFifo
    /\ got' = got - 4
    /\ i' = 0
    /\ pc' = IF got = 4 THEN "done" ELSE "data"
    /\ UNCHANGED <<drvVars, stored>>

\* A mutant of MoreWords: what does not fit the caller's vector stays in the FIFO
MoreWords4 == i + 4 < Min({got, 4 * (msg.size \div 4)})
\* The excess is discarded
MoreWords == i + 4 < got

\* Whole words as far as there is room, a part of one, and what is left over
ReadWord ==
    /\ pc = "data" /\ ReadFifo
    /\ stored' = Min({i + 4, got, msg.size})
    /\ i' = i + 4
    /\ pc' = IF MoreWords THEN "data" ELSE "done"
    /\ UNCHANGED <<drvVars, got>>

\* In test mode, once init() is over, one reply out of DropEvery is thrown away,
\* and xferRel() sends the request again
dropNow == msg.m > 0 /\ round > 3 /\ (drop + 1) % DropEvery = 0

Done ==
    /\ pc = "done"
    /\ drop' = IF round > 3 THEN (drop + 1) % DropEvery ELSE drop
    /\ round' = 4
    /\ IF dropNow
       THEN attempt < Retry /\ attempt' = attempt + 1 /\ Begin
       ELSE pc' = "idle" /\ UNCHANGED <<attempt, xferVars>>
    /\ UNCHANGED <<tmemVars, kind, useIrq, set, msg, csr, nCalls, nStart, quiet, irqVars, tgtVars, zf>>

\* The process is ended from outside
Kill ==
    /\ pc # "down" /\ nStart < MaxStarts
    /\ pc' = "down"
    /\ UNCHANGED <<tmemVars, drvVars, xferVars, quiet, irqVars, tgtVars, zf>>

-----------------------------------------------------------------------------
Reset == Magic \/ Vers \/ Rst \/ Unrst \/ Ien \/ ZRst \/ ZRx \/ ZTx \/ ZDone
Xfer == Tx \/ Rmw \/ Eof \/ End \/ Poll \/ Clear \/ Cnt \/ ReadHdr \/ ReadWord \/ Done
Driver == Reset \/ Xfer \/ Arm \/ Wake
Vendor == ZReset("rx") \/ ZReset("tx") \/ ZOut \/ ZIn

Next ==
    \/ Start \/ Kill \/ Driver \/ Interrupt \/ Vendor
    \/ \E size \in Sizes \cup {0} : Call(size)
    \/ \E take, give \in BOOLEAN : Tick(take, give)

\* The process runs, the clock ticks, and the target neither refuses words nor
\* holds its answer back for ever
Spec ==
    /\ Init /\ [][Next]_vars
    /\ WF_vars(Driver) /\ WF_vars(Interrupt)
    /\ WF_vars(Tick(CanTake, CanGive))
    /\ WF_vars(ZReset("rx")) /\ WF_vars(ZReset("tx")) /\ WF_vars(ZOut) /\ WF_vars(ZIn)

-----------------------------------------------------------------------------
\* Whatever the driver was doing when an earlier process ended, and whatever is
\* dropped and sent again, the target sees each frame whole: every word once, in
\* order, from one message, TLAST with the last and only with that.  TLAST is made
\* of the FIFO running empty.
FrameWhole ==
    LET f == tgt.frame
    IN  f # <<>> =>
          /\ \A k \in 1..Len(f) : f[k] = [m |-> f[1].m, k |-> k - 1, n |-> f[1].n]
          /\ tgt.ended = (Len(f) = 1 + 2 * f[1].n)

\* What xfer() returns is the whole reply to its own message: nothing left in the
\* FIFO by an earlier process, or by an earlier attempt, and no octet missing.
OwnReply ==
    pc = "idle" /\ msg # NoMsg =>
        /\ rx = [k \in 1..(1 + msg.n) |-> [m |-> msg.m, k |-> k - 1, n |-> msg.n]]
        /\ stored = msg.size

\* Between transfers, and after the two resets of a new process, both FIFOs are
\* empty and belong to the side that writes them, the counters agree with that and
\* the interrupt is as it was set up; so nothing of a transfer meets the next one.
FifoClean ==
    pc = "idle" =>
        /\ tgt = Fresh
        /\ kind = "tmem" => /\ <<out, outReg, inp>> = <<<<>>, <<>>, <<>>>>
                            /\ wcntReg = 0 /\ wcntCnt = 0 /\ ~owner
                            /\ ~usrRst /\ ien = useIrq
        /\ kind = "zynq" => zf.tx \o zf.go \o zf.rx = <<>> /\ zf.sta = {} /\ zf.rst = {}

\* A transfer, or the start of a process, comes to its end: no interrupt is lost
\* between the look at the status and wait(), and none stays disabled.
XferReturns == pc \notin {"idle", "down"} ~> pc \in {"idle", "down"}
===============================================================================
