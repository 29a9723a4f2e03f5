------------------------------ MODULE XvcOverUdp ------------------------------
(***************************************************************************)
(* The driver and the firmware, talking over an unreliable transport.      *)
(***************************************************************************)
EXTENDS XferRel, AxisToJtagMsg

vars == <<drvVars, fwVars, netVars>>

Init == NetInit /\ DrvInit /\ FwInit

Next ==
    \/ Driver /\ UNCHANGED fwVars
    \/ Firmware /\ UNCHANGED drvVars
    \/ NetFault /\ UNCHANGED <<drvVars, fwVars>>

Spec == Init /\ [][Next]_vars

\* The server's thread keeps running, and the network and the firmware process
\* what reaches them.  Clients, faults and restarts are under no obligation.
FairSpec ==
    /\ Spec
    /\ WF_vars(Xfer /\ UNCHANGED fwVars)
    /\ WF_vars(Firmware /\ UNCHANGED drvVars)

-----------------------------------------------------------------------------
Requests == [hdr : Header, id : Nat, epoch : Nat]
Replies == [hdr : Header, id : Nat, words : Nat]

TypeOK ==
    /\ pc \in {"down", "idle", "send", "wait"}
    /\ call \in {"init", "connect", "getinfo", "shift"}
    /\ cur \in Requests
    /\ attempt \in Nat
    /\ xid \in 0..XidMax
    /\ par \in [wordSize : 1..16, memDepth : Nat, periodNs : Nat, retry : Nat]
    /\ supVecLen \in Nat
    /\ delivered \in [shift : Nat, tdo : Nat, wordSize : 1..16]
    /\ nShift \in Nat /\ nQuery \in Nat /\ nStart \in Nat
    /\ req \in Seq(Requests)
    /\ rep \in Seq(Replies)
    /\ faults \in Nat
    /\ epoch \in Nat
    /\ fwXid \in 0..XidMax
    /\ memValid \in BOOLEAN
    /\ mem \in [id : Nat, words : Nat]
    /\ tap \in Seq(Nat)

\* The vectors of each sendVectors call are driven on JTAG at most once and in
\* the order of the calls, whatever is lost, late, duplicated or restarted
\* (xidIsNew and the memValid flag of AxisToJtag.vhd).
AtMostOnceInOrder == \A i, j \in 1..Len(tap) : i < j => tap[i] < tap[j]

\* Why AtMostOnceInOrder holds without reordering.  The firmware never has to
\* handle a request older than the last shift it drove, and a request for that
\* very shift carries the id it remembers; a query in the queue is older than
\* every shift behind it.
Busy == pc \in {"send", "wait"}
LastTap == IF tap = <<>> THEN 0 ELSE tap[Len(tap)]

IsShift(m) == m.hdr.cmd = CMD_S

InOrder(a, b) ==
    /\ a.id <= b.id
    /\ IsShift(b) /\ ~IsShift(a) => a.id < b.id
    /\ IsShift(b) /\ IsShift(a) /\ a.id = b.id => a.hdr.xid = b.hdr.xid

NotOutdated(m, last, valid, x) ==
    /\ last <= m.id
    /\ IsShift(m) /\ ~valid => last < m.id
    /\ IsShift(m) /\ m.id = last => m.hdr.xid = x

QueueOrdered(q, last, valid, x, n) ==
    /\ last <= n
    /\ \A i \in 1..Len(q) : q[i].id <= n /\ NotOutdated(q[i], last, valid, x)
    /\ \A i, j \in 1..Len(q) : i < j => InOrder(q[i], q[j])

NewestRequest(m, q, last, valid, x, n) ==
    /\ m.id = n
    /\ NotOutdated(m, last, valid, x)
    /\ \A i \in 1..Len(q) : InOrder(q[i], m)

QueueInv ==
    /\ QueueOrdered(req, LastTap, memValid, fwXid, nShift)
    /\ Busy => NewestRequest(cur, req, LastTap, memValid, fwXid, nShift)

\* The TDO that sendVectors returns is the response to the very vectors that it
\* was called with (the transaction id test of xferRel, the replay memory, the
\* reset of memValid by a query).  A driver that has the word size wrong (see
\* TrueParameters) is not held to it.
OwnTdo == delivered.wordSize = WordSize => delivered.tdo = delivered.shift

\* The period of the target's TCK in nanoseconds, as far as it tells
TargetPeriodNs == IF Period = 0 THEN UNKNOWN_PERIOD ELSE CvtTable[Period]

\* Between two calls the driver's idea of the target is the target: its word
\* size, memory depth and period (query takes any reply for an answer).
TrueParameters ==
    pc = "idle" => par = [wordSize |-> WordSize, memDepth |-> MemDepth, periodNs |-> TargetPeriodNs,
                          retry |-> RetriesFor(MemDepth)]

\* A call of the driver returns, however the faults fall, as long as there are
\* no more of them than retries (the loop of xferRel).
CallsReturn == pc \in {"send", "wait"} ~> pc = "idle"

Once == INSTANCE JtagOnce WITH
            issued <- nShift, jtag <- tap, returned <- delivered.shift

\* The whole protocol is an implementation of JtagOnce.
ImplementsOnce == Once!OnceSpec
===============================================================================
