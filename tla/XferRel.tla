------------------------------- MODULE XferRel -------------------------------
(***************************************************************************)
(* The software end of the reliable transfer: JtagDriverAxisToJtag (query, *)
(* sendVectors and the retry loop xferRel, xvcSrv.cc), the UDP transport's *)
(* xfer() below it (xvcDrvUdp.cc) and the calls the XVC server makes on it *)
(* (xvcConn.cc): init() when the process starts, query() when a client     *)
(* connects and when it asks for "getinfo", sendVectors() for a shift.     *)
(* There is one thread, so there is at most one call at a time.            *)
(***************************************************************************)
EXTENDS XvcHeader, XvcNet

CONSTANTS
    Retry,       \* retries of a target that has memory (5)
    Mtu,         \* datagram size the UDP driver allows
    MaxVecLen,   \* server option -M
    Lens,        \* bit counts sendVectors is called with
    MaxShifts, MaxQueries, MaxStarts  \* bounds on the calls and processes

ASSUME DriverAssumption ==
    /\ Retry \in Nat /\ Mtu \in Nat /\ Mtu > 16 /\ MaxVecLen \in Nat \ {0}
    /\ Lens \subseteq 1..Low20
    /\ MaxShifts \in Nat /\ MaxQueries \in Nat /\ MaxStarts \in Nat

VARIABLES
    pc,         \* "down", "idle", or in xferRel: "send" (write), "wait" (poll)
    call,       \* who called: "init", "connect", "getinfo", "shift"
    cur,        \* the message in txBuf_
    attempt,    \* xferRel's loop counter
    xid,        \* xid_
    par,        \* wordSize_, memDepth_, periodNs_ and retry_
    supVecLen,  \* supVecLen_ of the connection, 0 when there is none
    delivered,  \* the last TDO handed to sendVectors' caller
    nShift, nQuery, nStart  \* calls and processes so far

drvVars == <<pc, call, cur, attempt, xid, par, supVecLen, delivered, nShift, nQuery, nStart>>

\* The members as the constructor leaves them; xid_ is not initialised.
ConstructedPar == [wordSize |-> 4, memDepth |-> 1, periodNs |-> UNKNOWN_PERIOD, retry |-> Retry]

DrvInit ==
    /\ pc = "down"
    /\ call = "init"
    /\ cur = [hdr |-> mkQuery, id |-> 0, epoch |-> 0]
    /\ attempt = 0
    /\ xid = 0
    /\ par = ConstructedPar
    /\ supVecLen = 0
    /\ delivered = [shift |-> 0, tdo |-> 0, wordSize |-> WordSize]
    /\ nShift = 0 /\ nQuery = 0 /\ nStart = 0

-----------------------------------------------------------------------------
\* Incremented modulo the width of the id; XID_ANY is stepped over.
\* A mutant of Increment: the counter is wider than the header field
IncrementWide(x) == x + 1
Increment(x) == (x + 1) % (XidMax + 1)
newXid(x) == IF Increment(x) = XID_ANY THEN Increment(Increment(x)) ELSE Increment(x)

\* What XvcConn::allocBufs makes of query()'s answer p: the smaller of what the
\* target and the driver (getMaxVectorSize: two vectors and a header word fit
\* the MTU) support, where 0 stands for no limit.
TargetVecLen(p) == IF p.memDepth * p.wordSize = 0 THEN MaxVecLen ELSE p.memDepth * p.wordSize
getMaxVectorSize(p) == (Mtu - p.wordSize) \div 2
SupVecLen(p) ==
    IF getMaxVectorSize(p) = 0 \/ TargetVecLen(p) < getMaxVectorSize(p)
    THEN TargetVecLen(p) ELSE getMaxVectorSize(p)

\* Enter xferRel with message m
Begin(who, m) ==
    /\ call' = who
    /\ cur' = m
    /\ attempt' = 0
    /\ pc' = "send"

Query(who, e) == Begin(who, [hdr |-> mkQuery, id |-> nShift, epoch |-> e])

\* main(): a new process constructs the driver, on a new socket, and calls init()
Start ==
    /\ pc = "down"
    /\ nStart < MaxStarts
    /\ nStart' = nStart + 1
    /\ epoch' = epoch + 1
    /\ rep' = <<>>
    /\ xid' \in 0..XidMax
    /\ par' = ConstructedPar
    /\ supVecLen' = 0
    /\ Query("init", epoch + 1)
    /\ UNCHANGED <<req, faults, delivered, nShift, nQuery>>

\* XvcServer::run accepts a client; XvcConn::allocBufs queries the target
Connect ==
    /\ pc = "idle"
    /\ nQuery < MaxQueries
    /\ nQuery' = nQuery + 1
    /\ supVecLen' = 0
    /\ Query("connect", epoch)
    /\ UNCHANGED <<xid, par, delivered, nShift, nStart, netVars>>

\* "getinfo" from the client
GetInfo ==
    /\ pc = "idle"
    /\ supVecLen > 0
    /\ nQuery < MaxQueries
    /\ nQuery' = nQuery + 1
    /\ Query("getinfo", epoch)
    /\ UNCHANGED <<xid, par, supVecLen, delivered, nShift, nStart, netVars>>

\* One chunk of a "shift" from the client: sendVectors
SendVectors(len) ==
    /\ pc = "idle"
    /\ len <= 8 * supVecLen
    /\ nShift < MaxShifts
    /\ nShift' = nShift + 1
    /\ xid' = newXid(xid)
    /\ Begin("shift", [hdr |-> mkShift(xid', len), id |-> nShift + 1, epoch |-> epoch])
    /\ UNCHANGED <<par, supVecLen, delivered, nQuery, nStart, netVars>>

-----------------------------------------------------------------------------
\* xfer(): write the datagram, then poll
Write ==
    /\ pc = "send"
    /\ req' = Append(req, cur)
    /\ pc' = "wait"
    /\ UNCHANGED <<call, cur, attempt, xid, par, supVecLen, delivered,
                   nShift, nQuery, nStart, rep, faults, epoch>>

\* A mutant of NextAttempt: the last retry is not made
OneRetryLess ==
    /\ attempt' = attempt + 1
    /\ pc' = IF attempt + 1 < par.retry THEN "send" ELSE "down"

\* The loop's next attempt, or TimeoutErr after the last: nobody catches it and
\* the process ends.
NextAttempt ==
    /\ attempt' = attempt + 1
    /\ pc' = IF attempt < par.retry THEN "send" ELSE "down"

\* xfer() throws TimeoutErr, which xferRel swallows.  Nothing may be under way
\* unless the transport is late.
PollTimeout ==
    /\ pc = "wait"
    /\ \/ req = <<>> /\ rep = <<>> /\ UNCHANGED faults
       \/ (req # <<>> \/ rep # <<>>) /\ Fault("late")
    /\ NextAttempt
    /\ UNCHANGED <<call, cur, xid, par, supVecLen, delivered,
                   nShift, nQuery, nStart, req, rep, epoch>>

\* The next datagram is shorter than the header word the driver expects, or is
\* an error reply: ProtoErr, which nobody catches either.
Rejected(r) == WordSize * (1 + r.words) < par.wordSize \/ getErr(r.hdr) # 0

\* A mutant of Accepted: any reply will do
AcceptAny(r) == TRUE
Accepted(r) == getXid(cur.hdr) = XID_ANY \/ getXid(cur.hdr) = getXid(r.hdr)

ReplyRejected ==
    /\ pc = "wait"
    /\ rep # <<>>
    /\ Rejected(Head(rep))
    /\ rep' = Tail(rep)
    /\ pc' = "down"
    /\ UNCHANGED <<call, cur, attempt, xid, par, supVecLen, delivered,
                   nShift, nQuery, nStart, req, faults, epoch>>

\* Not the id of this transaction: the reply is dropped and the request sent again
ReplyStale ==
    /\ pc = "wait"
    /\ rep # <<>>
    /\ ~Rejected(Head(rep))
    /\ ~Accepted(Head(rep))
    /\ rep' = Tail(rep)
    /\ NextAttempt
    /\ UNCHANGED <<call, cur, xid, par, supVecLen, delivered,
                   nShift, nQuery, nStart, req, faults, epoch>>

\* A mutant of RetriesFor: a target without memory is retried, too
RetriesAlways(depth) == Retry
RetriesFor(depth) == IF depth = 0 THEN 0 ELSE Retry

\* query() stores what the header says; a word size below the header's own is a
\* ProtoErr.  A connection also sizes its chunks from the answer.
QueryDone ==
    /\ pc = "wait"
    /\ call # "shift"
    /\ rep # <<>>
    /\ ~Rejected(Head(rep))
    /\ Accepted(Head(rep))
    /\ LET h == Head(rep).hdr
           p == [wordSize |-> wordSize(h), memDepth |-> memDepth(h), periodNs |-> cvtPerNs(h),
                 retry |-> RetriesFor(memDepth(h))]
       IN  IF wordSize(h) < 4
           THEN /\ pc' = "down"
                /\ par' = [par EXCEPT !.wordSize = wordSize(h)]
                /\ UNCHANGED supVecLen
           ELSE /\ pc' = "idle"
                /\ par' = p
                /\ supVecLen' = IF call = "connect" THEN SupVecLen(p) ELSE supVecLen
    /\ rep' = Tail(rep)
    /\ UNCHANGED <<call, cur, attempt, xid, delivered, nShift, nQuery, nStart,
                   req, faults, epoch>>

\* sendVectors returns the payload as TDO.  A driver with a wrong idea of the
\* word size takes it from the wrong place.
ShiftDone ==
    /\ pc = "wait"
    /\ call = "shift"
    /\ rep # <<>>
    /\ ~Rejected(Head(rep))
    /\ Accepted(Head(rep))
    /\ delivered' = [shift |-> cur.id, tdo |-> Head(rep).id,
                     wordSize |-> par.wordSize]
    /\ pc' = "idle"
    /\ rep' = Tail(rep)
    /\ UNCHANGED <<call, cur, attempt, xid, par, supVecLen, nShift, nQuery, nStart,
                   req, faults, epoch>>

\* A socket call fails.  XvcServer::run closes the connection and waits for the
\* next client; in main()'s init() nobody catches the exception.
SysErr ==
    /\ pc \in {"send", "wait"}
    /\ Fault("syserr")
    /\ pc' = IF call = "init" THEN "down" ELSE "idle"
    /\ supVecLen' = 0
    /\ UNCHANGED <<call, cur, attempt, xid, par, delivered, nShift, nQuery, nStart,
                   req, rep, epoch>>

\* The process is terminated from outside
Kill ==
    /\ pc # "down"
    /\ Fault("kill")
    /\ pc' = "down"
    /\ UNCHANGED <<call, cur, attempt, xid, par, supVecLen, delivered,
                   nShift, nQuery, nStart, req, rep, epoch>>

Xfer == Write \/ PollTimeout \/ ReplyRejected \/ ReplyStale \/ QueryDone \/ ShiftDone

Calls == Connect \/ GetInfo \/ \E len \in Lens : SendVectors(len)

Driver == Start \/ Calls \/ Xfer \/ SysErr \/ Kill
===============================================================================
