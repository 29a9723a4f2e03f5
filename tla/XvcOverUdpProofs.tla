--------------------------- MODULE XvcOverUdpProofs ---------------------------
(***************************************************************************)
(* Theorems about XvcOverUdp, for every value of its constants.            *)
(***************************************************************************)
EXTENDS XvcOverUdp, TLAPS

\* Taking the first element off a queue.
LEMMA HeadTail ==
    ASSUME NEW S, NEW s \in Seq(S), s # <<>>
    PROVE  /\ Head(s) \in S /\ Tail(s) \in Seq(S)
           /\ Head(s) = s[1] /\ Len(s) \in Nat \ {0}
           /\ Len(Tail(s)) = Len(s) - 1
           /\ \A i \in 1..Len(Tail(s)) : i + 1 \in 1..Len(s) /\ Tail(s)[i] = s[i + 1]
  OBVIOUS

\* Putting a copy of the first element in front of a queue.
LEMMA DupHead ==
    ASSUME NEW S, NEW s \in Seq(S), s # <<>>
    PROVE  /\ <<Head(s)>> \o s \in Seq(S)
           /\ Len(<<Head(s)>> \o s) = Len(s) + 1
           /\ \A i \in 1..(Len(s) + 1) :
                 (<<Head(s)>> \o s)[i] = IF i = 1 THEN s[1] ELSE s[i - 1]
  OBVIOUS

\* Two neighbours change places.
LEMMA SwapType ==
    ASSUME NEW S, NEW s \in Seq(S), NEW i \in 1..(Len(s) - 1)
    PROVE  [s EXCEPT ![i] = s[i + 1], ![i + 1] = s[i]] \in Seq(S)
  OBVIOUS

\* The transaction id stays in its field and never becomes XID_ANY.
LEMMA NewXidType == ASSUME NEW x \in 0..XidMax PROVE newXid(x) \in 1..XidMax
  <1>1. XidMax \in Nat \ {0}
    BY ProtocolAssumption
  <1>2. CASE x = XidMax
    BY <1>1, <1>2 DEF newXid, Increment, XID_ANY
  <1>3. CASE x < XidMax
    BY <1>1, <1>3 DEF newXid, Increment, XID_ANY
  <1>4. QED
    BY <1>1, <1>2, <1>3

\* The low 20 bits hold natural numbers.
LEMMA Low20Nat == Low20 \in Nat
  BY SMT DEF Low20

\* The headers that driver and firmware build are headers.
LEMMA HeaderTypes ==
    /\ mkQuery \in Header
    /\ \A x \in 0..XidMax, len \in Lens : mkShift(x, len) \in Header
    /\ \A h \in Header : setQueryData(h, WordSize, MemDepth, Period) \in Header
    /\ \A h \in Header : setErr(h, ERR_TRUNCATED) \in Header
  <1> USE ProtocolAssumption, DriverAssumption, FirmwareAssumption
          DEF Header, CMD_Q, CMD_S, CMD_E
  <1>1. mkQuery \in Header
    BY DEF mkQuery, XID_ANY
  <1>2. \A x \in 0..XidMax, len \in Lens : mkShift(x, len) \in Header
    BY Low20Nat DEF mkShift
  <1>3. \A h \in Header : setQueryData(h, WordSize, MemDepth, Period) \in Header
    <2>1. MemDepth * 16 + (WordSize - 1) \in Nat
      OBVIOUS
    <2>2. QED
      BY <2>1 DEF setQueryData
  <1>4. \A h \in Header : setErr(h, ERR_TRUNCATED) \in Header
    BY DEF setErr, ERR_TRUNCATED
  <1>5. QED
    BY <1>1, <1>2, <1>3, <1>4

\* What query() reads out of a header has the type of the driver's members.
LEMMA GetterTypes ==
    ASSUME NEW h \in Header
    PROVE  /\ wordSize(h) \in 1..16
           /\ memDepth(h) \in Nat
           /\ NumWords(h) \in Nat
           /\ cvtPerNs(h) \in Nat
  <1>1. h.low \in Nat
    BY DEF Header
  <1>2. wordSize(h) \in 1..16 /\ memDepth(h) \in Nat
    BY <1>1 DEF wordSize, memDepth
  <1>3. WordSize \in 4..16
    BY ProtocolAssumption
  <1>4. NumWords(h) \in Nat
    BY <1>1, <1>3 DEF NumWords, getLen
  <1>5. cvtPerNs(h) \in Nat
    BY CvtAssumption DEF cvtPerNs, UNKNOWN_PERIOD, Header
  <1>6. QED
    BY <1>2, <1>4, <1>5

\* The chunk size of a connection is a natural number.
LEMMA SupVecLenType ==
    ASSUME NEW p, p.wordSize \in 1..16, p.memDepth \in Nat
    PROVE  SupVecLen(p) \in Nat
  <1>1. p.memDepth * p.wordSize \in Nat
    OBVIOUS
  <1>2. TargetVecLen(p) \in Nat
    BY <1>1, DriverAssumption DEF TargetVecLen
  <1>3. getMaxVectorSize(p) \in Nat
    BY DriverAssumption DEF getMaxVectorSize
  <1>4. QED
    BY <1>2, <1>3 DEF SupVecLen

-----------------------------------------------------------------------------
\* What the driver's state is made of, apart from the network and the firmware.
LEMMA QueryType ==
    ASSUME TypeOK, NEW e \in Nat, NEW who \in {"init", "connect", "getinfo"}, Query(who, e)
    PROVE  pc' = "send" /\ call' = who /\ attempt' = 0 /\ cur' \in Requests
  BY HeaderTypes DEF TypeOK, Query, Begin, Requests

\* The request that the firmware is about to handle.
LEMMA RequestHead ==
    ASSUME TypeOK, req # <<>>
    PROVE  /\ Head(req) \in Requests /\ Head(req).hdr \in Header
           /\ Head(req).id \in Nat /\ Head(req).hdr.xid \in 0..XidMax
           /\ Tail(req) \in Seq(Requests)
  <1>1. Head(req) \in Requests /\ Tail(req) \in Seq(Requests)
    BY HeadTail DEF TypeOK
  <1>2. QED
    BY <1>1 DEF Requests, Header

\* The reply that the driver is about to read.
LEMMA ReplyHead ==
    ASSUME TypeOK, rep # <<>>
    PROVE  /\ Head(rep) \in Replies /\ Head(rep).hdr \in Header /\ Head(rep).id \in Nat
           /\ Tail(rep) \in Seq(Replies)
  <1>1. Head(rep) \in Replies /\ Tail(rep) \in Seq(Replies)
    BY HeadTail DEF TypeOK
  <1>2. QED
    BY <1>1 DEF Replies

\* What the transport does to the two queues keeps their types.
LEMMA QueueTypes ==
    ASSUME TypeOK
    PROVE  /\ req # <<>> => Tail(req) \in Seq(Requests) /\ <<Head(req)>> \o req \in Seq(Requests)
           /\ rep # <<>> => Tail(rep) \in Seq(Replies) /\ <<Head(rep)>> \o rep \in Seq(Replies)
           /\ \A i \in 1..(Len(req) - 1) :
                 [req EXCEPT ![i] = req[i + 1], ![i + 1] = req[i]] \in Seq(Requests)
           /\ \A i \in 1..(Len(rep) - 1) :
                 [rep EXCEPT ![i] = rep[i + 1], ![i + 1] = rep[i]] \in Seq(Replies)
  <1>1. req \in Seq(Requests) /\ rep \in Seq(Replies)
    BY DEF TypeOK
  <1>2. QED
    BY <1>1, HeadTail, DupHead, SwapType

\* A reply that the firmware sends leaves a queue of replies.
LEMMA ReplyType ==
    ASSUME TypeOK, NEW m \in Requests, NEW r \in Replies, Reply(m, r)
    PROVE  rep' \in Seq(Replies)
  BY DEF TypeOK, Reply

\* Type correctness: every variable stays in its set, in particular the
\* transaction id in its byte and the driver's view of the target in the
\* ranges of the header fields it is read from.
THEOREM TypeCorrect == Spec => []TypeOK
  <1>1. Init => TypeOK
    <2> SUFFICES ASSUME Init PROVE TypeOK
      OBVIOUS
    <2>1. cur \in Requests
      BY HeaderTypes DEF Init, DrvInit, Requests
    <2>2. par \in [wordSize : 1..16, memDepth : Nat, periodNs : Nat, retry : Nat]
      BY DriverAssumption, ProtocolAssumption DEF Init, DrvInit, ConstructedPar, UNKNOWN_PERIOD
    <2>3. memValid \in BOOLEAN
      BY Zenon DEF Init, FwInit
    <2>4. QED
      BY <2>1, <2>2, <2>3, ProtocolAssumption DEF Init, NetInit, DrvInit, FwInit, TypeOK
  <1>2. ASSUME TypeOK, [Next]_vars PROVE TypeOK'
    <2> USE <1>2
    <2>1. CASE Start /\ UNCHANGED fwVars
      <3>1. epoch + 1 \in Nat /\ ConstructedPar \in
              [wordSize : 1..16, memDepth : Nat, periodNs : Nat, retry : Nat]
        BY DriverAssumption, ProtocolAssumption DEF TypeOK, ConstructedPar, UNKNOWN_PERIOD
      <3>2. pc' = "send" /\ call' = "init" /\ attempt' = 0 /\ cur' \in Requests
        BY <2>1, <3>1, QueryType DEF Start
      <3>3. QED
        BY <2>1, <3>1, <3>2 DEF TypeOK, Start, fwVars
    <2>2. CASE Connect /\ UNCHANGED fwVars
      <3>1. pc' = "send" /\ call' = "connect" /\ attempt' = 0 /\ cur' \in Requests
        BY <2>2, QueryType DEF Connect, TypeOK
      <3>2. QED
        BY <2>2, <3>1 DEF TypeOK, Connect, fwVars, netVars
    <2>3. CASE GetInfo /\ UNCHANGED fwVars
      <3>1. pc' = "send" /\ call' = "getinfo" /\ attempt' = 0 /\ cur' \in Requests
        BY <2>3, QueryType DEF GetInfo, TypeOK
      <3>2. QED
        BY <2>3, <3>1 DEF TypeOK, GetInfo, fwVars, netVars
    <2>4. ASSUME NEW len \in Lens, SendVectors(len), UNCHANGED fwVars PROVE TypeOK'
      <3>1. xid' \in 0..XidMax
        BY <2>4, NewXidType, ProtocolAssumption, SMTT(20) DEF SendVectors, TypeOK
      <3>2. mkShift(xid', len) \in Header
        BY <3>1, HeaderTypes
      <3>3. cur' \in Requests
        BY <2>4, <3>2 DEF SendVectors, Begin, Requests, TypeOK
      <3>4. QED
        BY <2>4, <3>1, <3>3 DEF TypeOK, SendVectors, Begin, fwVars, netVars
    <2>5. CASE Write /\ UNCHANGED fwVars
      BY <2>5 DEF TypeOK, Write, fwVars
    <2>6. CASE PollTimeout /\ UNCHANGED fwVars
      BY <2>6 DEF TypeOK, PollTimeout, NextAttempt, Fault, fwVars
    <2>7. CASE ReplyRejected /\ UNCHANGED fwVars
      BY <2>7 DEF TypeOK, ReplyRejected, fwVars
    <2>8. CASE ReplyStale /\ UNCHANGED fwVars
      BY <2>8 DEF TypeOK, ReplyStale, NextAttempt, fwVars
    <2>9. CASE QueryDone /\ UNCHANGED fwVars
      <3> DEFINE h == Head(rep).hdr
                 p == [wordSize |-> wordSize(h), memDepth |-> memDepth(h), periodNs |-> cvtPerNs(h),
                       retry |-> RetriesFor(memDepth(h))]
                 P == [wordSize : 1..16, memDepth : Nat, periodNs : Nat, retry : Nat]
      <3>1. h \in Header
        BY <2>9, ReplyHead, Zenon DEF QueryDone
      <3>2. wordSize(h) \in 1..16 /\ memDepth(h) \in Nat /\ cvtPerNs(h) \in Nat
        BY <3>1, GetterTypes
      <3>3. p \in P
        BY <3>2, DriverAssumption DEF RetriesFor
      <3>4. SupVecLen(p) \in Nat
        BY <3>2, SupVecLenType
      <3>5. [par EXCEPT !.wordSize = wordSize(h)] \in P
        BY <3>2 DEF TypeOK
      <3>6. par' \in P /\ supVecLen' \in Nat /\ pc' \in {"idle", "down"}
        <4> HIDE DEF P, p, h
        <4>1. CASE wordSize(h) < 4
          BY <2>9, <3>5, <4>1 DEF QueryDone, TypeOK, p, h
        <4>2. CASE ~(wordSize(h) < 4)
          BY <2>9, <3>3, <3>4, <4>2 DEF QueryDone, TypeOK, p, h
        <4>3. QED
          BY <4>1, <4>2
      <3>7. QED
        BY <2>9, <3>6 DEF TypeOK, QueryDone, fwVars
    <2>10. CASE ShiftDone /\ UNCHANGED fwVars
      <3>1. Head(rep).id \in Nat /\ Tail(rep) \in Seq(Replies) /\ cur.id \in Nat
        BY <2>10, ReplyHead DEF ShiftDone, TypeOK, Requests
      <3>2. QED
        BY <2>10, <3>1 DEF TypeOK, ShiftDone, fwVars
    <2>11. CASE SysErr /\ UNCHANGED fwVars
      BY <2>11 DEF TypeOK, SysErr, Fault, fwVars
    <2>12. CASE Kill /\ UNCHANGED fwVars
      BY <2>12 DEF TypeOK, Kill, Fault, fwVars
    <2>13. CASE FwQuery /\ UNCHANGED drvVars
      <3> DEFINE h == setQueryData(Head(req).hdr, WordSize, MemDepth, Period)
      <3>1. Head(req) \in Requests /\ Head(req).hdr \in Header
        BY <2>13, RequestHead DEF FwQuery
      <3>2. HeaderOnly(h) \in Replies
        BY <3>1, HeaderTypes DEF HeaderOnly, Replies
      <3>3. rep' \in Seq(Replies)
        BY <2>13, <3>1, <3>2, ReplyType DEF FwQuery
      <3>4. QED
        <4>1. memValid' \in BOOLEAN
          BY <2>13, Zenon DEF FwQuery
        <4>2. QED
          BY <2>13, <3>3, <4>1, RequestHead DEF TypeOK, FwQuery, drvVars
    <2>14. CASE FwTruncated /\ UNCHANGED drvVars
      <3> DEFINE h == setErr(Head(req).hdr, ERR_TRUNCATED)
      <3>1. Head(req) \in Requests /\ Head(req).hdr \in Header
        BY <2>14, RequestHead DEF FwTruncated
      <3>2. HeaderOnly(h) \in Replies
        BY <3>1, HeaderTypes DEF HeaderOnly, Replies
      <3>3. rep' \in Seq(Replies)
        BY <2>14, <3>1, <3>2, ReplyType DEF FwTruncated
      <3>4. QED
        BY <2>14, <3>3 DEF TypeOK, FwTruncated, drvVars, fwVars
    <2>15. CASE FwExecute /\ UNCHANGED drvVars
      <3> DEFINE m == Head(req)
                 response == [id |-> m.id, words |-> NumWords(m.hdr)]
      <3>1. m \in Requests /\ m.hdr \in Header /\ m.id \in Nat /\ m.hdr.xid \in 0..XidMax
        BY <2>15, RequestHead DEF FwExecute
      <3>2. response \in [id : Nat, words : Nat]
        BY <3>1, GetterTypes
      <3>3. TdoReply(m.hdr, response) \in Replies
        BY <3>1, <3>2 DEF TdoReply, Replies
      <3>4. rep' \in Seq(Replies)
        BY <2>15, <3>1, <3>3, ReplyType DEF FwExecute
      <3>5. QED
        BY <2>15, <3>1, <3>2, <3>4 DEF TypeOK, FwExecute, getXid, drvVars
    <2>16. CASE FwReplay /\ UNCHANGED drvVars
      <3>1. Head(req) \in Requests /\ Head(req).hdr \in Header
        BY <2>16, RequestHead DEF FwReplay
      <3>2. TdoReply(Head(req).hdr, mem) \in Replies
        BY <3>1 DEF TdoReply, Replies, TypeOK
      <3>3. rep' \in Seq(Replies)
        BY <2>16, <3>1, <3>2, ReplyType DEF FwReplay
      <3>4. QED
        BY <2>16, <3>3 DEF TypeOK, FwReplay, drvVars, fwVars
    <2>17. CASE NetFault /\ UNCHANGED <<drvVars, fwVars>>
      <3>1. req' \in Seq(Requests) /\ rep' \in Seq(Replies) /\ faults' \in Nat /\ epoch' = epoch
        <4>0. req \in Seq(Requests) /\ rep \in Seq(Replies) /\ faults \in Nat
          BY DEF TypeOK
        <4>1. CASE LoseReq
          <5>1. Tail(req) \in Seq(Requests)
            BY <4>1, QueueTypes DEF LoseReq
          <5>2. QED
            BY <4>0, <4>1, <5>1 DEF LoseReq, Fault
        <4>2. CASE LoseRep
          <5>1. Tail(rep) \in Seq(Replies)
            BY <4>2, QueueTypes DEF LoseRep
          <5>2. QED
            BY <4>0, <4>2, <5>1 DEF LoseRep, Fault
        <4>3. CASE DupReq
          <5>1. <<Head(req)>> \o req \in Seq(Requests)
            BY <4>3, QueueTypes DEF DupReq
          <5>2. QED
            BY <4>0, <4>3, <5>1 DEF DupReq, Fault
        <4>4. CASE DupRep
          <5>1. <<Head(rep)>> \o rep \in Seq(Replies)
            BY <4>4, QueueTypes DEF DupRep
          <5>2. QED
            BY <4>0, <4>4, <5>1 DEF DupRep, Fault
        <4>5. CASE SwapReq
          <5>1. req' \in Seq(Requests)
            BY <4>5, QueueTypes DEF SwapReq
          <5>2. QED
            BY <4>0, <4>5, <5>1 DEF SwapReq, Fault
        <4>6. CASE SwapRep
          <5>1. rep' \in Seq(Replies)
            BY <4>6, QueueTypes DEF SwapRep
          <5>2. QED
            BY <4>0, <4>6, <5>1 DEF SwapRep, Fault
        <4>7. QED
          BY <2>17, <4>1, <4>2, <4>3, <4>4, <4>5, <4>6 DEF NetFault
      <3>2. QED
        BY <2>17, <3>1 DEF TypeOK, drvVars, fwVars
    <2>18. CASE UNCHANGED vars
      BY <2>18 DEF TypeOK, vars, drvVars, fwVars, netVars
    <2>19. QED
      BY <2>1, <2>2, <2>3, <2>4, <2>5, <2>6, <2>7, <2>8, <2>9, <2>10, <2>11, <2>12,
         <2>13, <2>14, <2>15, <2>16, <2>17, <2>18
      DEF Next, Driver, Calls, Xfer, Firmware
  <1>3. QED
    BY <1>1, <1>2, PTL DEF Spec

-----------------------------------------------------------------------------
\* Requests of the ids that the queue invariant compares.
LEMMA RequestIds ==
    ASSUME NEW m \in Requests
    PROVE  m.id \in Nat /\ m.hdr.cmd \in {CMD_Q, CMD_S, CMD_E} /\ m.hdr.xid \in 0..XidMax
  BY DEF Requests, Header

\* A new request behind all the others.
LEMMA OrderedAppend ==
    ASSUME NEW q \in Seq(Requests), NEW m \in Requests, NEW last \in Nat, NEW valid,
           NEW x, NEW n \in Nat,
           QueueOrdered(q, last, valid, x, n), NewestRequest(m, q, last, valid, x, n)
    PROVE  /\ QueueOrdered(Append(q, m), last, valid, x, n)
           /\ NewestRequest(m, Append(q, m), last, valid, x, n)
  <1> DEFINE p == Append(q, m)
  <1>1. /\ Len(p) = Len(q) + 1 /\ p[Len(p)] = m /\ Len(q) \in Nat
        /\ \A i \in 1..Len(p) : i # Len(p) => i \in 1..Len(q) /\ p[i] = q[i]
    OBVIOUS
  <1> HIDE DEF p
  <1>2. InOrder(m, m) /\ m.id <= n
    BY RequestIds DEF InOrder, NewestRequest
  <1>3. \A i \in 1..Len(p) : p[i].id <= n /\ NotOutdated(p[i], last, valid, x) /\ InOrder(p[i], m)
    BY <1>1, <1>2 DEF QueueOrdered, NewestRequest
  <1>4. \A i, j \in 1..Len(p) : i < j => InOrder(p[i], p[j])
    BY <1>1, <1>3 DEF QueueOrdered
  <1>5. QED
    BY <1>3, <1>4 DEF QueueOrdered, NewestRequest, p

\* The oldest request leaves the queue.
LEMMA OrderedTail ==
    ASSUME NEW q \in Seq(Requests), q # <<>>, NEW last, NEW valid, NEW x, NEW n,
           QueueOrdered(q, last, valid, x, n)
    PROVE  /\ QueueOrdered(Tail(q), last, valid, x, n)
           /\ \A m : NewestRequest(m, q, last, valid, x, n)
                     => NewestRequest(m, Tail(q), last, valid, x, n)
  <1>1. \A i \in 1..Len(Tail(q)) : i + 1 \in 1..Len(q) /\ Tail(q)[i] = q[i + 1]
    BY HeadTail
  <1>2. \A i \in 1..Len(Tail(q)) : i \in Nat
    BY HeadTail
  <1>3. QED
    BY <1>1, <1>2 DEF QueueOrdered, NewestRequest

\* The oldest request is delivered twice.
LEMMA OrderedDup ==
    ASSUME NEW q \in Seq(Requests), q # <<>>, NEW last, NEW valid, NEW x, NEW n,
           QueueOrdered(q, last, valid, x, n)
    PROVE  /\ QueueOrdered(<<Head(q)>> \o q, last, valid, x, n)
           /\ \A m : NewestRequest(m, q, last, valid, x, n)
                     => NewestRequest(m, <<Head(q)>> \o q, last, valid, x, n)
  <1> DEFINE p == <<Head(q)>> \o q
  <1>1. /\ Len(p) = Len(q) + 1 /\ Len(q) \in Nat \ {0}
        /\ \A i \in 1..(Len(q) + 1) : p[i] = IF i = 1 THEN q[1] ELSE q[i - 1]
    BY HeadTail, DupHead
  <1> HIDE DEF p
  <1>2. \A i \in 1..Len(p) : \E k \in 1..Len(q) :
           p[i] = q[k] /\ k = IF i = 1 THEN 1 ELSE i - 1
    BY <1>1
  <1>3. \A k \in 1..Len(q) : InOrder(q[k], q[k])
    <2>1. \A k \in 1..Len(q) : q[k] \in Requests
      OBVIOUS
    <2>2. QED
      BY <2>1, RequestIds DEF InOrder
  <1>4. \A i, j \in 1..Len(p) : i < j => InOrder(p[i], p[j])
    <2> SUFFICES ASSUME NEW i \in 1..Len(p), NEW j \in 1..Len(p), i < j
                 PROVE  InOrder(p[i], p[j])
      OBVIOUS
    <2>1. PICK k \in 1..Len(q) : p[i] = q[k] /\ k = IF i = 1 THEN 1 ELSE i - 1
      BY <1>2
    <2>2. PICK l \in 1..Len(q) : p[j] = q[l] /\ l = IF j = 1 THEN 1 ELSE j - 1
      BY <1>2
    <2>3. k < l \/ k = l
      BY <1>1, <2>1, <2>2
    <2>4. QED
      BY <1>3, <2>1, <2>2, <2>3 DEF QueueOrdered
  <1>5. QED
    BY <1>2, <1>4 DEF QueueOrdered, NewestRequest, p

\* The firmware handles a query: the memory is invalid afterwards, and every
\* shift still in the queue is newer than what was driven.
LEMMA OrderedQuery ==
    ASSUME NEW q \in Seq(Requests), q # <<>>, NEW last \in Nat, NEW valid, NEW x, NEW n \in Nat,
           QueueOrdered(q, last, valid, x, n), ~IsShift(Head(q))
    PROVE  /\ QueueOrdered(Tail(q), last, FALSE, x, n)
           /\ \A m \in Requests : NewestRequest(m, q, last, valid, x, n)
                     => NewestRequest(m, Tail(q), last, FALSE, x, n)
  <1> DEFINE p == Tail(q)
  <1>1. /\ \A i \in 1..Len(p) : i + 1 \in 1..Len(q) /\ p[i] = q[i + 1] /\ 1 < i + 1
        /\ Head(q) = q[1] /\ 1 \in 1..Len(q)
    BY HeadTail
  <1>2. \A i \in 1..Len(q) : q[i] \in Requests /\ q[i].id \in Nat
    BY RequestIds
  <1> HIDE DEF p
  <1>3. ASSUME NEW m \in Requests, InOrder(q[1], m), NotOutdated(m, last, valid, x)
        PROVE  NotOutdated(m, last, FALSE, x)
    <2>1. last <= q[1].id /\ q[1].id \in Nat /\ m.id \in Nat
      BY <1>1, <1>2, <1>3, RequestIds DEF QueueOrdered, NotOutdated
    <2>2. IsShift(m) => last < m.id
      BY <1>1, <1>3, <2>1 DEF InOrder
    <2>3. QED
      BY <1>3, <2>2 DEF NotOutdated
  <1>4. \A i \in 1..Len(p) : NotOutdated(p[i], last, FALSE, x)
    BY <1>1, <1>2, <1>3 DEF QueueOrdered
  <1>5. QueueOrdered(p, last, valid, x, n)
    BY OrderedTail DEF p
  <1>6. QueueOrdered(p, last, FALSE, x, n)
    BY <1>4, <1>5 DEF QueueOrdered
  <1>7. ASSUME NEW m \in Requests, NewestRequest(m, q, last, valid, x, n)
        PROVE  NewestRequest(m, p, last, FALSE, x, n)
    <2>1. NotOutdated(m, last, FALSE, x)
      BY <1>1, <1>3, <1>7 DEF NewestRequest
    <2>2. \A i \in 1..Len(p) : InOrder(p[i], m)
      BY <1>1, <1>7 DEF NewestRequest
    <2>3. QED
      BY <1>7, <2>1, <2>2 DEF NewestRequest
  <1>8. QED
    BY <1>6, <1>7 DEF p

\* The firmware drives a shift: it is newer than all it drove before, and none
\* of the requests behind it is older.
LEMMA OrderedExecute ==
    ASSUME NEW q \in Seq(Requests), q # <<>>, NEW last \in Nat, NEW valid, NEW x, NEW n \in Nat,
           QueueOrdered(q, last, valid, x, n), IsShift(Head(q)),
           ~valid \/ Head(q).hdr.xid # x
    PROVE  /\ last < Head(q).id
           /\ QueueOrdered(Tail(q), Head(q).id, TRUE, Head(q).hdr.xid, n)
           /\ \A m \in Requests : NewestRequest(m, q, last, valid, x, n)
                     => NewestRequest(m, Tail(q), Head(q).id, TRUE, Head(q).hdr.xid, n)
  <1> DEFINE p == Tail(q)
             h == Head(q)
  <1>1. /\ \A i \in 1..Len(p) : i + 1 \in 1..Len(q) /\ p[i] = q[i + 1] /\ 1 < i + 1
        /\ h = q[1] /\ 1 \in 1..Len(q)
    BY HeadTail
  <1>2. h \in Requests /\ h.id \in Nat /\ \A i \in 1..Len(q) : q[i] \in Requests
    BY <1>1, RequestIds
  <1> HIDE DEF p, h
  <1>3. last < h.id
    BY <1>1, <1>2 DEF QueueOrdered, NotOutdated, h
  <1>4. h.id <= n
    BY <1>1 DEF QueueOrdered
  <1>5. ASSUME NEW m \in Requests, InOrder(h, m)
        PROVE  NotOutdated(m, h.id, TRUE, h.hdr.xid)
    <2>1. IsShift(h)
      BY DEF h
    <2>2. QED
      BY <1>5, <2>1, <1>2, RequestIds DEF InOrder, NotOutdated
  <1>6. \A i \in 1..Len(p) : p[i].id <= n /\ NotOutdated(p[i], h.id, TRUE, h.hdr.xid)
    BY <1>1, <1>2, <1>5 DEF QueueOrdered
  <1>7. QueueOrdered(p, last, valid, x, n)
    BY OrderedTail DEF p
  <1>8. QueueOrdered(p, h.id, TRUE, h.hdr.xid, n)
    BY <1>4, <1>6, <1>7 DEF QueueOrdered
  <1>9. ASSUME NEW m \in Requests, NewestRequest(m, q, last, valid, x, n)
        PROVE  NewestRequest(m, p, h.id, TRUE, h.hdr.xid, n)
    <2>1. InOrder(h, m) /\ \A i \in 1..Len(p) : InOrder(p[i], m)
      BY <1>1, <1>9 DEF NewestRequest
    <2>2. QED
      BY <1>5, <1>9, <2>1 DEF NewestRequest
  <1>10. QED
    BY <1>3, <1>8, <1>9 DEF p, h

-----------------------------------------------------------------------------
\* The number of the last shift driven is a natural number.
LEMMA LastTapType == ASSUME TypeOK PROVE LastTap \in Nat
  BY DEF TypeOK, LastTap

\* Steps that leave the requests and the firmware alone and start no call.
LEMMA QuietStep ==
    ASSUME QueueInv, UNCHANGED <<req, fwVars, nShift>>, Busy' => Busy /\ cur' = cur
    PROVE  QueueInv'
  <1>1. LastTap' = LastTap /\ memValid' = memValid /\ fwXid' = fwXid
    BY DEF fwVars, LastTap
  <1>2. QED
    BY <1>1 DEF QueueInv

\* A call of query() is newer than all that was sent before.
LEMMA QueryStep ==
    ASSUME TypeOK, QueueInv, UNCHANGED <<req, fwVars, nShift>>,
           NEW who, NEW e, Query(who, e)
    PROVE  QueueInv'
  <1>1. LastTap' = LastTap /\ memValid' = memValid /\ fwXid' = fwXid
    BY DEF fwVars, LastTap
  <1>2. cur'.id = nShift /\ ~IsShift(cur')
    BY DEF Query, Begin, IsShift, mkQuery, CMD_Q, CMD_S
  <1>3. NewestRequest(cur', req, LastTap, memValid, fwXid, nShift)
    BY <1>2 DEF NewestRequest, NotOutdated, InOrder, QueueInv, QueueOrdered
  <1>4. QED
    BY <1>1, <1>3 DEF QueueInv

\* A call of sendVectors has a number above all that was sent before.
LEMMA ShiftStep ==
    ASSUME TypeOK, QueueInv, NEW len \in Lens, SendVectors(len), UNCHANGED fwVars
    PROVE  QueueInv'
  <1>1. LastTap' = LastTap /\ memValid' = memValid /\ fwXid' = fwXid /\ req' = req
    BY DEF fwVars, LastTap, SendVectors, netVars
  <1>2. cur'.id = nShift + 1 /\ nShift' = nShift + 1 /\ nShift \in Nat
    BY DEF SendVectors, Begin, TypeOK
  <1>3. \A i \in 1..Len(req) : req[i].id \in Nat
    BY RequestIds DEF TypeOK
  <1>4. NewestRequest(cur', req, LastTap, memValid, fwXid, nShift + 1)
    BY <1>2, <1>3, LastTapType DEF NewestRequest, NotOutdated, InOrder, QueueInv, QueueOrdered
  <1>5. QueueOrdered(req, LastTap, memValid, fwXid, nShift + 1)
    BY <1>2, <1>3, LastTapType DEF QueueInv, QueueOrdered
  <1>6. QED
    BY <1>1, <1>2, <1>4, <1>5 DEF QueueInv

\* The oldest request leaves, and the firmware is as before.
LEMMA DropStep ==
    ASSUME TypeOK, QueueInv, req # <<>>, req' = Tail(req), UNCHANGED <<fwVars, nShift, pc, cur>>
    PROVE  QueueInv'
  <1>1. LastTap' = LastTap /\ memValid' = memValid /\ fwXid' = fwXid /\ Busy' = Busy
    BY DEF fwVars, LastTap, Busy
  <1>2. req \in Seq(Requests)
    BY DEF TypeOK
  <1>3. QueueOrdered(Tail(req), LastTap, memValid, fwXid, nShift)
    BY <1>2, OrderedTail DEF QueueInv
  <1>4. Busy => NewestRequest(cur, Tail(req), LastTap, memValid, fwXid, nShift)
    BY <1>2, OrderedTail DEF QueueInv
  <1>5. QED
    BY <1>1, <1>3, <1>4 DEF QueueInv

\* write() puts the current message behind all others.
LEMMA WriteStep ==
    ASSUME TypeOK, QueueInv, Write, UNCHANGED fwVars
    PROVE  QueueInv'
  <1>1. /\ LastTap' = LastTap /\ memValid' = memValid /\ fwXid' = fwXid
        /\ req' = Append(req, cur) /\ cur' = cur /\ nShift' = nShift
    BY DEF fwVars, LastTap, Write
  <1>2. req \in Seq(Requests) /\ cur \in Requests /\ nShift \in Nat /\ LastTap \in Nat
    BY LastTapType DEF TypeOK
  <1>3. /\ QueueOrdered(req, LastTap, memValid, fwXid, nShift)
        /\ NewestRequest(cur, req, LastTap, memValid, fwXid, nShift)
    BY DEF QueueInv, Write, Busy
  <1>4. /\ QueueOrdered(Append(req, cur), LastTap, memValid, fwXid, nShift)
        /\ NewestRequest(cur, Append(req, cur), LastTap, memValid, fwXid, nShift)
    BY <1>2, <1>3, OrderedAppend
  <1>5. QED
    BY <1>1, <1>4 DEF QueueInv

\* The oldest request is delivered twice.
LEMMA DupStep ==
    ASSUME TypeOK, QueueInv, DupReq, UNCHANGED <<drvVars, fwVars>>
    PROVE  QueueInv'
  <1>1. /\ LastTap' = LastTap /\ memValid' = memValid /\ fwXid' = fwXid /\ Busy' = Busy
        /\ cur' = cur /\ nShift' = nShift
        /\ req # <<>> /\ req' = <<Head(req)>> \o req
    BY DEF drvVars, fwVars, LastTap, DupReq, Busy
  <1>2. req \in Seq(Requests)
    BY DEF TypeOK
  <1>3. QueueOrdered(<<Head(req)>> \o req, LastTap, memValid, fwXid, nShift)
    BY <1>1, <1>2, OrderedDup DEF QueueInv
  <1>4. Busy => NewestRequest(cur, <<Head(req)>> \o req, LastTap, memValid, fwXid, nShift)
    BY <1>1, <1>2, OrderedDup DEF QueueInv
  <1>5. QED
    BY <1>1, <1>3, <1>4 DEF QueueInv

\* The firmware answers a query.
LEMMA FwQueryStep ==
    ASSUME TypeOK, QueueInv, FwQuery, UNCHANGED drvVars
    PROVE  QueueInv'
  <1>1. /\ LastTap' = LastTap /\ fwXid' = fwXid /\ Busy' = Busy
        /\ cur' = cur /\ nShift' = nShift /\ req # <<>> /\ req' = Tail(req)
    BY DEF drvVars, LastTap, FwQuery, Busy
  <1>2. memValid' = FALSE
    BY Zenon DEF FwQuery
  <1>3. req \in Seq(Requests) /\ cur \in Requests /\ nShift \in Nat /\ LastTap \in Nat
    BY LastTapType DEF TypeOK
  <1>4. ~IsShift(Head(req))
    BY DEF FwQuery, IsShift, CMD_Q, CMD_S
  <1>5. /\ QueueOrdered(Tail(req), LastTap, FALSE, fwXid, nShift)
        /\ Busy => NewestRequest(cur, Tail(req), LastTap, FALSE, fwXid, nShift)
    BY <1>1, <1>3, <1>4, OrderedQuery DEF QueueInv
  <1>6. QED
    BY <1>1, <1>2, <1>5, Zenon DEF QueueInv

\* The firmware drives a shift, which is newer than all it drove before.
LEMMA FwExecuteStep ==
    ASSUME TypeOK, QueueInv, MemDepth > 0, FwExecute, UNCHANGED drvVars
    PROVE  QueueInv' /\ tap' = Append(tap, Head(req).id) /\ LastTap < Head(req).id
  <1>1. /\ fwXid' = Head(req).hdr.xid /\ Busy' = Busy /\ tap' = Append(tap, Head(req).id)
        /\ cur' = cur /\ nShift' = nShift /\ req # <<>> /\ req' = Tail(req)
    BY DEF drvVars, FwExecute, Busy, getXid
  <1>2. memValid' = TRUE
    <2>1. memValid' = (MemDepth > 0)
      BY Zenon DEF FwExecute
    <2>2. QED
      BY <2>1, Zenon
  <1>3. req \in Seq(Requests) /\ cur \in Requests /\ nShift \in Nat /\ LastTap \in Nat
    BY LastTapType DEF TypeOK
  <1>4. Head(req).id \in Nat
    BY <1>1, RequestHead
  <1>5. LastTap' = Head(req).id
    BY <1>1, <1>4 DEF LastTap, TypeOK
  <1>6. IsShift(Head(req))
    BY DEF FwExecute, IsShift
  <1>7. ~memValid \/ Head(req).hdr.xid # fwXid
    <2>1. MemDepth # 0
      BY FirmwareAssumption
    <2>2. QED
      BY <2>1, Zenon DEF FwExecute, xidIsNew, getXid
  <1>8. /\ LastTap < Head(req).id
        /\ QueueOrdered(Tail(req), Head(req).id, TRUE, Head(req).hdr.xid, nShift)
        /\ Busy => NewestRequest(cur, Tail(req), Head(req).id, TRUE, Head(req).hdr.xid, nShift)
    BY <1>1, <1>3, <1>6, <1>7, OrderedExecute DEF QueueInv
  <1>9. QueueInv'
    BY <1>1, <1>2, <1>5, <1>8, Zenon DEF QueueInv
  <1>10. QED
    BY <1>1, <1>8, <1>9

\* A larger number at the end keeps the order of the shifts driven.
LEMMA AppendLarger ==
    ASSUME TypeOK, AtMostOnceInOrder, NEW n \in Nat, LastTap < n, tap' = Append(tap, n)
    PROVE  AtMostOnceInOrder'
  <1>1. tap \in Seq(Nat)
    BY DEF TypeOK
  <1>2. \A i \in 1..Len(tap) : tap[i] < n
    BY <1>1 DEF AtMostOnceInOrder, LastTap
  <1>3. QED
    BY <1>1, <1>2, SMTT(20) DEF AtMostOnceInOrder

\* One step of the system keeps the queue ordered and drives only newer shifts.
LEMMA QueueStep ==
    ASSUME TypeOK, QueueInv, AtMostOnceInOrder, [Next]_vars, MemDepth > 0, "swap" \notin Faults
    PROVE  QueueInv' /\ AtMostOnceInOrder'
  <1>1. CASE Start /\ UNCHANGED fwVars
    <2>1. UNCHANGED <<req, fwVars, nShift>> /\ Query("init", epoch + 1) /\ tap' = tap
      BY <1>1 DEF Start, fwVars
    <2>2. QED
      BY <2>1, QueryStep DEF AtMostOnceInOrder
  <1>2. CASE (Connect \/ GetInfo) /\ UNCHANGED fwVars
    <2>1. UNCHANGED <<req, fwVars, nShift>> /\ tap' = tap
      BY <1>2 DEF Connect, GetInfo, fwVars, netVars
    <2>2. Query("connect", epoch) \/ Query("getinfo", epoch)
      BY <1>2 DEF Connect, GetInfo
    <2>3. QED
      BY <2>1, <2>2, QueryStep DEF AtMostOnceInOrder
  <1>3. ASSUME NEW len \in Lens, SendVectors(len), UNCHANGED fwVars
        PROVE  QueueInv' /\ AtMostOnceInOrder'
    BY <1>3, ShiftStep DEF AtMostOnceInOrder, fwVars
  <1>4. CASE Write /\ UNCHANGED fwVars
    BY <1>4, WriteStep DEF AtMostOnceInOrder, fwVars
  <1>5. CASE (\/ PollTimeout \/ ReplyRejected \/ ReplyStale \/ QueryDone \/ ShiftDone
              \/ SysErr \/ Kill) /\ UNCHANGED fwVars
    <2>1. UNCHANGED <<req, fwVars, nShift>> /\ tap' = tap
      BY <1>5 DEF PollTimeout, ReplyRejected, ReplyStale, QueryDone, ShiftDone, SysErr, Kill, fwVars
    <2>2. Busy' => Busy /\ cur' = cur
      BY <1>5 DEF PollTimeout, ReplyRejected, ReplyStale, QueryDone, ShiftDone, SysErr, Kill, Busy
    <2>3. QED
      BY <2>1, <2>2, QuietStep DEF AtMostOnceInOrder
  <1>6. CASE FwQuery /\ UNCHANGED drvVars
    BY <1>6, FwQueryStep DEF AtMostOnceInOrder, FwQuery
  <1>7. CASE (FwTruncated \/ FwReplay) /\ UNCHANGED drvVars
    <2>1. /\ req # <<>> /\ req' = Tail(req) /\ UNCHANGED <<fwVars, nShift, pc, cur>>
          /\ tap' = tap
      BY <1>7 DEF FwTruncated, FwReplay, drvVars, fwVars
    <2>2. QED
      BY <2>1, DropStep DEF AtMostOnceInOrder
  <1>8. CASE FwExecute /\ UNCHANGED drvVars
    <2>1. QueueInv' /\ tap' = Append(tap, Head(req).id) /\ LastTap < Head(req).id
      BY <1>8, FwExecuteStep
    <2>2. Head(req).id \in Nat
      BY <1>8, RequestHead DEF FwExecute
    <2>3. QED
      BY <2>1, <2>2, AppendLarger
  <1>9. CASE LoseReq /\ UNCHANGED <<drvVars, fwVars>>
    <2>1. /\ req # <<>> /\ req' = Tail(req) /\ UNCHANGED <<fwVars, nShift, pc, cur>>
          /\ tap' = tap
      BY <1>9 DEF LoseReq, drvVars, fwVars
    <2>2. QED
      BY <2>1, DropStep DEF AtMostOnceInOrder
  <1>10. CASE DupReq /\ UNCHANGED <<drvVars, fwVars>>
    BY <1>10, DupStep DEF AtMostOnceInOrder, fwVars
  <1>11. CASE (LoseRep \/ DupRep) /\ UNCHANGED <<drvVars, fwVars>>
    <2>1. UNCHANGED <<req, fwVars, nShift>> /\ tap' = tap
      BY <1>11 DEF LoseRep, DupRep, drvVars, fwVars
    <2>2. Busy' => Busy /\ cur' = cur
      BY <1>11 DEF drvVars, Busy
    <2>3. QED
      BY <2>1, <2>2, QuietStep DEF AtMostOnceInOrder
  <1>12. CASE SwapReq \/ SwapRep
    BY <1>12 DEF SwapReq, SwapRep, Fault
  <1>13. CASE UNCHANGED vars
    <2>1. UNCHANGED <<req, fwVars, nShift>> /\ tap' = tap
      BY <1>13 DEF vars, drvVars, netVars, fwVars
    <2>2. Busy' => Busy /\ cur' = cur
      BY <1>13 DEF vars, drvVars, Busy
    <2>3. QED
      BY <2>1, <2>2, QuietStep DEF AtMostOnceInOrder
  <1>14. QED
    BY <1>1, <1>2, <1>3, <1>4, <1>5, <1>6, <1>7, <1>8, <1>9, <1>10, <1>11, <1>12, <1>13
    DEF Next, Driver, Calls, Xfer, Firmware, NetFault

\* The invariant on the requests under way: in every reachable state they are
\* in the order of the calls that made them, none is older than what the
\* firmware drove last, and a second copy of that one carries the id that the
\* firmware remembers.
THEOREM QueueInOrder ==
    ASSUME MemDepth > 0, "swap" \notin Faults
    PROVE  Spec => []QueueInv
  <1>1. Init => QueueInv /\ AtMostOnceInOrder
    BY DEF Init, NetInit, DrvInit, FwInit, QueueInv, QueueOrdered, AtMostOnceInOrder,
           LastTap, Busy
  <1>2. TypeOK /\ QueueInv /\ AtMostOnceInOrder /\ [Next]_vars => QueueInv' /\ AtMostOnceInOrder'
    BY QueueStep
  <1>3. QED
    BY <1>1, <1>2, TypeCorrect, PTL DEF Spec

\* For every size of the memory (but none), every width of the transaction id,
\* every number of retries, calls, restarts and faults of a transport that does
\* not reorder: no vectors are driven on JTAG twice or out of order.  The
\* inductive invariant is QueueInv, on the requests still under way.
THEOREM AtMostOnce ==
    ASSUME MemDepth > 0, "swap" \notin Faults
    PROVE  Spec => []AtMostOnceInOrder
  <1>1. Init => QueueInv /\ AtMostOnceInOrder
    BY DEF Init, NetInit, DrvInit, FwInit, QueueInv, QueueOrdered, AtMostOnceInOrder,
           LastTap, Busy
  <1>2. TypeOK /\ QueueInv /\ AtMostOnceInOrder /\ [Next]_vars => QueueInv' /\ AtMostOnceInOrder'
    BY QueueStep
  <1>3. QED
    BY <1>1, <1>2, TypeCorrect, PTL DEF Spec
-----------------------------------------------------------------------------
(* A target without memory drives whatever it is sent; what protects it is *)
(* that the driver sends a shift once, and for that it has to know.        *)

\* The header of the answer to a query
QueryHeader == [cmd |-> CMD_Q, xid |-> Period, low |-> MemDepth * 16 + (WordSize - 1)]

KnownPar == [wordSize |-> WordSize, memDepth |-> MemDepth, periodNs |-> TargetPeriodNs,
             retry |-> RetriesFor(MemDepth)]

\* A shift of the process whose socket is e
OwnShift(m, e) == IsShift(m) /\ m.epoch = e

\* Nothing that a query could take for its answer is under way but such answers
NoShiftUnderWay(q, p, e) ==
    /\ \A i \in 1..Len(q) : ~OwnShift(q[i], e)
    /\ \A i \in 1..Len(p) : p[i].hdr = QueryHeader

\* At most one shift is under way, as a request or as a reply
OneShiftUnderWay(q, p, e) ==
    /\ \A i, j \in 1..Len(q) : OwnShift(q[i], e) /\ OwnShift(q[j], e) => i = j
    /\ \A i, j \in 1..Len(p) : p[i].hdr # QueryHeader /\ p[j].hdr # QueryHeader => i = j
    /\ \A i \in 1..Len(q), j \in 1..Len(p) : OwnShift(q[i], e) => p[j].hdr = QueryHeader

\* The shifts in the queue are newer than what was driven, each in the queue once
ShiftsInOrder(q, last, n) ==
    /\ last <= n
    /\ \A i \in 1..Len(q) : IsShift(q[i]) => last < q[i].id /\ q[i].id <= n
    /\ \A i, j \in 1..Len(q) : IsShift(q[i]) /\ IsShift(q[j]) /\ i < j => q[i].id < q[j].id

\* Shift n was not sent yet
NewShift(q, last, n) == last < n /\ \A i \in 1..Len(q) : IsShift(q[i]) => q[i].id < n

OwnSockets(q, e) == \A i \in 1..Len(q) : q[i].epoch <= e

Shifting == Busy /\ call = "shift"

NoMemInv ==
    /\ OwnSockets(req, epoch)
    /\ ShiftsInOrder(req, LastTap, nShift)
    /\ pc = "idle" \/ Shifting => par = KnownPar
    /\ Busy => cur.epoch = epoch
    /\ Busy /\ call # "shift" => ~IsShift(cur)
    /\ Shifting => IsShift(cur) /\ cur.hdr.xid # XID_ANY /\ cur.id = nShift
    /\ Shifting /\ pc = "send" => NewShift(req, LastTap, nShift)
    /\ Shifting /\ pc = "wait" => OneShiftUnderWay(req, rep, epoch)
    /\ pc # "down" /\ ~(Shifting /\ pc = "wait") => NoShiftUnderWay(req, rep, epoch)

\* An answer to a query is understood as what the target is.
LEMMA KnownParameters ==
    /\ wordSize(QueryHeader) = WordSize /\ memDepth(QueryHeader) = MemDepth
    /\ cvtPerNs(QueryHeader) = TargetPeriodNs
    /\ QueryHeader \in Header /\ getErr(QueryHeader) = 0 /\ QueryHeader.xid = Period
  <1>1. MemDepth \in Nat /\ WordSize \in 4..16 /\ Period \in 0..XidMax
    BY FirmwareAssumption, ProtocolAssumption
  <1>2. QueryHeader.low = MemDepth * 16 + (WordSize - 1) /\ QueryHeader.xid = Period
        /\ QueryHeader.cmd = CMD_Q
    BY DEF QueryHeader
  <1>3. (MemDepth * 16 + (WordSize - 1)) % 16 = WordSize - 1
        /\ (MemDepth * 16 + (WordSize - 1)) \div 16 = MemDepth
        /\ MemDepth * 16 + (WordSize - 1) \in Nat
    BY <1>1
  <1>4. wordSize(QueryHeader) = WordSize /\ memDepth(QueryHeader) = MemDepth
    BY <1>1, <1>2, <1>3 DEF wordSize, memDepth
  <1>5. QueryHeader \in Header
    BY <1>1, <1>3 DEF QueryHeader, Header
  <1>6. QED
    BY <1>2, <1>4, <1>5 DEF cvtPerNs, TargetPeriodNs, getErr, CMD_Q, CMD_E

\* Whatever else a query has in its header, the answer has not.
LEMMA QueryAnswered ==
    ASSUME NEW h \in Header, h.cmd = CMD_Q
    PROVE  setQueryData(h, WordSize, MemDepth, Period) = QueryHeader
  <1> DEFINE r == setQueryData(h, WordSize, MemDepth, Period)
  <1>1. r.cmd = CMD_Q /\ r.xid = Period /\ r.low = MemDepth * 16 + (WordSize - 1)
    BY DEF setQueryData, Header
  <1>2. r \in Header
    BY HeaderTypes
  <1> HIDE DEF r
  <1>3. r = [cmd |-> r.cmd, xid |-> r.xid, low |-> r.low]
    BY <1>2 DEF Header
  <1>4. QED
    BY <1>1, <1>3 DEF QueryHeader, r

\* The requests of a queue have numbers.
LEMMA QueuedNumbers ==
    ASSUME NEW q \in Seq(Requests)
    PROVE  \A i \in 1..Len(q) : q[i].id \in Nat /\ q[i].epoch \in Nat
  <1>1. \A i \in 1..Len(q) : q[i] \in Requests
    OBVIOUS
  <1>2. QED
    BY <1>1 DEF Requests

\* The oldest request, or the oldest reply, is gone.
LEMMA UnderWayTail ==
    ASSUME NEW q \in Seq(Requests), NEW p \in Seq(Replies), NEW e \in Nat
    PROVE  /\ q # <<>> /\ NoShiftUnderWay(q, p, e) => NoShiftUnderWay(Tail(q), p, e)
           /\ q # <<>> /\ OneShiftUnderWay(q, p, e) => OneShiftUnderWay(Tail(q), p, e)
           /\ p # <<>> /\ NoShiftUnderWay(q, p, e) => NoShiftUnderWay(q, Tail(p), e)
           /\ p # <<>> /\ OneShiftUnderWay(q, p, e) => OneShiftUnderWay(q, Tail(p), e)
  <1>1. ASSUME q # <<>>, NoShiftUnderWay(q, p, e) PROVE NoShiftUnderWay(Tail(q), p, e)
    BY <1>1, HeadTail DEF NoShiftUnderWay
  <1>2. ASSUME p # <<>>, NoShiftUnderWay(q, p, e) PROVE NoShiftUnderWay(q, Tail(p), e)
    BY <1>2, HeadTail DEF NoShiftUnderWay
  <1>3. ASSUME q # <<>>, OneShiftUnderWay(q, p, e) PROVE OneShiftUnderWay(Tail(q), p, e)
    <2>1. \A i \in 1..Len(Tail(q)) : i + 1 \in 1..Len(q) /\ Tail(q)[i] = q[i + 1]
      BY <1>3, HeadTail
    <2>2. \A i, j \in 1..Len(Tail(q)) : OwnShift(Tail(q)[i], e) /\ OwnShift(Tail(q)[j], e) => i = j
      <3> SUFFICES ASSUME NEW i \in 1..Len(Tail(q)), NEW j \in 1..Len(Tail(q)),
                          OwnShift(q[i + 1], e), OwnShift(q[j + 1], e)
                   PROVE  i = j
        BY <2>1
      <3>1. i + 1 = j + 1
        BY <1>3, <2>1, Zenon DEF OneShiftUnderWay
      <3>2. QED
        BY <3>1
    <2>3. \A i \in 1..Len(Tail(q)), j \in 1..Len(p) : OwnShift(Tail(q)[i], e) => p[j].hdr = QueryHeader
      BY <1>3, <2>1, Zenon DEF OneShiftUnderWay
    <2>4. QED
      BY <1>3, <2>2, <2>3 DEF OneShiftUnderWay
  <1>4. ASSUME p # <<>>, OneShiftUnderWay(q, p, e) PROVE OneShiftUnderWay(q, Tail(p), e)
    <2>1. \A i \in 1..Len(Tail(p)) : i + 1 \in 1..Len(p) /\ Tail(p)[i] = p[i + 1]
      BY <1>4, HeadTail
    <2>2. \A i, j \in 1..Len(Tail(p)) : Tail(p)[i].hdr # QueryHeader /\ Tail(p)[j].hdr # QueryHeader => i = j
      <3> SUFFICES ASSUME NEW i \in 1..Len(Tail(p)), NEW j \in 1..Len(Tail(p)),
                          p[i + 1].hdr # QueryHeader, p[j + 1].hdr # QueryHeader
                   PROVE  i = j
        BY <2>1
      <3>1. i + 1 = j + 1
        BY <1>4, <2>1, Zenon DEF OneShiftUnderWay
      <3>2. QED
        BY <3>1
    <2>3. \A i \in 1..Len(q), j \in 1..Len(Tail(p)) : OwnShift(q[i], e) => Tail(p)[j].hdr = QueryHeader
      BY <1>4, <2>1, Zenon DEF OneShiftUnderWay
    <2>4. QED
      BY <1>4, <2>2, <2>3 DEF OneShiftUnderWay
  <1>5. QED
    BY <1>1, <1>2, <1>3, <1>4

\* A shift is sent when none is under way, a query when none is.
LEMMA UnderWaySend ==
    ASSUME NEW q \in Seq(Requests), NEW p \in Seq(Replies), NEW e \in Nat, NEW m \in Requests,
           NoShiftUnderWay(q, p, e)
    PROVE  /\ OneShiftUnderWay(Append(q, m), p, e)
           /\ ~IsShift(m) => NoShiftUnderWay(Append(q, m), p, e)
  <1>1. Len(Append(q, m)) = Len(q) + 1 /\ Len(q) \in Nat
        /\ \A i \in 1..(Len(q) + 1) : Append(q, m)[i] = IF i = Len(q) + 1 THEN m ELSE q[i]
    OBVIOUS
  <1>2. \A i \in 1..(Len(q) + 1) : OwnShift(Append(q, m)[i], e) => i = Len(q) + 1
    BY <1>1 DEF NoShiftUnderWay
  <1>3. OneShiftUnderWay(Append(q, m), p, e)
    BY <1>1, <1>2 DEF OneShiftUnderWay, NoShiftUnderWay
  <1>4. ~IsShift(m) => NoShiftUnderWay(Append(q, m), p, e)
    BY <1>1, <1>2 DEF NoShiftUnderWay, OwnShift
  <1>5. QED
    BY <1>3, <1>4

\* The oldest request of this socket is answered: a query by the parameters.
LEMMA UnderWayAnswer ==
    ASSUME NEW q \in Seq(Requests), NEW p \in Seq(Replies), NEW e \in Nat, NEW r \in Replies,
           q # <<>>, Head(q).epoch = e, ~IsShift(Head(q)) => r.hdr = QueryHeader
    PROVE  /\ NoShiftUnderWay(q, p, e) => NoShiftUnderWay(Tail(q), Append(p, r), e)
           /\ OneShiftUnderWay(q, p, e) => OneShiftUnderWay(Tail(q), Append(p, r), e)
  <1>1. Len(Append(p, r)) = Len(p) + 1 /\ Len(p) \in Nat
        /\ \A i \in 1..(Len(p) + 1) : Append(p, r)[i] = IF i = Len(p) + 1 THEN r ELSE p[i]
    OBVIOUS
  <1>2. Head(q) = q[1] /\ 1 \in 1..Len(q)
        /\ \A i \in 1..Len(Tail(q)) : i + 1 \in 1..Len(q) /\ Tail(q)[i] = q[i + 1]
    BY HeadTail
  <1>3. ASSUME NoShiftUnderWay(q, p, e) PROVE NoShiftUnderWay(Tail(q), Append(p, r), e)
    <2>1. ~IsShift(Head(q))
      BY <1>2, <1>3 DEF NoShiftUnderWay, OwnShift
    <2>2. NoShiftUnderWay(Tail(q), p, e)
      BY <1>3, UnderWayTail
    <2>3. QED
      BY <1>1, <2>1, <2>2 DEF NoShiftUnderWay
  <1>4. ASSUME OneShiftUnderWay(q, p, e) PROVE OneShiftUnderWay(Tail(q), Append(p, r), e)
    <2>1. OneShiftUnderWay(Tail(q), p, e)
      BY <1>4, UnderWayTail
    <2>2. CASE ~IsShift(Head(q))
      <3>1. \A i \in 1..(Len(p) + 1) : Append(p, r)[i].hdr # QueryHeader => i \in 1..Len(p)
        BY <1>1, <2>2
      <3>2. QED
        BY <1>1, <2>1, <2>2, <3>1 DEF OneShiftUnderWay
    <2>3. CASE IsShift(Head(q))
      <3>1. \A i \in 1..Len(Tail(q)) : ~OwnShift(Tail(q)[i], e)
        <4> SUFFICES ASSUME NEW i \in 1..Len(Tail(q)), OwnShift(q[i + 1], e) PROVE FALSE
          BY <1>2
        <4>1. OwnShift(q[1], e)
          BY <1>2, <2>3 DEF OwnShift
        <4>2. i + 1 = 1
          BY <1>2, <1>4, <4>1, Zenon DEF OneShiftUnderWay
        <4>3. QED
          BY <4>2
      <3>2. \A i \in 1..Len(p) : p[i].hdr = QueryHeader
        BY <1>2, <1>4, <2>3 DEF OneShiftUnderWay, OwnShift
      <3>3. \A i \in 1..(Len(p) + 1) : Append(p, r)[i].hdr # QueryHeader => i = Len(p) + 1
        BY <1>1, <3>2
      <3>4. QED
        BY <1>1, <3>1, <3>3 DEF OneShiftUnderWay
    <2>4. QED
      BY <2>2, <2>3
  <1>5. QED
    BY <1>3, <1>4

\* The reply to a shift is taken: nothing of that shift is left under way.
LEMMA UnderWayReturn ==
    ASSUME NEW q \in Seq(Requests), NEW p \in Seq(Replies), NEW e \in Nat,
           OneShiftUnderWay(q, p, e), p # <<>>, Head(p).hdr # QueryHeader
    PROVE  NoShiftUnderWay(q, Tail(p), e)
  <1>1. Head(p) = p[1] /\ 1 \in 1..Len(p)
        /\ \A i \in 1..Len(Tail(p)) : i + 1 \in 1..Len(p) /\ Tail(p)[i] = p[i + 1]
    BY HeadTail
  <1>2. \A i \in 1..Len(q) : ~OwnShift(q[i], e)
    BY <1>1 DEF OneShiftUnderWay
  <1>3. ASSUME NEW i \in 1..Len(Tail(p)), p[i + 1].hdr # QueryHeader PROVE FALSE
    <2>1. i + 1 = 1
      BY <1>1, <1>3, Zenon DEF OneShiftUnderWay
    <2>2. QED
      BY <2>1
  <1>4. QED
    BY <1>1, <1>2, <1>3 DEF NoShiftUnderWay

\* None is one at most.
LEMMA NoneIsOne ==
    ASSUME NEW q, NEW p, NEW e, NoShiftUnderWay(q, p, e)
    PROVE  OneShiftUnderWay(q, p, e)
  BY DEF NoShiftUnderWay, OneShiftUnderWay

\* The order of the shifts in the queue, as requests leave it and come to it.
LEMMA ShiftsTail ==
    ASSUME NEW q \in Seq(Requests), q # <<>>, NEW last \in Nat, NEW n \in Nat,
           ShiftsInOrder(q, last, n)
    PROVE  /\ ShiftsInOrder(Tail(q), last, n)
           /\ IsShift(Head(q)) => last < Head(q).id /\ ShiftsInOrder(Tail(q), Head(q).id, n)
  <1>1. Head(q) = q[1] /\ 1 \in 1..Len(q) /\ q[1].id \in Nat
        /\ \A i \in 1..Len(Tail(q)) : i + 1 \in 1..Len(q) /\ Tail(q)[i] = q[i + 1]
    BY HeadTail, QueuedNumbers
  <1>2. \A i, j \in 1..Len(Tail(q)) :
           IsShift(Tail(q)[i]) /\ IsShift(Tail(q)[j]) /\ i < j => Tail(q)[i].id < Tail(q)[j].id
    <2> SUFFICES ASSUME NEW i \in 1..Len(Tail(q)), NEW j \in 1..Len(Tail(q)),
                        IsShift(q[i + 1]), IsShift(q[j + 1]), i < j
                 PROVE  q[i + 1].id < q[j + 1].id
      BY <1>1
    <2>1. i + 1 < j + 1
      OBVIOUS
    <2>2. QED
      BY <1>1, <2>1 DEF ShiftsInOrder
  <1>3. ShiftsInOrder(Tail(q), last, n)
    BY <1>1, <1>2 DEF ShiftsInOrder
  <1>4. ASSUME IsShift(Head(q)) PROVE last < Head(q).id /\ ShiftsInOrder(Tail(q), Head(q).id, n)
    <2>1. \A i \in 1..Len(Tail(q)) : 1 < i + 1
      OBVIOUS
    <2>2. \A i \in 1..Len(Tail(q)) : IsShift(Tail(q)[i]) => Head(q).id < Tail(q)[i].id
      BY <1>1, <1>4, <2>1 DEF ShiftsInOrder
    <2>3. QED
      BY <1>1, <1>2, <1>4, <2>2 DEF ShiftsInOrder
  <1>5. QED
    BY <1>3, <1>4

\* A request is sent: no shift, or a newer one.
LEMMA ShiftsAppend ==
    ASSUME NEW q \in Seq(Requests), NEW m \in Requests, NEW last \in Nat, NEW n \in Nat,
           ShiftsInOrder(q, last, n), IsShift(m) => m.id = n /\ NewShift(q, last, n)
    PROVE  ShiftsInOrder(Append(q, m), last, n)
  <1>1. Len(Append(q, m)) = Len(q) + 1 /\ Len(q) \in Nat
        /\ \A i \in 1..(Len(q) + 1) : Append(q, m)[i] = IF i = Len(q) + 1 THEN m ELSE q[i]
    OBVIOUS
  <1>2. \A i \in 1..Len(q) : q[i].id \in Nat
    BY QueuedNumbers
  <1>3. CASE ~IsShift(m)
    BY <1>1, <1>3 DEF ShiftsInOrder
  <1>4. CASE IsShift(m)
    BY <1>1, <1>2, <1>4 DEF ShiftsInOrder, NewShift
  <1>5. QED
    BY <1>3, <1>4

-----------------------------------------------------------------------------
\* What the two queues and the driver have, for the lemmas above.
LEMMA NoMemTypes ==
    ASSUME TypeOK
    PROVE  /\ req \in Seq(Requests) /\ rep \in Seq(Replies) /\ epoch \in Nat /\ cur \in Requests
           /\ nShift \in Nat /\ LastTap \in Nat /\ faults \in Nat
           /\ pc \in {"down", "idle", "send", "wait"}
  BY LastTapType DEF TypeOK

\* A process that ends owes nothing: the next one has another socket.
LEMMA NoMemDown ==
    ASSUME TypeOK, NoMemInv, UNCHANGED <<req, epoch, nShift, tap>>, pc' = "down"
    PROVE  NoMemInv'
  BY DEF NoMemInv, Busy, Shifting, LastTap

\* A query begins, on this socket or on a new one.
LEMMA NoMemQuery ==
    ASSUME TypeOK, NoMemInv, UNCHANGED <<req, nShift, tap>>,
           NEW who \in {"init", "connect", "getinfo"}, Query(who, epoch'),
           \/ epoch' = epoch /\ rep' = rep /\ pc = "idle"
           \/ epoch' = epoch + 1 /\ rep' = <<>>
    PROVE  NoMemInv'
  <1>1. pc' = "send" /\ call' = who /\ cur'.epoch = epoch' /\ ~IsShift(cur')
    BY DEF Query, Begin, IsShift, mkQuery, CMD_Q, CMD_S
  <1>2. epoch \in Nat /\ \A i \in 1..Len(req) : req[i].epoch \in Nat
    BY NoMemTypes, QueuedNumbers
  <1>3. OwnSockets(req, epoch') /\ NoShiftUnderWay(req, rep', epoch')
    <2>1. CASE epoch' = epoch /\ rep' = rep /\ pc = "idle"
      BY <2>1 DEF NoMemInv, Shifting, Busy
    <2>2. CASE epoch' = epoch + 1 /\ rep' = <<>>
      BY <1>2, <2>2 DEF NoMemInv, OwnSockets, NoShiftUnderWay, OwnShift
    <2>3. QED
      BY <2>1, <2>2
  <1>4. LastTap' = LastTap
    BY DEF LastTap
  <1>5. ~Shifting' /\ pc' # "idle" /\ Busy'
    BY <1>1 DEF Shifting, Busy
  <1>6. ShiftsInOrder(req, LastTap, nShift)
    BY DEF NoMemInv
  <1>7. QED
    BY <1>1, <1>3, <1>4, <1>5, <1>6 DEF NoMemInv

\* A shift begins: its number is new, and so is it to the transport.
LEMMA NoMemShift ==
    ASSUME TypeOK, NoMemInv, NEW len \in Lens, SendVectors(len), tap' = tap
    PROVE  NoMemInv'
  <1>1. /\ pc = "idle" /\ pc' = "send" /\ call' = "shift" /\ nShift' = nShift + 1
        /\ req' = req /\ rep' = rep /\ epoch' = epoch /\ par' = par
        /\ cur'.id = nShift + 1 /\ cur'.epoch = epoch /\ IsShift(cur') /\ cur'.hdr.xid = xid'
    BY DEF SendVectors, Begin, netVars, IsShift, mkShift
  <1>2. xid' # XID_ANY
    BY NewXidType, SMTT(20) DEF SendVectors, TypeOK, XID_ANY
  <1>3. LastTap' = LastTap /\ Shifting' /\ Busy'
    BY <1>1 DEF LastTap, Shifting, Busy
  <1>4. /\ par = KnownPar /\ OwnSockets(req, epoch) /\ NoShiftUnderWay(req, rep, epoch)
        /\ ShiftsInOrder(req, LastTap, nShift)
    BY <1>1 DEF NoMemInv, Shifting, Busy
  <1>5. \A i \in 1..Len(req) : req[i].id \in Nat
    BY NoMemTypes, QueuedNumbers
  <1>6. ShiftsInOrder(req, LastTap, nShift + 1) /\ NewShift(req, LastTap, nShift + 1)
    BY <1>4, <1>5, NoMemTypes DEF ShiftsInOrder, NewShift
  <1>7. QED
    BY <1>1, <1>2, <1>3, <1>4, <1>6 DEF NoMemInv

\* write(): the one copy of a shift, or another of a query.
LEMMA NoMemWrite ==
    ASSUME TypeOK, NoMemInv, Write, tap' = tap
    PROVE  NoMemInv'
  <1>1. /\ pc = "send" /\ pc' = "wait" /\ req' = Append(req, cur)
        /\ UNCHANGED <<call, cur, par, rep, epoch, nShift>>
    BY DEF Write
  <1>2. /\ LastTap' = LastTap /\ Busy /\ Busy' /\ Shifting' = Shifting
    BY <1>1 DEF LastTap, Busy, Shifting
  <1>3. /\ OwnSockets(req, epoch) /\ ShiftsInOrder(req, LastTap, nShift)
        /\ NoShiftUnderWay(req, rep, epoch) /\ cur.epoch = epoch
        /\ IsShift(cur) => cur.id = nShift /\ NewShift(req, LastTap, nShift)
        /\ Shifting => par = KnownPar /\ IsShift(cur) /\ cur.hdr.xid # XID_ANY /\ cur.id = nShift
        /\ ~Shifting => ~IsShift(cur)
    BY <1>1, <1>2 DEF NoMemInv, Shifting
  <1>4. OwnSockets(Append(req, cur), epoch)
    BY <1>3, NoMemTypes DEF OwnSockets
  <1>5. ShiftsInOrder(Append(req, cur), LastTap, nShift)
    BY <1>3, NoMemTypes, ShiftsAppend
  <1>6. /\ OneShiftUnderWay(Append(req, cur), rep, epoch)
        /\ ~IsShift(cur) => NoShiftUnderWay(Append(req, cur), rep, epoch)
    BY <1>3, NoMemTypes, UnderWaySend
  <1>7. /\ call # "shift" => ~Shifting
        /\ ~Shifting => call # "shift"
    BY <1>2 DEF Shifting
  <1>8. QED
    BY <1>1, <1>2, <1>3, <1>4, <1>5, <1>6, <1>7 DEF NoMemInv

\* The oldest request leaves the queue.  Its reply, if the socket is still there,
\* is that of its kind.
LEMMA NoMemRequest ==
    ASSUME TypeOK, NoMemInv, req # <<>>, req' = Tail(req), UNCHANGED <<drvVars, epoch>>,
           \/ rep' = rep
           \/ /\ Head(req).epoch = epoch
              /\ \E r \in Replies : /\ rep' = Append(rep, r)
                                    /\ ~IsShift(Head(req)) => r.hdr = QueryHeader,
           \/ tap' = tap
           \/ IsShift(Head(req)) /\ tap' = Append(tap, Head(req).id)
    PROVE  NoMemInv' /\ (tap' # tap => LastTap < Head(req).id)
  <1>1. UNCHANGED <<pc, call, cur, par, nShift, epoch>> /\ Busy' = Busy /\ Shifting' = Shifting
    BY DEF drvVars, Busy, Shifting
  <1>2. Head(req).id \in Nat /\ Tail(req) \in Seq(Requests)
    BY RequestHead
  <1>3. OwnSockets(Tail(req), epoch)
    BY HeadTail, NoMemTypes DEF NoMemInv, OwnSockets
  <1>4. ShiftsInOrder(req, LastTap, nShift)
    BY DEF NoMemInv
  <1>5. /\ ShiftsInOrder(Tail(req), LastTap, nShift)
        /\ IsShift(Head(req)) => LastTap < Head(req).id /\ ShiftsInOrder(Tail(req), Head(req).id, nShift)
    BY <1>4, NoMemTypes, ShiftsTail
  <1>6. LastTap' = IF tap' = tap THEN LastTap ELSE Head(req).id
    <2>1. CASE tap' = tap
      BY <2>1 DEF LastTap
    <2>2. CASE tap' # tap
      <3>1. tap \in Seq(Nat) /\ tap' = Append(tap, Head(req).id)
        BY <2>2 DEF TypeOK
      <3>2. Len(tap') = Len(tap) + 1 /\ tap' # <<>> /\ tap'[Len(tap) + 1] = Head(req).id
        BY <1>2, <3>1
      <3>3. QED
        BY <2>2, <3>2 DEF LastTap
    <2>3. QED
      BY <2>1, <2>2
  <1>7. ShiftsInOrder(Tail(req), LastTap', nShift) /\ (tap' # tap => LastTap < Head(req).id)
    BY <1>5, <1>6
  <1>8. NewShift(req, LastTap, nShift) => NewShift(Tail(req), LastTap', nShift)
    BY <1>2, <1>6, HeadTail, NoMemTypes DEF NewShift
  <1>9. /\ NoShiftUnderWay(req, rep, epoch) => NoShiftUnderWay(Tail(req), rep', epoch)
        /\ OneShiftUnderWay(req, rep, epoch) => OneShiftUnderWay(Tail(req), rep', epoch)
    <2>1. CASE rep' = rep
      BY <2>1, NoMemTypes, UnderWayTail
    <2>2. ASSUME NEW r \in Replies, rep' = Append(rep, r), Head(req).epoch = epoch,
                 ~IsShift(Head(req)) => r.hdr = QueryHeader
          PROVE  /\ NoShiftUnderWay(req, rep, epoch) => NoShiftUnderWay(Tail(req), rep', epoch)
                 /\ OneShiftUnderWay(req, rep, epoch) => OneShiftUnderWay(Tail(req), rep', epoch)
      BY <2>2, NoMemTypes, UnderWayAnswer
    <2>3. QED
      BY <2>1, <2>2
  <1>10. NoMemInv'
    BY <1>1, <1>3, <1>7, <1>8, <1>9 DEF NoMemInv
  <1>11. QED
    BY <1>7, <1>10

\* A reply leaves the queue and nothing else happens.
LEMMA NoMemLoseRep ==
    ASSUME TypeOK, NoMemInv, rep # <<>>, rep' = Tail(rep), UNCHANGED <<drvVars, req, epoch, tap>>
    PROVE  NoMemInv'
  <1>1. UNCHANGED <<pc, call, cur, par, nShift, epoch, req>> /\ Busy' = Busy /\ Shifting' = Shifting
        /\ LastTap' = LastTap
    BY DEF drvVars, Busy, Shifting, LastTap
  <1>2. /\ NoShiftUnderWay(req, rep, epoch) => NoShiftUnderWay(req, rep', epoch)
        /\ OneShiftUnderWay(req, rep, epoch) => OneShiftUnderWay(req, rep', epoch)
    BY NoMemTypes, UnderWayTail
  <1>3. QED
    BY <1>1, <1>2 DEF NoMemInv

\* The next attempt: of a query only, since a shift is not retried.
LEMMA NoMemAttempt ==
    ASSUME TypeOK, NoMemInv, MemDepth = 0, pc = "wait", NextAttempt,
           UNCHANGED <<call, cur, par, nShift, req, epoch, tap>>,
           rep' = rep \/ (rep # <<>> /\ rep' = Tail(rep))
    PROVE  NoMemInv'
  <1>1. CASE pc' = "down"
    BY <1>1, NoMemDown
  <1>2. CASE pc' = "send" /\ call # "shift"
    <2>1. Busy /\ Busy' /\ ~Shifting /\ ~Shifting' /\ LastTap' = LastTap
      BY <1>2 DEF Busy, Shifting, LastTap
    <2>2. NoShiftUnderWay(req, rep', epoch)
      <3>1. NoShiftUnderWay(req, rep, epoch)
        BY <2>1 DEF NoMemInv
      <3>2. QED
        BY <3>1, NoMemTypes, UnderWayTail
    <2>3. QED
      BY <1>2, <2>1, <2>2 DEF NoMemInv
  <1>3. CASE pc' = "send" /\ call = "shift"
    <2>1. par = KnownPar
      BY <1>3 DEF NoMemInv, Shifting, Busy
    <2>2. par.retry = 0
      BY <2>1 DEF KnownPar, RetriesFor
    <2>3. QED
      BY <1>3, <2>2 DEF NextAttempt, TypeOK
  <1>4. QED
    BY <1>1, <1>2, <1>3 DEF NextAttempt

\* query() takes an answer, and all that it can take is true.
LEMMA NoMemQueryDone ==
    ASSUME TypeOK, NoMemInv, QueryDone, tap' = tap
    PROVE  NoMemInv'
  <1>1. /\ pc = "wait" /\ call # "shift" /\ rep # <<>> /\ rep' = Tail(rep)
        /\ UNCHANGED <<call, cur, nShift, req, epoch>>
    BY DEF QueryDone
  <1>2. Busy /\ ~Shifting /\ LastTap' = LastTap
    BY <1>1 DEF Busy, Shifting, LastTap
  <1>3. NoShiftUnderWay(req, rep, epoch)
    BY <1>1, <1>2 DEF NoMemInv
  <1>4. Head(rep).hdr = QueryHeader
    BY <1>1, <1>3, HeadTail, NoMemTypes DEF NoShiftUnderWay
  <1>5. NoShiftUnderWay(req, rep', epoch)
    BY <1>1, <1>3, NoMemTypes, UnderWayTail
  <1>6. wordSize(Head(rep).hdr) = WordSize /\ memDepth(Head(rep).hdr) = MemDepth
        /\ cvtPerNs(Head(rep).hdr) = TargetPeriodNs /\ ~(wordSize(Head(rep).hdr) < 4)
    BY <1>4, KnownParameters, ProtocolAssumption
  <1>7. pc' = "idle" /\ par' = KnownPar
    BY <1>6 DEF QueryDone, KnownPar
  <1>8. ~Busy' /\ ~Shifting'
    BY <1>7 DEF Busy, Shifting
  <1>9. OwnSockets(req, epoch) /\ ShiftsInOrder(req, LastTap, nShift)
    BY DEF NoMemInv
  <1>10. QED
    BY <1>1, <1>2, <1>5, <1>7, <1>8, <1>9 DEF NoMemInv

\* sendVectors() takes the reply to its shift: no other has that id.
LEMMA NoMemShiftDone ==
    ASSUME TypeOK, NoMemInv, ShiftDone, Period = 0, tap' = tap
    PROVE  NoMemInv'
  <1>1. /\ pc = "wait" /\ call = "shift" /\ rep # <<>> /\ rep' = Tail(rep) /\ pc' = "idle"
        /\ UNCHANGED <<call, cur, par, nShift, req, epoch>>
        /\ getXid(cur.hdr) = XID_ANY \/ getXid(cur.hdr) = getXid(Head(rep).hdr)
    BY DEF ShiftDone, Accepted
  <1>2. Shifting /\ ~Busy' /\ ~Shifting' /\ LastTap' = LastTap
    BY <1>1 DEF Busy, Shifting, LastTap
  <1>3. /\ OneShiftUnderWay(req, rep, epoch) /\ cur.hdr.xid # XID_ANY /\ par = KnownPar
        /\ OwnSockets(req, epoch) /\ ShiftsInOrder(req, LastTap, nShift)
    BY <1>1, <1>2 DEF NoMemInv
  <1>4. Head(rep).hdr.xid # XID_ANY
    BY <1>1, <1>3 DEF getXid
  <1>5. Head(rep).hdr # QueryHeader
    BY <1>4, KnownParameters DEF XID_ANY
  <1>6. NoShiftUnderWay(req, rep', epoch)
    BY <1>1, <1>3, <1>5, NoMemTypes, UnderWayReturn
  <1>7. QED
    BY <1>1, <1>2, <1>3, <1>6 DEF NoMemInv

-----------------------------------------------------------------------------
\* A transport that loses and delays, and processes that are killed, but no
\* copies, no reordering and no failing socket.
PlainFaults == Faults \subseteq {"lose", "late", "kill"}

\* One step of a system whose target has no memory.
LEMMA NoMemStep ==
    ASSUME TypeOK, NoMemInv, AtMostOnceInOrder, [Next]_vars,
           MemDepth = 0, Period = 0, PlainFaults
    PROVE  NoMemInv' /\ AtMostOnceInOrder'
  <1>1. CASE Start /\ UNCHANGED fwVars
    <2>1. /\ UNCHANGED <<req, nShift, tap>> /\ Query("init", epoch') /\ tap' = tap
          /\ epoch' = epoch + 1 /\ rep' = <<>>
      BY <1>1 DEF Start, fwVars
    <2>2. QED
      BY <2>1, NoMemQuery DEF AtMostOnceInOrder
  <1>2. CASE (Connect \/ GetInfo) /\ UNCHANGED fwVars
    <2>1. /\ UNCHANGED <<req, nShift, tap>> /\ tap' = tap
          /\ epoch' = epoch /\ rep' = rep /\ pc = "idle"
      BY <1>2 DEF Connect, GetInfo, fwVars, netVars
    <2>2. Query("connect", epoch') \/ Query("getinfo", epoch')
      BY <1>2, <2>1 DEF Connect, GetInfo
    <2>3. QED
      BY <2>1, <2>2, NoMemQuery DEF AtMostOnceInOrder
  <1>3. ASSUME NEW len \in Lens, SendVectors(len), UNCHANGED fwVars
        PROVE  NoMemInv' /\ AtMostOnceInOrder'
    BY <1>3, NoMemShift DEF AtMostOnceInOrder, fwVars
  <1>4. CASE Write /\ UNCHANGED fwVars
    BY <1>4, NoMemWrite DEF AtMostOnceInOrder, fwVars
  <1>5. CASE (PollTimeout \/ ReplyStale) /\ UNCHANGED fwVars
    <2>1. /\ pc = "wait" /\ NextAttempt /\ UNCHANGED <<call, cur, par, nShift, req, epoch, tap>>
          /\ rep' = rep \/ (rep # <<>> /\ rep' = Tail(rep))
      BY <1>5 DEF PollTimeout, ReplyStale, fwVars
    <2>2. QED
      BY <2>1, NoMemAttempt DEF AtMostOnceInOrder
  <1>6. CASE (ReplyRejected \/ Kill) /\ UNCHANGED fwVars
    <2>1. UNCHANGED <<req, epoch, nShift, tap>> /\ pc' = "down"
      BY <1>6 DEF ReplyRejected, Kill, fwVars
    <2>2. QED
      BY <2>1, NoMemDown DEF AtMostOnceInOrder
  <1>7. CASE QueryDone /\ UNCHANGED fwVars
    BY <1>7, NoMemQueryDone DEF AtMostOnceInOrder, fwVars
  <1>8. CASE ShiftDone /\ UNCHANGED fwVars
    BY <1>8, NoMemShiftDone DEF AtMostOnceInOrder, fwVars
  <1>9. CASE SysErr \/ DupReq \/ DupRep \/ SwapReq \/ SwapRep
    BY <1>9 DEF SysErr, DupReq, DupRep, SwapReq, SwapRep, Fault, PlainFaults
  <1>10. CASE Firmware /\ UNCHANGED drvVars
    <2>1. req # <<>> /\ req' = Tail(req) /\ UNCHANGED <<drvVars, epoch>>
      BY <1>10 DEF Firmware, FwQuery, FwTruncated, FwExecute, FwReplay
    <2>2. Head(req) \in Requests /\ Head(req).hdr \in Header /\ Head(req).id \in Nat
      BY <2>1, RequestHead
    <2>3. /\ tap' = tap \/ (IsShift(Head(req)) /\ tap' = Append(tap, Head(req).id))
      BY <1>10 DEF Firmware, FwQuery, FwTruncated, FwExecute, FwReplay, fwVars, IsShift
    <2>4. \/ rep' = rep
          \/ /\ Head(req).epoch = epoch
             /\ \E r \in Replies : /\ rep' = Append(rep, r)
                                   /\ ~IsShift(Head(req)) => r.hdr = QueryHeader
      <3> DEFINE m == Head(req)
      <3>1. CASE FwQuery
        <4> DEFINE r == HeaderOnly(setQueryData(m.hdr, WordSize, MemDepth, Period))
        <4>1. r \in Replies /\ r.hdr = setQueryData(m.hdr, WordSize, MemDepth, Period)
          BY <2>2, HeaderTypes DEF HeaderOnly, Replies
        <4>2. setQueryData(m.hdr, WordSize, MemDepth, Period) = QueryHeader
          <5>1. m.hdr.cmd = CMD_Q
            BY <3>1 DEF FwQuery
          <5>2. QED
            BY <2>2, <5>1, QueryAnswered
        <4>3. rep' = rep \/ (m.epoch = epoch /\ rep' = Append(rep, r))
          BY <3>1 DEF FwQuery, Reply
        <4> HIDE DEF r
        <4>4. QED
          BY <4>1, <4>2, <4>3
      <3>2. CASE FwTruncated \/ FwExecute \/ FwReplay
        <4>1. IsShift(m)
          BY <3>2 DEF FwTruncated, FwExecute, FwReplay, IsShift
        <4>2. \E r \in Replies : Reply(m, r)
          <5>1. CASE FwTruncated
            <6>1. HeaderOnly(setErr(m.hdr, ERR_TRUNCATED)) \in Replies
              BY <2>2, HeaderTypes DEF HeaderOnly, Replies
            <6>2. QED
              BY <5>1, <6>1 DEF FwTruncated
          <5>2. CASE FwExecute
            <6>1. [id |-> m.id, words |-> NumWords(m.hdr)] \in [id : Nat, words : Nat]
              BY <2>2, GetterTypes
            <6>2. TdoReply(m.hdr, [id |-> m.id, words |-> NumWords(m.hdr)]) \in Replies
              BY <2>2, <6>1 DEF TdoReply, Replies
            <6>3. QED
              BY <5>2, <6>2 DEF FwExecute
          <5>3. CASE FwReplay
            <6>1. TdoReply(m.hdr, mem) \in Replies
              BY <2>2 DEF TdoReply, Replies, TypeOK
            <6>2. QED
              BY <5>3, <6>1 DEF FwReplay
          <5>4. QED
            BY <3>2, <5>1, <5>2, <5>3
        <4>3. QED
          BY <4>1, <4>2 DEF Reply
      <3>3. QED
        BY <1>10, <3>1, <3>2 DEF Firmware
    <2>5. NoMemInv' /\ (tap' # tap => LastTap < Head(req).id)
      BY <2>1, <2>3, <2>4, NoMemRequest
    <2>6. AtMostOnceInOrder'
      BY <2>2, <2>3, <2>5, AppendLarger DEF AtMostOnceInOrder
    <2>7. QED
      BY <2>5, <2>6
  <1>11. CASE LoseReq /\ UNCHANGED <<drvVars, fwVars>>
    <2>1. req # <<>> /\ req' = Tail(req) /\ UNCHANGED <<drvVars, epoch>> /\ rep' = rep /\ tap' = tap
      BY <1>11 DEF LoseReq, fwVars
    <2>2. NoMemInv'
      BY <2>1, NoMemRequest
    <2>3. QED
      BY <2>1, <2>2 DEF AtMostOnceInOrder
  <1>12. CASE LoseRep /\ UNCHANGED <<drvVars, fwVars>>
    BY <1>12, NoMemLoseRep DEF AtMostOnceInOrder, LoseRep, fwVars
  <1>13. CASE UNCHANGED vars
    BY <1>13 DEF vars, drvVars, netVars, fwVars, NoMemInv, AtMostOnceInOrder, Busy, Shifting, LastTap
  <1>14. QED
    BY <1>1, <1>2, <1>3, <1>4, <1>5, <1>6, <1>7, <1>8, <1>9, <1>10, <1>11, <1>12, <1>13
    DEF Next, Driver, Calls, Xfer, NetFault

\* The start of the system.
LEMMA NoMemInit == Init => NoMemInv /\ AtMostOnceInOrder
  BY DEF Init, NetInit, DrvInit, FwInit, NoMemInv, OwnSockets, ShiftsInOrder, Shifting, Busy,
         AtMostOnceInOrder, LastTap

\* A target without memory drives every shift it is sent, and still none is driven
\* twice or out of order: once a query has told the driver, xferRel makes no second
\* attempt (RetriesFor).  For every number of calls, processes, losses and late
\* replies.
THEOREM AtMostOnceNoMemory ==
    ASSUME MemDepth = 0, Period = 0, PlainFaults
    PROVE  Spec => []AtMostOnceInOrder
  <1>1. TypeOK /\ NoMemInv /\ AtMostOnceInOrder /\ [Next]_vars => NoMemInv' /\ AtMostOnceInOrder'
    BY NoMemStep
  <1>2. QED
    BY <1>1, NoMemInit, TypeCorrect, PTL DEF Spec

\* Between two calls the driver's word size, depth, period and number of retries
\* are the target's, although query() takes whatever reply comes first: without
\* retries a shift whose reply is late ends the process, and its socket with it.
THEOREM ParametersTrue ==
    ASSUME MemDepth = 0, Period = 0, PlainFaults
    PROVE  Spec => []TrueParameters
  <1>1. TypeOK /\ NoMemInv /\ AtMostOnceInOrder /\ [Next]_vars => NoMemInv' /\ AtMostOnceInOrder'
    BY NoMemStep
  <1>2. NoMemInv => TrueParameters
    BY DEF NoMemInv, TrueParameters, KnownPar
  <1>3. QED
    BY <1>1, <1>2, NoMemInit, TypeCorrect, PTL DEF Spec
===============================================================================
