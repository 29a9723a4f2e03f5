---------------------------- MODULE XvcOwnTdoProofs ----------------------------
(***************************************************************************)
(* Theorems about the replies of XvcOverUdp: sendVectors returns the TDO   *)
(* of its own vectors, and driver, transport and firmware together         *)
(* implement JtagOnce.  The inductive invariant is ReplyInv.               *)
(***************************************************************************)
EXTENDS XvcOverUdpProofs

\* Why OwnTdo holds without reordering.  Ids count the shifts of a process and
\* step over XID_ANY, so that among XidMax shifts in a row the distance of two
\* ids is the distance of their numbers.  A message that is under way is not
\* older than the last call that returned: fewer than XidMax calls failed since.
FewFailures == nShift < delivered.shift + XidMax

Dist(x, y) == IF y <= x THEN x - y ELSE x + XidMax - y

\* Id x belongs to shift k, if the newest shift is n, has id cx, and lo is the
\* last one that returned
Stamped(k, x, n, cx, lo) ==
    /\ x \in 1..XidMax /\ cx \in 1..XidMax
    /\ lo <= k /\ k <= n
    /\ Dist(cx, x) = n - k

\* m is a shift of the process whose socket is e
ShiftOf(m, e) == IsShift(m) /\ m.epoch = e

RequestsStamped(q, e, n, cx, lo) ==
    /\ \A i \in 1..Len(q) :
          /\ q[i].hdr.cmd \in {CMD_Q, CMD_S}
          /\ q[i].epoch <= e
          /\ ShiftOf(q[i], e) => Stamped(q[i].id, q[i].hdr.xid, n, cx, lo)
    /\ \A i, j \in 1..Len(q) : i < j =>
          /\ q[i].epoch <= q[j].epoch
          /\ ShiftOf(q[i], e) /\ ShiftOf(q[j], e) => q[i].id <= q[j].id

RepliesStamped(p, n, cx, lo) ==
    /\ \A i \in 1..Len(p) :
          /\ p[i].hdr.cmd = CMD_Q => p[i].hdr.xid = XID_ANY
          /\ p[i].hdr.cmd = CMD_E => getErr(p[i].hdr) # 0
          /\ IsShift(p[i]) => Stamped(p[i].id, p[i].hdr.xid, n, cx, lo)
    /\ \A i, j \in 1..Len(p) : i < j /\ IsShift(p[i]) /\ IsShift(p[j]) => p[i].id <= p[j].id

\* Replies were made before the requests still under way are handled
RepliesFirst(p, q, e) ==
    \A i \in 1..Len(p), j \in 1..Len(q) : IsShift(p[i]) /\ ShiftOf(q[j], e) => p[i].id <= q[j].id

\* The firmware has seen the query of the present process' init()
Introduced == call # "init" \/ pc = "idle" \/ rep # <<>>

OwnRequest ==
    /\ cur.epoch = epoch /\ cur.hdr.cmd \in {CMD_Q, CMD_S}
    /\ IsShift(cur) <=> call = "shift"
    /\ IsShift(cur) => cur.id = nShift /\ cur.hdr.xid = xid /\ xid \in 1..XidMax

\* Before the first call behind init() there is no shift of this process; when the
\* firmware has seen it, there are no requests of an older one.
Handover ==
    /\ call = "init" => /\ \A i \in 1..Len(req) : ~ShiftOf(req[i], epoch)
                        /\ \A i \in 1..Len(rep) : ~IsShift(rep[i])
    /\ Introduced => \A i \in 1..Len(req) : req[i].epoch = epoch

\* The memory holds the last shift driven.  If it is valid that is a shift of this
\* process, and it is the newest one if there is a reply to that.
Memory ==
    /\ Introduced /\ memValid => Stamped(mem.id, fwXid, nShift, xid, delivered.shift)
    /\ \A i \in 1..Len(rep) : IsShift(rep[i]) /\ rep[i].id = nShift => mem.id = nShift
    /\ mem.id = LastTap

ReplyInv ==
    /\ RequestsStamped(req, epoch, nShift, xid, delivered.shift)
    /\ RepliesStamped(rep, nShift, xid, delivered.shift)
    /\ RepliesFirst(rep, req, epoch)
    /\ Busy => OwnRequest
    /\ Handover
    /\ Memory
    /\ delivered.shift <= nShift /\ delivered.tdo = delivered.shift

-----------------------------------------------------------------------------
\* A new id is one further away from the ids that are in use, as long as there
\* are ids left.
LEMMA DistNew ==
    ASSUME NEW x \in 1..XidMax, NEW y \in 1..XidMax, NEW d \in Nat,
           Dist(x, y) = d, d + 1 < XidMax
    PROVE  Dist(newXid(x), y) = d + 1
  <1>1. XidMax \in Nat \ {0}
    BY ProtocolAssumption
  <1>2. CASE x = XidMax
    <2>1. newXid(x) = 1
      BY <1>1, <1>2 DEF newXid, Increment, XID_ANY
    <2>2. QED
      BY <1>1, <1>2, <2>1 DEF Dist
  <1>3. CASE x < XidMax
    <2>1. newXid(x) = x + 1
      BY <1>1, <1>3 DEF newXid, Increment, XID_ANY
    <2>2. QED
      BY <1>1, <1>3, <2>1 DEF Dist
  <1>4. QED
    BY <1>1, <1>2, <1>3

\* The newest id belongs to the newest shift only.
LEMMA StampedNewest ==
    ASSUME NEW k \in Nat, NEW x, NEW n \in Nat, NEW cx, NEW lo,
           Stamped(k, x, n, cx, lo)
    PROVE  x = cx <=> k = n
  BY ProtocolAssumption DEF Stamped, Dist

\* An id belongs to one shift.
LEMMA StampedUnique ==
    ASSUME NEW k \in Nat, NEW l \in Nat, NEW x, NEW n \in Nat, NEW cx, NEW lo,
           Stamped(k, x, n, cx, lo), Stamped(l, x, n, cx, lo)
    PROVE  k = l
  BY DEF Stamped

\* A new shift leaves the stamps of the older ones valid.
LEMMA StampedShift ==
    ASSUME NEW k \in Nat, NEW x, NEW n \in Nat, NEW cx, NEW lo \in Nat,
           Stamped(k, x, n, cx, lo), n + 1 < lo + XidMax
    PROVE  Stamped(k, x, n + 1, newXid(cx), lo)
  <1>1. XidMax \in Nat \ {0} /\ cx \in 1..XidMax /\ cx \in 0..XidMax /\ x \in 1..XidMax
    BY ProtocolAssumption DEF Stamped
  <1>2. n - k \in Nat /\ (n - k) + 1 < XidMax /\ Dist(cx, x) = n - k
    BY <1>1 DEF Stamped
  <1>3. Dist(newXid(cx), x) = (n - k) + 1
    BY <1>1, <1>2, DistNew
  <1>4. newXid(cx) \in 1..XidMax
    BY <1>1, NewXidType
  <1>5. QED
    BY <1>1, <1>3, <1>4 DEF Stamped

-----------------------------------------------------------------------------
\* The parts of a request and of a reply.
LEMMA QueueTyped ==
    ASSUME TypeOK
    PROVE  /\ req \in Seq(Requests) /\ rep \in Seq(Replies) /\ cur \in Requests
           /\ nShift \in Nat /\ epoch \in Nat /\ delivered.shift \in Nat /\ xid \in 0..XidMax
           /\ mem.id \in Nat
  BY DEF TypeOK

LEMMA RequestTyped ==
    ASSUME NEW q \in Seq(Requests), NEW i \in 1..Len(q)
    PROVE  q[i] \in Requests /\ q[i].id \in Nat /\ q[i].epoch \in Nat /\ q[i].hdr.xid \in 0..XidMax
  <1>1. q[i] \in Requests
    OBVIOUS
  <1>2. QED
    BY <1>1 DEF Requests, Header

LEMMA ReplyTyped ==
    ASSUME NEW p \in Seq(Replies), NEW i \in 1..Len(p)
    PROVE  p[i] \in Replies /\ p[i].id \in Nat /\ p[i].hdr.xid \in 0..XidMax
  <1>1. p[i] \in Replies
    OBVIOUS
  <1>2. QED
    BY <1>1 DEF Replies, Header

\* The oldest request or reply leaves.
LEMMA StampedTail ==
    ASSUME NEW q \in Seq(Requests), NEW p \in Seq(Replies), NEW e, NEW n, NEW cx, NEW lo
    PROVE  /\ q # <<>> /\ RequestsStamped(q, e, n, cx, lo) => RequestsStamped(Tail(q), e, n, cx, lo)
           /\ p # <<>> /\ RepliesStamped(p, n, cx, lo) => RepliesStamped(Tail(p), n, cx, lo)
           /\ q # <<>> /\ RepliesFirst(p, q, e) => RepliesFirst(p, Tail(q), e)
           /\ p # <<>> /\ RepliesFirst(p, q, e) => RepliesFirst(Tail(p), q, e)
  <1>1. ASSUME q # <<>>
        PROVE  \A i \in 1..Len(Tail(q)) : i + 1 \in 1..Len(q) /\ Tail(q)[i] = q[i + 1]
    BY <1>1, HeadTail
  <1>2. ASSUME p # <<>>
        PROVE  \A i \in 1..Len(Tail(p)) : i + 1 \in 1..Len(p) /\ Tail(p)[i] = p[i + 1]
    BY <1>2, HeadTail
  <1>3. q # <<>> /\ RequestsStamped(q, e, n, cx, lo) => RequestsStamped(Tail(q), e, n, cx, lo)
    BY <1>1 DEF RequestsStamped
  <1>4. p # <<>> /\ RepliesStamped(p, n, cx, lo) => RepliesStamped(Tail(p), n, cx, lo)
    BY <1>2 DEF RepliesStamped
  <1>5. q # <<>> /\ RepliesFirst(p, q, e) => RepliesFirst(p, Tail(q), e)
    BY <1>1 DEF RepliesFirst
  <1>6. p # <<>> /\ RepliesFirst(p, q, e) => RepliesFirst(Tail(p), q, e)
    BY <1>2 DEF RepliesFirst
  <1>7. QED
    BY <1>3, <1>4, <1>5, <1>6

\* The oldest request or reply is delivered twice.
LEMMA StampedDup ==
    ASSUME NEW q \in Seq(Requests), NEW p \in Seq(Replies), NEW e, NEW n, NEW cx, NEW lo
    PROVE  /\ q # <<>> /\ RequestsStamped(q, e, n, cx, lo)
                 => RequestsStamped(<<Head(q)>> \o q, e, n, cx, lo)
           /\ p # <<>> /\ RepliesStamped(p, n, cx, lo) => RepliesStamped(<<Head(p)>> \o p, n, cx, lo)
           /\ q # <<>> /\ RepliesFirst(p, q, e) => RepliesFirst(p, <<Head(q)>> \o q, e)
           /\ p # <<>> /\ RepliesFirst(p, q, e) => RepliesFirst(<<Head(p)>> \o p, q, e)
  <1> DEFINE qq == <<Head(q)>> \o q
             pp == <<Head(p)>> \o p
             was(i) == IF i = 1 THEN 1 ELSE i - 1
  <1>1. ASSUME q # <<>>
        PROVE  \A i \in 1..Len(qq) : was(i) \in 1..Len(q) /\ qq[i] = q[was(i)]
    <2>1. Len(qq) = Len(q) + 1 /\ Len(q) \in Nat \ {0}
      BY <1>1, DupHead, HeadTail
    <2>2. QED
      BY <1>1, <2>1, DupHead
  <1>2. ASSUME p # <<>>
        PROVE  \A i \in 1..Len(pp) : was(i) \in 1..Len(p) /\ pp[i] = p[was(i)]
    <2>1. Len(pp) = Len(p) + 1 /\ Len(p) \in Nat \ {0}
      BY <1>2, DupHead, HeadTail
    <2>2. QED
      BY <1>2, <2>1, DupHead
  <1>3. \A i, j \in Nat : 0 < i /\ i < j => was(i) < was(j) \/ was(i) = was(j)
    OBVIOUS
  <1>4. \A i \in 1..Len(q) : q[i].id \in Nat /\ q[i].epoch \in Nat
    BY RequestTyped
  <1>5. \A i \in 1..Len(p) : p[i].id \in Nat
    BY ReplyTyped
  <1> HIDE DEF qq, pp, was
  <1>6. ASSUME q # <<>>, RequestsStamped(q, e, n, cx, lo)
        PROVE  RequestsStamped(qq, e, n, cx, lo)
    <2>1. ASSUME NEW i \in 1..Len(qq), NEW j \in 1..Len(qq), i < j
          PROVE  /\ qq[i].epoch <= qq[j].epoch
                 /\ ShiftOf(qq[i], e) /\ ShiftOf(qq[j], e) => qq[i].id <= qq[j].id
      <3>1. was(i) < was(j) \/ was(i) = was(j)
        BY <1>3, <2>1
      <3>2. qq[i] = q[was(i)] /\ qq[j] = q[was(j)] /\ was(i) \in 1..Len(q) /\ was(j) \in 1..Len(q)
        BY <1>1, <1>6
      <3>3. CASE was(i) < was(j)
        BY <1>6, <3>2, <3>3 DEF RequestsStamped
      <3>4. CASE was(i) = was(j)
        BY <1>4, <3>2, <3>4
      <3>5. QED
        BY <3>1, <3>3, <3>4
    <2>2. QED
      BY <1>1, <1>6, <2>1 DEF RequestsStamped
  <1>7. ASSUME p # <<>>, RepliesStamped(p, n, cx, lo)
        PROVE  RepliesStamped(pp, n, cx, lo)
    <2>1. ASSUME NEW i \in 1..Len(pp), NEW j \in 1..Len(pp), i < j, IsShift(pp[i]), IsShift(pp[j])
          PROVE  pp[i].id <= pp[j].id
      <3>1. was(i) < was(j) \/ was(i) = was(j)
        BY <1>3, <2>1
      <3>2. pp[i] = p[was(i)] /\ pp[j] = p[was(j)] /\ was(i) \in 1..Len(p) /\ was(j) \in 1..Len(p)
        BY <1>2, <1>7
      <3>3. QED
        BY <1>5, <1>7, <2>1, <3>1, <3>2 DEF RepliesStamped
    <2>2. QED
      BY <1>2, <1>7, <2>1 DEF RepliesStamped
  <1>8. q # <<>> /\ RepliesFirst(p, q, e) => RepliesFirst(p, qq, e)
    BY <1>1 DEF RepliesFirst
  <1>9. p # <<>> /\ RepliesFirst(p, q, e) => RepliesFirst(pp, q, e)
    BY <1>2 DEF RepliesFirst
  <1>10. QED
    BY <1>6, <1>7, <1>8, <1>9 DEF qq, pp

\* write() puts a request of this process, the newest, behind all others.
LEMMA StampedWrite ==
    ASSUME NEW q \in Seq(Requests), NEW p \in Seq(Replies), NEW m \in Requests,
           NEW e \in Nat, NEW n \in Nat, NEW cx, NEW lo \in Nat,
           RequestsStamped(q, e, n, cx, lo), RepliesStamped(p, n, cx, lo), RepliesFirst(p, q, e),
           m.epoch = e, m.hdr.cmd \in {CMD_Q, CMD_S}, lo <= n,
           IsShift(m) => m.id = n /\ m.hdr.xid = cx /\ cx \in 1..XidMax
    PROVE  RequestsStamped(Append(q, m), e, n, cx, lo) /\ RepliesFirst(p, Append(q, m), e)
  <1> DEFINE qq == Append(q, m)
  <1>1. Len(qq) = Len(q) + 1 /\ Len(q) \in Nat
    OBVIOUS
  <1>2. \A i \in 1..Len(qq) : (i \in 1..Len(q) /\ qq[i] = q[i]) \/ (i = Len(q) + 1 /\ qq[i] = m)
    OBVIOUS
  <1> HIDE DEF qq
  <1>3. ShiftOf(m, e) => Stamped(m.id, m.hdr.xid, n, cx, lo)
    BY ProtocolAssumption DEF Stamped, Dist, ShiftOf
  <1>4. \A i \in 1..Len(q) : ShiftOf(q[i], e) => q[i].id <= n
    BY DEF RequestsStamped, Stamped
  <1>5. \A i \in 1..Len(p) : IsShift(p[i]) => p[i].id <= n
    BY DEF RepliesStamped, Stamped
  <1>6. \A i \in 1..Len(qq) :
          /\ qq[i].hdr.cmd \in {CMD_Q, CMD_S}
          /\ qq[i].epoch <= e
          /\ ShiftOf(qq[i], e) => Stamped(qq[i].id, qq[i].hdr.xid, n, cx, lo)
    <2> SUFFICES ASSUME NEW i \in 1..Len(qq)
                 PROVE  /\ qq[i].hdr.cmd \in {CMD_Q, CMD_S}
                        /\ qq[i].epoch <= e
                        /\ ShiftOf(qq[i], e) => Stamped(qq[i].id, qq[i].hdr.xid, n, cx, lo)
      OBVIOUS
    <2>1. CASE i \in 1..Len(q) /\ qq[i] = q[i]
      BY <2>1 DEF RequestsStamped
    <2>2. CASE qq[i] = m
      BY <1>3, <2>2
    <2>3. QED
      BY <1>2, <2>1, <2>2
  <1>7. \A i, j \in 1..Len(qq) : i < j =>
          /\ qq[i].epoch <= qq[j].epoch
          /\ ShiftOf(qq[i], e) /\ ShiftOf(qq[j], e) => qq[i].id <= qq[j].id
    <2> SUFFICES ASSUME NEW i \in 1..Len(qq), NEW j \in 1..Len(qq), i < j
                 PROVE  /\ qq[i].epoch <= qq[j].epoch
                        /\ ShiftOf(qq[i], e) /\ ShiftOf(qq[j], e) => qq[i].id <= qq[j].id
      OBVIOUS
    <2>1. i \in 1..Len(q) /\ qq[i] = q[i]
      BY <1>1, <1>2
    <2>2. CASE j \in 1..Len(q) /\ qq[j] = q[j]
      BY <2>1, <2>2 DEF RequestsStamped
    <2>3. CASE qq[j] = m
      BY <1>4, <2>1, <2>3 DEF RequestsStamped, ShiftOf
    <2>4. QED
      BY <1>2, <2>2, <2>3
  <1>8. RepliesFirst(p, qq, e)
    BY <1>2, <1>5 DEF RepliesFirst, ShiftOf
  <1>9. QED
    BY <1>6, <1>7, <1>8 DEF RequestsStamped, qq

\* The firmware answers the oldest request: the reply r has its number, or is no
\* reply to a shift.
LEMMA StampedReply ==
    ASSUME NEW q \in Seq(Requests), q # <<>>, NEW p \in Seq(Replies), NEW r \in Replies,
           NEW e, NEW n \in Nat, NEW cx, NEW lo \in Nat,
           RequestsStamped(q, e, n, cx, lo), RepliesStamped(p, n, cx, lo), RepliesFirst(p, q, e),
           r.hdr.cmd = CMD_Q => r.hdr.xid = XID_ANY,
           r.hdr.cmd = CMD_E => getErr(r.hdr) # 0,
           IsShift(r) => ShiftOf(Head(q), e) /\ r.id = Head(q).id /\ r.hdr.xid = Head(q).hdr.xid
    PROVE  /\ RequestsStamped(Tail(q), e, n, cx, lo)
           /\ RepliesStamped(Append(p, r), n, cx, lo)
           /\ RepliesFirst(Append(p, r), Tail(q), e)
  <1> DEFINE pp == Append(p, r)
             qq == Tail(q)
  <1>1. Len(pp) = Len(p) + 1 /\ Len(p) \in Nat
    OBVIOUS
  <1>2. \A i \in 1..Len(pp) : (i \in 1..Len(p) /\ pp[i] = p[i]) \/ (i = Len(p) + 1 /\ pp[i] = r)
    OBVIOUS
  <1>3. /\ Head(q) = q[1] /\ 1 \in 1..Len(q)
        /\ \A i \in 1..Len(qq) : i + 1 \in 1..Len(q) /\ qq[i] = q[i + 1] /\ 1 < i + 1
    BY HeadTail
  <1> HIDE DEF pp, qq
  <1>4. RequestsStamped(qq, e, n, cx, lo)
    BY StampedTail DEF qq
  <1>5. IsShift(r) => Stamped(r.id, r.hdr.xid, n, cx, lo)
    BY <1>3 DEF RequestsStamped
  <1>6. \A i \in 1..Len(p) : IsShift(p[i]) /\ IsShift(r) => p[i].id <= r.id
    BY <1>3 DEF RepliesFirst
  <1>7. \A i \in 1..Len(qq) : IsShift(r) /\ ShiftOf(qq[i], e) => r.id <= qq[i].id
    BY <1>3 DEF RequestsStamped
  <1>8. \A i \in 1..Len(pp) :
          /\ pp[i].hdr.cmd = CMD_Q => pp[i].hdr.xid = XID_ANY
          /\ pp[i].hdr.cmd = CMD_E => getErr(pp[i].hdr) # 0
          /\ IsShift(pp[i]) => Stamped(pp[i].id, pp[i].hdr.xid, n, cx, lo)
    <2> SUFFICES ASSUME NEW i \in 1..Len(pp)
                 PROVE  /\ pp[i].hdr.cmd = CMD_Q => pp[i].hdr.xid = XID_ANY
                        /\ pp[i].hdr.cmd = CMD_E => getErr(pp[i].hdr) # 0
                        /\ IsShift(pp[i]) => Stamped(pp[i].id, pp[i].hdr.xid, n, cx, lo)
      OBVIOUS
    <2>1. CASE i \in 1..Len(p) /\ pp[i] = p[i]
      BY <2>1 DEF RepliesStamped
    <2>2. CASE pp[i] = r
      BY <1>5, <2>2
    <2>3. QED
      BY <1>2, <2>1, <2>2
  <1>9. \A i, j \in 1..Len(pp) : i < j /\ IsShift(pp[i]) /\ IsShift(pp[j]) => pp[i].id <= pp[j].id
    BY <1>1, <1>2, <1>6 DEF RepliesStamped
  <1>10. RepliesFirst(p, qq, e)
    BY StampedTail DEF qq
  <1>11. RepliesFirst(pp, qq, e)
    BY <1>2, <1>7, <1>10 DEF RepliesFirst
  <1>12. QED
    BY <1>4, <1>8, <1>9, <1>11 DEF RepliesStamped, pp, qq

\* sendVectors takes the next id.
LEMMA StampedNext ==
    ASSUME NEW q \in Seq(Requests), NEW p \in Seq(Replies), NEW e, NEW n \in Nat, NEW cx,
           NEW lo \in Nat, RequestsStamped(q, e, n, cx, lo), RepliesStamped(p, n, cx, lo),
           n + 1 < lo + XidMax
    PROVE  /\ RequestsStamped(q, e, n + 1, newXid(cx), lo)
           /\ RepliesStamped(p, n + 1, newXid(cx), lo)
  <1>1. \A i \in 1..Len(q) :
           ShiftOf(q[i], e) => Stamped(q[i].id, q[i].hdr.xid, n + 1, newXid(cx), lo)
    BY RequestTyped, StampedShift DEF RequestsStamped
  <1>2. \A i \in 1..Len(p) :
           IsShift(p[i]) => Stamped(p[i].id, p[i].hdr.xid, n + 1, newXid(cx), lo)
    BY ReplyTyped, StampedShift DEF RepliesStamped
  <1>3. RequestsStamped(q, e, n + 1, newXid(cx), lo)
    BY <1>1 DEF RequestsStamped
  <1>4. RepliesStamped(p, n + 1, newXid(cx), lo)
    BY <1>2 DEF RepliesStamped
  <1>5. QED
    BY <1>3, <1>4

\* The newest shift returns: what is still under way belongs to it.
LEMMA StampedReturn ==
    ASSUME NEW q \in Seq(Requests), NEW p \in Seq(Replies), p # <<>>, NEW e, NEW n \in Nat,
           NEW cx, NEW lo \in Nat,
           RequestsStamped(q, e, n, cx, lo), RepliesStamped(p, n, cx, lo), RepliesFirst(p, q, e),
           IsShift(Head(p)), Head(p).id = n
    PROVE  RequestsStamped(q, e, n, cx, n) /\ RepliesStamped(Tail(p), n, cx, n)
  <1> DEFINE pp == Tail(p)
  <1>1. /\ Head(p) = p[1] /\ 1 \in 1..Len(p)
        /\ \A i \in 1..Len(pp) : i + 1 \in 1..Len(p) /\ pp[i] = p[i + 1] /\ 1 < i + 1
    BY HeadTail
  <1>2. \A i \in 1..Len(q) : ShiftOf(q[i], e) => n <= q[i].id
    BY <1>1 DEF RepliesFirst
  <1>3. \A i \in 1..Len(pp) : IsShift(pp[i]) => n <= pp[i].id
    BY <1>1 DEF RepliesStamped
  <1>4. RepliesStamped(pp, n, cx, lo)
    BY StampedTail
  <1> HIDE DEF pp
  <1>5. RequestsStamped(q, e, n, cx, n)
    BY <1>2 DEF RequestsStamped, Stamped
  <1>6. RepliesStamped(pp, n, cx, n)
    BY <1>3, <1>4 DEF RepliesStamped, Stamped
  <1>7. QED
    BY <1>5, <1>6 DEF pp

-----------------------------------------------------------------------------
\* What a step does to the replies that moves none of the other state on.
RepliesMove ==
    \/ rep' = rep
    \/ rep # <<>> /\ rep' = Tail(rep)
    \/ rep # <<>> /\ rep' = <<Head(rep)>> \o rep

\* Every reply after such a step was there before.
LEMMA OldReplies ==
    ASSUME TypeOK, RepliesMove
    PROVE  \A i \in 1..Len(rep') : \E j \in 1..Len(rep) : rep'[i] = rep[j]
  <1>1. rep \in Seq(Replies)
    BY QueueTyped
  <1>2. CASE rep' = rep
    BY <1>2
  <1>3. CASE rep # <<>> /\ rep' = Tail(rep)
    BY <1>1, <1>3, HeadTail
  <1>4. CASE rep # <<>> /\ rep' = <<Head(rep)>> \o rep
    <2>1. /\ Len(rep') = Len(rep) + 1 /\ Len(rep) \in Nat \ {0}
          /\ \A i \in 1..(Len(rep) + 1) : rep'[i] = IF i = 1 THEN rep[1] ELSE rep[i - 1]
      BY <1>1, <1>4, DupHead, HeadTail
    <2>2. QED
      BY <2>1
  <1>5. QED
    BY <1>2, <1>3, <1>4 DEF RepliesMove

\* Steps that start no call, write nothing and leave the firmware alone.
LEMMA RepliesStep ==
    ASSUME TypeOK, ReplyInv, RepliesMove,
           UNCHANGED <<req, fwVars, nShift, xid, delivered, epoch, call, cur>>,
           Busy' => Busy, Introduced' => Introduced
    PROVE  ReplyInv'
  <1>1. rep \in Seq(Replies) /\ req \in Seq(Requests)
    BY QueueTyped
  <1>2. fwXid' = fwXid /\ memValid' = memValid /\ mem' = mem /\ LastTap' = LastTap
    BY DEF fwVars, LastTap
  <1>3. /\ RepliesStamped(rep', nShift, xid, delivered.shift)
        /\ RepliesFirst(rep', req, epoch)
    BY <1>1, StampedTail, StampedDup DEF ReplyInv, RepliesMove
  <1>4. Handover'
    BY OldReplies DEF ReplyInv, Handover
  <1>5. Memory'
    BY <1>2, OldReplies DEF ReplyInv, Memory
  <1>6. (Busy => OwnRequest)'
    BY DEF ReplyInv, OwnRequest
  <1>7. QED
    BY <1>3, <1>4, <1>5, <1>6 DEF ReplyInv

\* A connection or a client's "getinfo" calls query().
LEMMA QueryCallStep ==
    ASSUME TypeOK, ReplyInv, (Connect \/ GetInfo) /\ UNCHANGED fwVars
    PROVE  ReplyInv'
  <1>1. /\ UNCHANGED <<req, rep, epoch, nShift, xid, delivered>>
        /\ pc = "idle" /\ pc' = "send" /\ call' \in {"connect", "getinfo"}
        /\ cur' = [hdr |-> mkQuery, id |-> nShift, epoch |-> epoch]
    BY DEF Connect, GetInfo, Query, Begin, netVars
  <1>2. fwXid' = fwXid /\ memValid' = memValid /\ mem' = mem /\ LastTap' = LastTap
    BY DEF fwVars, LastTap
  <1>3. OwnRequest'
    BY <1>1 DEF OwnRequest, IsShift, mkQuery, CMD_Q, CMD_S
  <1>4. Introduced
    BY <1>1 DEF Introduced
  <1>5. Handover'
    BY <1>1, <1>4 DEF ReplyInv, Handover
  <1>6. Memory'
    BY <1>1, <1>2, <1>4 DEF ReplyInv, Memory
  <1>7. QED
    BY <1>1, <1>3, <1>5, <1>6 DEF ReplyInv

\* A new process: none of the requests under way is from it, and the replies to
\* its predecessor are gone.
LEMMA StartStep ==
    ASSUME TypeOK, ReplyInv, Start /\ UNCHANGED fwVars
    PROVE  ReplyInv'
  <1>1. /\ UNCHANGED <<req, nShift, delivered>> /\ rep' = <<>> /\ epoch' = epoch + 1
        /\ pc' = "send" /\ call' = "init"
        /\ cur' = [hdr |-> mkQuery, id |-> nShift, epoch |-> epoch + 1]
    BY DEF Start, Query, Begin
  <1>2. mem' = mem /\ LastTap' = LastTap
    BY DEF fwVars, LastTap
  <1>3. OwnRequest'
    BY <1>1 DEF OwnRequest, IsShift, mkQuery, CMD_Q, CMD_S
  <1>4. ~Introduced'
    BY <1>1 DEF Introduced
  <1>5. epoch \in Nat /\ \A i \in 1..Len(req) : req[i].epoch \in Nat /\ req[i].epoch <= epoch
    BY QueueTyped, RequestTyped DEF ReplyInv, RequestsStamped
  <1>6. \A i \in 1..Len(req) : ~ShiftOf(req[i], epoch + 1) /\ req[i].epoch <= epoch + 1
    BY <1>5 DEF ShiftOf
  <1>7. RequestsStamped(req, epoch + 1, nShift, xid', delivered.shift)
    BY <1>6 DEF ReplyInv, RequestsStamped
  <1>8. RepliesStamped(rep', nShift, xid', delivered.shift) /\ RepliesFirst(rep', req, epoch + 1)
    BY <1>1 DEF RepliesStamped, RepliesFirst
  <1>9. Handover'
    BY <1>1, <1>4, <1>6 DEF Handover
  <1>10. Memory'
    BY <1>1, <1>2, <1>4 DEF ReplyInv, Memory
  <1>11. QED
    BY <1>1, <1>3, <1>7, <1>8, <1>9, <1>10 DEF ReplyInv

\* sendVectors is called; there are ids left.
LEMMA SendStep ==
    ASSUME TypeOK, ReplyInv, NEW len \in Lens, SendVectors(len) /\ UNCHANGED fwVars, FewFailures'
    PROVE  ReplyInv'
  <1>1. /\ UNCHANGED <<req, rep, epoch, delivered>> /\ nShift' = nShift + 1 /\ xid' = newXid(xid)
        /\ pc = "idle" /\ pc' = "send" /\ call' = "shift"
        /\ cur' = [hdr |-> mkShift(xid', len), id |-> nShift + 1, epoch |-> epoch]
    BY DEF SendVectors, Begin, netVars
  <1>2. fwXid' = fwXid /\ memValid' = memValid /\ mem' = mem /\ LastTap' = LastTap
    BY DEF fwVars, LastTap
  <1>3. /\ req \in Seq(Requests) /\ rep \in Seq(Replies) /\ nShift \in Nat /\ delivered.shift \in Nat
        /\ mem.id \in Nat /\ xid' \in 1..XidMax
    BY <1>1, QueueTyped, NewXidType
  <1>4. nShift + 1 < delivered.shift + XidMax
    BY <1>1 DEF FewFailures
  <1>5. /\ RequestsStamped(req, epoch, nShift + 1, newXid(xid), delivered.shift)
        /\ RepliesStamped(rep, nShift + 1, newXid(xid), delivered.shift)
    BY <1>3, <1>4, StampedNext DEF ReplyInv
  <1>6. OwnRequest'
    BY <1>1, <1>3 DEF OwnRequest, IsShift, mkShift, CMD_Q, CMD_S
  <1>7. Introduced
    BY <1>1 DEF Introduced
  <1>8. Handover'
    BY <1>1, <1>7 DEF ReplyInv, Handover
  <1>9. Memory'
    <2>1. memValid => Stamped(mem.id, fwXid, nShift + 1, newXid(xid), delivered.shift)
      BY <1>3, <1>4, <1>7, StampedShift DEF ReplyInv, Memory
    <2>2. \A i \in 1..Len(rep) : IsShift(rep[i]) => rep[i].id <= nShift /\ rep[i].id \in Nat
      BY <1>3, ReplyTyped DEF ReplyInv, RepliesStamped, Stamped
    <2>3. \A i \in 1..Len(rep) : ~(IsShift(rep[i]) /\ rep[i].id = nShift + 1)
      BY <1>3, <2>2
    <2>4. QED
      BY <1>1, <1>2, <2>1, <2>3 DEF ReplyInv, Memory
  <1>10. QED
    BY <1>1, <1>3, <1>5, <1>6, <1>8, <1>9 DEF ReplyInv

\* write() sends the message of the present call.
LEMMA WriteOwnStep ==
    ASSUME TypeOK, ReplyInv, Write /\ UNCHANGED fwVars
    PROVE  ReplyInv'
  <1>1. /\ UNCHANGED <<rep, epoch, nShift, xid, delivered, call, cur>> /\ req' = Append(req, cur)
        /\ pc = "send" /\ pc' = "wait"
    BY DEF Write
  <1>2. fwXid' = fwXid /\ memValid' = memValid /\ mem' = mem /\ LastTap' = LastTap
    BY DEF fwVars, LastTap
  <1>3. Busy /\ OwnRequest /\ OwnRequest' /\ Introduced' = Introduced
    BY <1>1 DEF Busy, ReplyInv, OwnRequest, Introduced
  <1>4. /\ RequestsStamped(req', epoch, nShift, xid, delivered.shift)
        /\ RepliesFirst(rep, req', epoch)
    BY <1>1, <1>3, QueueTyped, StampedWrite DEF ReplyInv, OwnRequest
  <1>5. \A i \in 1..Len(req') : (i \in 1..Len(req) /\ req'[i] = req[i]) \/ req'[i] = cur
    BY <1>1, QueueTyped
  <1>6. Handover'
    <2>1. call = "init" => ~IsShift(cur)
      BY <1>3 DEF OwnRequest
    <2>2. QED
      BY <1>1, <1>3, <1>5, <2>1 DEF ReplyInv, Handover, OwnRequest, ShiftOf
  <1>7. Memory'
    BY <1>1, <1>2, <1>3 DEF ReplyInv, Memory
  <1>8. QED
    BY <1>1, <1>3, <1>4, <1>6, <1>7 DEF ReplyInv

\* Requests are lost or delivered twice.
LEMMA RequestsStep ==
    ASSUME TypeOK, ReplyInv, (LoseReq \/ DupReq) /\ UNCHANGED <<drvVars, fwVars>>
    PROVE  ReplyInv'
  <1>1. UNCHANGED <<rep, epoch, nShift, xid, delivered, call, cur, pc>> /\ req # <<>>
    BY DEF LoseReq, DupReq, drvVars
  <1>2. fwXid' = fwXid /\ memValid' = memValid /\ mem' = mem /\ LastTap' = LastTap
    BY DEF fwVars, LastTap
  <1>3. req \in Seq(Requests) /\ rep \in Seq(Replies)
    BY QueueTyped
  <1>4. req' = Tail(req) \/ req' = <<Head(req)>> \o req
    BY DEF LoseReq, DupReq
  <1>5. /\ RequestsStamped(req', epoch, nShift, xid, delivered.shift)
        /\ RepliesFirst(rep, req', epoch)
    BY <1>1, <1>3, <1>4, StampedTail, StampedDup DEF ReplyInv
  <1>6. \A i \in 1..Len(req') : \E j \in 1..Len(req) : req'[i] = req[j]
    <2>1. CASE req' = Tail(req)
      BY <1>1, <1>3, <2>1, HeadTail
    <2>2. CASE req' = <<Head(req)>> \o req
      <3>1. /\ Len(req') = Len(req) + 1 /\ Len(req) \in Nat \ {0}
            /\ \A i \in 1..(Len(req) + 1) : req'[i] = IF i = 1 THEN req[1] ELSE req[i - 1]
        BY <1>1, <1>3, <2>2, DupHead, HeadTail
      <3>2. QED
        BY <3>1
    <2>3. QED
      BY <1>4, <2>1, <2>2
  <1>7. Introduced' = Introduced /\ Busy' = Busy /\ OwnRequest' = OwnRequest
    BY <1>1 DEF Introduced, Busy, OwnRequest
  <1>8. Handover'
    BY <1>1, <1>6, <1>7 DEF ReplyInv, Handover
  <1>9. Memory'
    BY <1>1, <1>2, <1>7 DEF ReplyInv, Memory
  <1>10. QED
    BY <1>1, <1>5, <1>7, <1>8, <1>9 DEF ReplyInv

\* sendVectors returns: the reply has the id of the newest shift, so it is the
\* reply to that shift, and the memory holds it.
LEMMA ShiftDoneStep ==
    ASSUME TypeOK, ReplyInv, ShiftDone /\ UNCHANGED fwVars
    PROVE  ReplyInv' /\ delivered'.shift = nShift /\ LastTap = nShift
  <1> DEFINE r == Head(rep)
  <1>1. /\ UNCHANGED <<req, epoch, nShift, xid, call, cur>> /\ rep # <<>> /\ rep' = Tail(rep)
        /\ pc = "wait" /\ pc' = "idle" /\ call = "shift"
        /\ delivered' = [shift |-> cur.id, tdo |-> r.id, wordSize |-> par.wordSize]
        /\ getErr(r.hdr) = 0 /\ (cur.hdr.xid = XID_ANY \/ cur.hdr.xid = r.hdr.xid)
    BY DEF ShiftDone, Rejected, Accepted, getXid
  <1>2. fwXid' = fwXid /\ memValid' = memValid /\ mem' = mem /\ LastTap' = LastTap
    BY DEF fwVars, LastTap
  <1>3. /\ req \in Seq(Requests) /\ rep \in Seq(Replies) /\ nShift \in Nat /\ delivered.shift \in Nat
        /\ mem.id \in Nat
    BY QueueTyped
  <1>4. r = rep[1] /\ 1 \in 1..Len(rep) /\ r \in Replies /\ r.id \in Nat
    BY <1>1, <1>3, HeadTail, ReplyHead
  <1>5. cur.id = nShift /\ cur.hdr.xid = xid /\ xid \in 1..XidMax
    BY <1>1 DEF ReplyInv, Busy, OwnRequest
  <1>6. r.hdr.xid = xid /\ r.hdr.xid # XID_ANY
    BY <1>1, <1>5, ProtocolAssumption DEF XID_ANY
  <1>7. IsShift(r)
    <2>1. r.hdr.cmd \in {CMD_Q, CMD_S, CMD_E}
      BY <1>4 DEF Replies, Header
    <2>2. r.hdr.cmd # CMD_Q /\ r.hdr.cmd # CMD_E
      BY <1>1, <1>4, <1>6 DEF ReplyInv, RepliesStamped
    <2>3. QED
      BY <2>1, <2>2 DEF IsShift
  <1>8. Stamped(r.id, r.hdr.xid, nShift, xid, delivered.shift)
    BY <1>4, <1>7 DEF ReplyInv, RepliesStamped
  <1>9. r.id = nShift
    BY <1>3, <1>4, <1>6, <1>8, StampedNewest
  <1>10. mem.id = nShift /\ LastTap = nShift
    BY <1>4, <1>7, <1>9 DEF ReplyInv, Memory
  <1> HIDE DEF r
  <1>11. delivered'.shift = nShift /\ delivered'.tdo = nShift
    BY <1>1, <1>5, <1>9
  <1>12. /\ RequestsStamped(req, epoch, nShift, xid, nShift)
         /\ RepliesStamped(rep', nShift, xid, nShift)
    BY <1>1, <1>3, <1>7, <1>9, StampedReturn DEF ReplyInv, r
  <1>13. RepliesFirst(rep', req, epoch)
    BY <1>1, <1>3, StampedTail DEF ReplyInv
  <1>14. RepliesMove
    BY <1>1 DEF RepliesMove
  <1>15. Handover'
    BY <1>1, <1>14, OldReplies DEF ReplyInv, Handover, Introduced
  <1>16. Memory'
    <2>1. memValid => Stamped(mem.id, fwXid, nShift, xid, nShift)
      BY <1>1, <1>3, <1>10 DEF ReplyInv, Memory, Introduced, Stamped
    <2>2. QED
      BY <1>1, <1>2, <1>10, <1>11, <2>1 DEF Memory
  <1>17. ~Busy'
    BY <1>1 DEF Busy
  <1>18. QED
    BY <1>1, <1>3, <1>10, <1>11, <1>12, <1>13, <1>15, <1>16, <1>17 DEF ReplyInv

\* The firmware has a reply r for the oldest request and sends it, if the socket
\* of the request is still open.
LEMMA FwReplyStep ==
    ASSUME TypeOK, ReplyInv, UNCHANGED <<drvVars, epoch>>, req # <<>>, req' = Tail(req),
           NEW r \in Replies, Reply(Head(req), r),
           r.hdr.cmd = CMD_Q => r.hdr.xid = XID_ANY,
           r.hdr.cmd = CMD_E => getErr(r.hdr) # 0,
           IsShift(r) /\ Head(req).epoch = epoch =>
               IsShift(Head(req)) /\ r.id = Head(req).id /\ r.hdr.xid = Head(req).hdr.xid,
           Memory'
    PROVE  ReplyInv'
  <1> DEFINE m == Head(req)
  <1>1. UNCHANGED <<nShift, xid, delivered, call, cur, pc, epoch>>
    BY DEF drvVars
  <1>2. /\ req \in Seq(Requests) /\ rep \in Seq(Replies) /\ nShift \in Nat /\ delivered.shift \in Nat
        /\ epoch \in Nat
    BY QueueTyped
  <1>3. /\ m = req[1] /\ 1 \in 1..Len(req)
        /\ \A i \in 1..Len(req') : i + 1 \in 1..Len(req) /\ req'[i] = req[i + 1] /\ 1 < i + 1
    BY <1>2, HeadTail
  <1>4. \A i \in 1..Len(req) : req[i].epoch \in Nat /\ req[i].epoch <= epoch
    BY <1>2, RequestTyped DEF ReplyInv, RequestsStamped
  <1>5. Busy' = Busy /\ OwnRequest' = OwnRequest
    BY <1>1 DEF Busy, OwnRequest
  <1>6. CASE m.epoch = epoch
    <2>1. rep' = Append(rep, r)
      BY <1>6 DEF Reply
    <2>2. IsShift(r) => ShiftOf(m, epoch) /\ r.id = m.id /\ r.hdr.xid = m.hdr.xid
      BY <1>6 DEF ShiftOf
    <2>3. /\ RequestsStamped(req', epoch, nShift, xid, delivered.shift)
          /\ RepliesStamped(rep', nShift, xid, delivered.shift)
          /\ RepliesFirst(rep', req', epoch)
      BY <1>2, <2>1, <2>2, StampedReply DEF ReplyInv
    <2>4. \A i \in 1..Len(req') : req'[i].epoch = epoch
      BY <1>2, <1>3, <1>4, <1>6 DEF ReplyInv, RequestsStamped
    <2>5. \A i \in 1..Len(rep') : (i \in 1..Len(rep) /\ rep'[i] = rep[i]) \/ rep'[i] = r
      BY <1>2, <2>1
    <2>6. Handover'
      BY <1>1, <1>3, <2>2, <2>4, <2>5 DEF ReplyInv, Handover
    <2>7. QED
      BY <1>1, <1>5, <2>3, <2>6 DEF ReplyInv
  <1>7. CASE m.epoch # epoch
    <2>1. rep' = rep
      BY <1>7 DEF Reply
    <2>2. /\ RequestsStamped(req', epoch, nShift, xid, delivered.shift)
          /\ RepliesFirst(rep, req', epoch)
      BY <1>2, StampedTail DEF ReplyInv
    <2>3. Introduced' = Introduced
      BY <1>1, <2>1 DEF Introduced
    <2>4. Handover'
      BY <1>1, <1>3, <2>1, <2>3 DEF ReplyInv, Handover
    <2>5. QED
      BY <1>1, <1>5, <2>1, <2>2, <2>4 DEF ReplyInv
  <1>8. QED
    BY <1>6, <1>7

\* The firmware handles a shift of this process only when it has seen the query
\* of init(), and none of another one then.
LEMMA ShiftsIntroduced ==
    ASSUME ReplyInv, TypeOK, req # <<>>, IsShift(Head(req))
    PROVE  /\ Head(req).epoch = epoch <=> Introduced
           /\ Introduced => call # "init"
  <1>1. req \in Seq(Requests)
    BY QueueTyped
  <1>2. Head(req) = req[1] /\ 1 \in 1..Len(req)
    BY <1>1, HeadTail
  <1>3. Head(req).epoch = epoch => call # "init"
    BY <1>2 DEF ReplyInv, Handover, ShiftOf
  <1>4. QED
    BY <1>2, <1>3 DEF ReplyInv, Handover, Introduced

\* A query: the memory is invalid, and the reply has the id XID_ANY.
LEMMA FwQueryOwnStep ==
    ASSUME TypeOK, ReplyInv, Period = 0, FwQuery /\ UNCHANGED drvVars
    PROVE  ReplyInv'
  <1> DEFINE h == setQueryData(Head(req).hdr, WordSize, MemDepth, Period)
             r == HeaderOnly(h)
  <1>1. /\ req # <<>> /\ req' = Tail(req) /\ Head(req).hdr.cmd = CMD_Q /\ Reply(Head(req), r)
        /\ UNCHANGED <<epoch, mem, fwXid, tap>>
    BY DEF FwQuery
  <1>2. memValid' = FALSE
    BY Zenon DEF FwQuery
  <1>3. Head(req).hdr \in Header
    BY <1>1, RequestHead
  <1>4. r \in Replies
    BY <1>3, HeaderTypes DEF HeaderOnly, Replies
  <1>5. r.hdr.cmd = CMD_Q /\ r.hdr.xid = XID_ANY
    BY <1>1, <1>3 DEF HeaderOnly, setQueryData, Header, XID_ANY
  <1>6. r.hdr.cmd # CMD_E /\ ~IsShift(r)
    BY <1>5 DEF IsShift, CMD_Q, CMD_S, CMD_E
  <1> HIDE DEF h, r
  <1>7. Memory'
    <2>1. rep \in Seq(Replies)
      BY QueueTyped
    <2>2. \A i \in 1..Len(rep') : (i \in 1..Len(rep) /\ rep'[i] = rep[i]) \/ rep'[i] = r
      BY <1>1, <2>1, <1>4 DEF Reply
    <2>3. nShift' = nShift /\ LastTap' = LastTap
      BY <1>1 DEF drvVars, LastTap
    <2>4. \A i \in 1..Len(rep') : IsShift(rep'[i]) /\ rep'[i].id = nShift => mem.id = nShift
      BY <1>6, <2>2 DEF ReplyInv, Memory
    <2>5. (Introduced /\ memValid => Stamped(mem.id, fwXid, nShift, xid, delivered.shift))'
      BY <1>2, Zenon
    <2>6. mem' = mem /\ mem.id = LastTap
      BY <1>1 DEF ReplyInv, Memory
    <2>7. QED
      BY <2>3, <2>4, <2>5, <2>6, Zenon DEF Memory
  <1>8. QED
    BY <1>1, <1>4, <1>5, <1>6, <1>7, FwReplyStep

\* A shift that the memory cannot hold: an error reply.
LEMMA FwTruncatedStep ==
    ASSUME TypeOK, ReplyInv, FwTruncated /\ UNCHANGED drvVars
    PROVE  ReplyInv'
  <1> DEFINE r == HeaderOnly(setErr(Head(req).hdr, ERR_TRUNCATED))
  <1>1. /\ req # <<>> /\ req' = Tail(req) /\ IsShift(Head(req)) /\ Reply(Head(req), r)
        /\ UNCHANGED epoch
    BY DEF FwTruncated, IsShift
  <1>2. mem' = mem /\ memValid' = memValid /\ fwXid' = fwXid /\ LastTap' = LastTap
    BY DEF FwTruncated, fwVars, LastTap
  <1>3. Head(req).hdr \in Header
    BY <1>1, RequestHead
  <1>4. r \in Replies
    BY <1>3, HeaderTypes DEF HeaderOnly, Replies
  <1>5. r.hdr.cmd = CMD_E /\ getErr(r.hdr) # 0
    <2>1. r.hdr.cmd = CMD_E /\ r.hdr.low = 3
      BY <1>3 DEF HeaderOnly, setErr, Header, ERR_TRUNCATED
    <2>2. 3 % 256 # 0
      OBVIOUS
    <2>3. QED
      BY <2>1, <2>2 DEF getErr
  <1>6. r.hdr.cmd # CMD_Q /\ ~IsShift(r)
    BY <1>5 DEF IsShift, CMD_Q, CMD_S, CMD_E
  <1> HIDE DEF r
  <1>7. Memory'
    <2>1. rep \in Seq(Replies)
      BY QueueTyped
    <2>2. \A i \in 1..Len(rep') : (i \in 1..Len(rep) /\ rep'[i] = rep[i]) \/ rep'[i] = r
      BY <1>1, <2>1, <1>4 DEF Reply
    <2>3. UNCHANGED <<nShift, xid, delivered, call, pc>>
      BY DEF drvVars
    <2>4. Introduced' => Introduced
      BY <1>1, <2>3, ShiftsIntroduced DEF Introduced, Reply
    <2>5. QED
      BY <1>2, <1>6, <2>2, <2>3, <2>4 DEF ReplyInv, Memory
  <1>8. QED
    BY <1>1, <1>4, <1>5, <1>6, <1>7, FwReplyStep

\* A shift is driven: the memory holds it from now on.
LEMMA FwExecuteOwnStep ==
    ASSUME TypeOK, ReplyInv, FwExecute /\ UNCHANGED drvVars
    PROVE  ReplyInv'
  <1> DEFINE m == Head(req)
             response == [id |-> m.id, words |-> NumWords(m.hdr)]
             r == TdoReply(m.hdr, response)
  <1>1. /\ req # <<>> /\ req' = Tail(req) /\ IsShift(m) /\ Reply(m, r) /\ UNCHANGED epoch
        /\ tap' = Append(tap, m.id) /\ fwXid' = m.hdr.xid /\ mem' = response
    BY DEF FwExecute, IsShift, getXid
  <1>2. m \in Requests /\ m.hdr \in Header /\ m.id \in Nat
    BY <1>1, RequestHead
  <1>3. response \in [id : Nat, words : Nat]
    BY <1>2, GetterTypes
  <1>4. r \in Replies
    BY <1>2, <1>3 DEF TdoReply, Replies
  <1>5. IsShift(r) /\ r.id = m.id /\ r.hdr.xid = m.hdr.xid
    BY <1>1 DEF IsShift, TdoReply
  <1>6. r.hdr.cmd # CMD_Q /\ r.hdr.cmd # CMD_E
    BY <1>5 DEF IsShift, CMD_Q, CMD_S, CMD_E
  <1>7. mem'.id = m.id /\ LastTap' = m.id
    BY <1>1, <1>2 DEF LastTap, TypeOK
  <1>8. m = req[1] /\ 1 \in 1..Len(req) /\ rep \in Seq(Replies) /\ nShift \in Nat
    BY <1>1, QueueTyped, HeadTail
  <1> HIDE DEF r, m
  <1>9. Memory'
    <2>1. UNCHANGED <<nShift, xid, delivered, call, pc>>
      BY DEF drvVars
    <2>2. \A i \in 1..Len(rep') :
             (i \in 1..Len(rep) /\ rep'[i] = rep[i]) \/ (m.epoch = epoch /\ rep'[i] = r)
      BY <1>1, <1>4, <1>8 DEF Reply
    <2>3. Introduced' => m.epoch = epoch
      BY <1>1, <2>1, ShiftsIntroduced DEF Introduced, Reply, m
    <2>4. m.epoch = epoch => Stamped(m.id, m.hdr.xid, nShift, xid, delivered.shift)
      BY <1>1, <1>8 DEF ReplyInv, RequestsStamped, ShiftOf
    <2>5. Introduced' => Stamped(mem'.id, fwXid', nShift, xid, delivered.shift)
      BY <1>1, <1>7, <2>3, <2>4
    <2>6. \A i \in 1..Len(rep) : IsShift(rep[i]) => m.epoch = epoch /\ rep[i].id <= m.id
      <3>1. rep # <<>> => m.epoch = epoch
        BY <1>1, ShiftsIntroduced DEF Introduced, m
      <3>2. QED
        BY <1>1, <1>8, <3>1, SMTT(20) DEF ReplyInv, RepliesFirst, ShiftOf
    <2>7. m.epoch = epoch => m.id <= nShift
      BY <2>4 DEF Stamped
    <2>8. \A i \in 1..Len(rep') : IsShift(rep'[i]) /\ rep'[i].id = nShift => m.id = nShift
      BY <1>2, <1>5, <1>8, <2>2, <2>6, <2>7
    <2>9. QED
      BY <1>7, <2>1, <2>5, <2>8 DEF Memory
  <1>10. QED
    BY <1>1, <1>4, <1>5, <1>6, <1>9, FwReplyStep DEF m

\* The memory is played back: it holds the response to that very shift.
LEMMA FwReplayStep ==
    ASSUME TypeOK, ReplyInv, FwReplay /\ UNCHANGED drvVars
    PROVE  ReplyInv'
  <1> DEFINE m == Head(req)
             r == TdoReply(m.hdr, mem)
  <1>1. /\ req # <<>> /\ req' = Tail(req) /\ IsShift(m) /\ Reply(m, r) /\ UNCHANGED epoch
    BY DEF FwReplay, IsShift
  <1>2. memValid /\ m.hdr.xid = fwXid
    BY Zenon DEF FwReplay, xidIsNew, getXid
  <1>3. mem' = mem /\ memValid' = memValid /\ fwXid' = fwXid /\ LastTap' = LastTap
    BY DEF FwReplay, fwVars, LastTap
  <1>4. m \in Requests /\ m.hdr \in Header /\ m.id \in Nat /\ mem.id \in Nat
    BY <1>1, RequestHead, QueueTyped
  <1>5. r \in Replies
    BY <1>4 DEF TdoReply, Replies, TypeOK
  <1>6. IsShift(r) /\ r.id = mem.id /\ r.hdr.xid = m.hdr.xid
    BY <1>1 DEF IsShift, TdoReply
  <1>7. r.hdr.cmd # CMD_Q /\ r.hdr.cmd # CMD_E
    BY <1>6 DEF IsShift, CMD_Q, CMD_S, CMD_E
  <1>8. m = req[1] /\ 1 \in 1..Len(req) /\ rep \in Seq(Replies) /\ nShift \in Nat
    BY <1>1, QueueTyped, HeadTail
  <1> HIDE DEF r, m
  <1>9. m.epoch = epoch => m.id = mem.id
    <2> HAVE m.epoch = epoch
    <2>1. Stamped(m.id, m.hdr.xid, nShift, xid, delivered.shift)
      BY <1>1, <1>8 DEF ReplyInv, RequestsStamped, ShiftOf
    <2>2. Stamped(mem.id, fwXid, nShift, xid, delivered.shift)
      BY <1>1, <1>2, ShiftsIntroduced DEF ReplyInv, Memory, m
    <2>3. QED
      BY <1>2, <1>4, <1>8, <2>1, <2>2, StampedUnique
  <1>10. Memory'
    <2>1. UNCHANGED <<nShift, xid, delivered, call, pc>>
      BY DEF drvVars
    <2>2. \A i \in 1..Len(rep') : (i \in 1..Len(rep) /\ rep'[i] = rep[i]) \/ rep'[i] = r
      BY <1>1, <1>5, <1>8 DEF Reply
    <2>3. Introduced' => Introduced
      BY <1>1, <2>1, ShiftsIntroduced DEF Introduced, Reply, m
    <2>4. QED
      BY <1>3, <1>6, <2>1, <2>2, <2>3 DEF ReplyInv, Memory
  <1>11. QED
    BY <1>1, <1>5, <1>6, <1>7, <1>9, <1>10, FwReplyStep DEF m

-----------------------------------------------------------------------------
\* One step of the system keeps ReplyInv, if the transport does not reorder, the
\* target does not tell its period and few calls failed since the last one that
\* returned.
LEMMA ReplyStep ==
    ASSUME TypeOK, ReplyInv, FewFailures', [Next]_vars, Period = 0, "swap" \notin Faults
    PROVE  ReplyInv'
  <1>1. CASE Start /\ UNCHANGED fwVars
    BY <1>1, StartStep
  <1>2. CASE (Connect \/ GetInfo) /\ UNCHANGED fwVars
    BY <1>2, QueryCallStep
  <1>3. ASSUME NEW len \in Lens, SendVectors(len), UNCHANGED fwVars
        PROVE  ReplyInv'
    BY <1>3, SendStep
  <1>4. CASE Write /\ UNCHANGED fwVars
    BY <1>4, WriteOwnStep
  <1>5. CASE (PollTimeout \/ ReplyRejected \/ ReplyStale \/ QueryDone) /\ UNCHANGED fwVars
    <2>1. UNCHANGED <<req, fwVars, nShift, xid, delivered, epoch, call, cur>> /\ pc = "wait"
      BY <1>5 DEF PollTimeout, ReplyRejected, ReplyStale, QueryDone
    <2>2. RepliesMove
      BY <1>5 DEF PollTimeout, ReplyRejected, ReplyStale, QueryDone, RepliesMove
    <2>3. rep' # <<>> \/ pc' = "idle" => rep # <<>> \/ call # "init"
      <3>1. CASE PollTimeout
        BY <3>1 DEF PollTimeout, NextAttempt
      <3>2. CASE ReplyRejected \/ ReplyStale \/ QueryDone
        BY <3>2 DEF ReplyRejected, ReplyStale, QueryDone
      <3>3. QED
        BY <1>5, <3>1, <3>2
    <2>4. QED
      BY <2>1, <2>2, <2>3, RepliesStep DEF Busy, Introduced
  <1>6. CASE ShiftDone /\ UNCHANGED fwVars
    BY <1>6, ShiftDoneStep
  <1>7. CASE (SysErr \/ Kill) /\ UNCHANGED fwVars
    <2>1. UNCHANGED <<req, rep, fwVars, nShift, xid, delivered, epoch, call, cur>>
      BY <1>7 DEF SysErr, Kill
    <2>2. /\ pc' \in {"idle", "down"}
          /\ pc' = "idle" => call # "init"
      BY <1>7 DEF SysErr, Kill
    <2>3. QED
      BY <2>1, <2>2, RepliesStep DEF RepliesMove, Busy, Introduced
  <1>8. CASE FwQuery /\ UNCHANGED drvVars
    BY <1>8, FwQueryOwnStep
  <1>9. CASE FwTruncated /\ UNCHANGED drvVars
    BY <1>9, FwTruncatedStep
  <1>10. CASE FwExecute /\ UNCHANGED drvVars
    BY <1>10, FwExecuteOwnStep
  <1>11. CASE FwReplay /\ UNCHANGED drvVars
    BY <1>11, FwReplayStep
  <1>12. CASE (LoseReq \/ DupReq) /\ UNCHANGED <<drvVars, fwVars>>
    BY <1>12, RequestsStep
  <1>13. CASE (LoseRep \/ DupRep) /\ UNCHANGED <<drvVars, fwVars>>
    <2>1. /\ UNCHANGED <<req, fwVars, nShift, xid, delivered, epoch, call, cur, pc>>
          /\ rep # <<>>
      BY <1>13 DEF LoseRep, DupRep, drvVars
    <2>2. RepliesMove
      BY <1>13 DEF LoseRep, DupRep, RepliesMove
    <2>3. QED
      BY <2>1, <2>2, RepliesStep DEF Busy, Introduced
  <1>14. CASE SwapReq \/ SwapRep
    BY <1>14 DEF SwapReq, SwapRep, Fault
  <1>15. CASE UNCHANGED vars
    <2>1. UNCHANGED <<req, rep, fwVars, nShift, xid, delivered, epoch, call, cur, pc>>
      BY <1>15 DEF vars, drvVars, netVars
    <2>2. QED
      BY <2>1, RepliesStep DEF RepliesMove, Busy, Introduced
  <1>16. QED
    BY <1>1, <1>2, <1>3, <1>4, <1>5, <1>6, <1>7, <1>8, <1>9, <1>10, <1>11, <1>12, <1>13,
       <1>14, <1>15
    DEF Next, Driver, Calls, Xfer, Firmware, NetFault

\* Before the first process is started there are no messages and no shifts.
LEMMA ReplyInit == Init => ReplyInv
  <1> SUFFICES ASSUME Init PROVE ReplyInv
    OBVIOUS
  <1>1. /\ req = <<>> /\ rep = <<>> /\ nShift = 0 /\ delivered.shift = 0 /\ delivered.tdo = 0
        /\ mem.id = 0 /\ tap = <<>> /\ pc = "down"
    BY DEF Init, NetInit, DrvInit, FwInit
  <1>2. memValid = FALSE
    BY Zenon DEF Init, FwInit
  <1>3. RequestsStamped(req, epoch, nShift, xid, delivered.shift)
    BY <1>1 DEF RequestsStamped
  <1>4. RepliesStamped(rep, nShift, xid, delivered.shift) /\ RepliesFirst(rep, req, epoch)
    BY <1>1 DEF RepliesStamped, RepliesFirst
  <1>5. Handover /\ ~Busy
    BY <1>1 DEF Handover, Busy
  <1>6. Memory
    BY <1>1, <1>2 DEF Memory, LastTap
  <1>7. QED
    BY <1>1, <1>3, <1>4, <1>5, <1>6 DEF ReplyInv

\* For every word size, memory depth, length, number of calls, restarts and
\* faults of a transport that does not reorder, the TDO that sendVectors returns
\* is the response to its own vectors.  The target does not tell its period, or a
\* late reply to a query could pass for one to a shift (the period is where the
\* id of the shift is); fewer calls fail in a row than there are ids, or the id
\* of a late reply could come up again.
THEOREM OwnTdoReturned ==
    ASSUME Period = 0, "swap" \notin Faults
    PROVE  Spec /\ []FewFailures => []OwnTdo
  <1>1. Init => ReplyInv
    BY ReplyInit
  <1>2. TypeOK /\ ReplyInv /\ FewFailures' /\ [Next]_vars => ReplyInv'
    BY ReplyStep
  <1>3. ReplyInv => OwnTdo
    BY DEF ReplyInv, OwnTdo
  <1>4. QED
    BY <1>1, <1>2, <1>3, TypeCorrect, PTL DEF Spec

\* Every step of driver, transport and firmware is a step of JtagOnce, or none.
LEMMA OnceStep ==
    ASSUME TypeOK, QueueInv, ReplyInv, [Next]_vars, MemDepth > 0, "swap" \notin Faults
    PROVE  [Once!OnceNext]_Once!onceVars
  <1>1. ASSUME UNCHANGED <<nShift, tap, delivered>>
        PROVE  UNCHANGED Once!onceVars
    BY <1>1 DEF Once!onceVars
  <1>2. ASSUME NEW len \in Lens, SendVectors(len), UNCHANGED fwVars
        PROVE  Once!Issue
    BY <1>2 DEF SendVectors, fwVars, Once!Issue
  <1>3. CASE FwExecute /\ UNCHANGED drvVars
    <2> DEFINE m == Head(req)
    <2>1. LastTap < m.id /\ tap' = Append(tap, m.id)
      BY <1>3, FwExecuteStep
    <2>2. req \in Seq(Requests) /\ req # <<>>
      BY <1>3, QueueTyped DEF FwExecute
    <2>3. m = req[1] /\ 1 \in 1..Len(req) /\ m.id \in Nat
      BY <2>2, HeadTail, RequestHead
    <2>4. m.id <= nShift /\ nShift \in Nat /\ LastTap \in Nat
      BY <2>3, QueueTyped, LastTapType DEF QueueInv, QueueOrdered
    <2> HIDE DEF m
    <2>5. m.id \in 1..nShift
      BY <2>1, <2>3, <2>4
    <2>6. Once!LastDriven = LastTap
      BY DEF Once!LastDriven, LastTap
    <2>7. Once!Drive(m.id)
      BY <1>3, <2>1, <2>3, <2>4, <2>6 DEF Once!Drive, drvVars
    <2>8. QED
      BY <2>5, <2>7 DEF Once!OnceNext
  <1>4. CASE ShiftDone /\ UNCHANGED fwVars
    <2>1. delivered'.shift = nShift /\ LastTap = nShift
      BY <1>4, ShiftDoneStep
    <2>2. nShift' = nShift /\ tap' = tap
      BY <1>4 DEF ShiftDone, fwVars
    <2>3. Once!Return
      BY <2>1, <2>2 DEF Once!Return, Once!LastDriven, LastTap
    <2>4. QED
      BY <2>3 DEF Once!OnceNext
  <1>5. CASE (\/ Start \/ Connect \/ GetInfo \/ Write \/ PollTimeout \/ ReplyRejected \/ ReplyStale
              \/ QueryDone \/ SysErr \/ Kill) /\ UNCHANGED fwVars
    <2>1. UNCHANGED <<nShift, delivered, tap>>
      BY <1>5 DEF Start, Connect, GetInfo, Write, PollTimeout, ReplyRejected, ReplyStale,
                  QueryDone, SysErr, Kill, fwVars
    <2>2. QED
      BY <1>1, <2>1
  <1>6. CASE (FwQuery \/ FwTruncated \/ FwReplay) /\ UNCHANGED drvVars
    <2>1. UNCHANGED <<nShift, delivered, tap>>
      BY <1>6 DEF FwQuery, FwTruncated, FwReplay, fwVars, drvVars
    <2>2. QED
      BY <1>1, <2>1
  <1>7. CASE NetFault /\ UNCHANGED <<drvVars, fwVars>>
    BY <1>1, <1>7 DEF drvVars, fwVars
  <1>8. CASE UNCHANGED vars
    BY <1>1, <1>8 DEF vars, drvVars, fwVars
  <1>9. QED
    BY <1>2, <1>3, <1>4, <1>5, <1>6, <1>7, <1>8
    DEF Next, Driver, Calls, Xfer, Firmware, Once!OnceNext

\* Driver, transport and firmware together implement JtagOnce: the vectors of
\* every call are driven at most once and in order, and a call that returns has
\* had its own vectors driven, as the last ones so far.
THEOREM DriverImplementsOnce ==
    ASSUME MemDepth > 0, Period = 0, "swap" \notin Faults
    PROVE  Spec /\ []FewFailures => ImplementsOnce
  <1>1. Init => Once!OnceInit
    BY DEF Init, NetInit, DrvInit, FwInit, Once!OnceInit
  <1>2. TypeOK /\ ReplyInv /\ FewFailures' /\ [Next]_vars => ReplyInv'
    BY ReplyStep
  <1>3. TypeOK /\ QueueInv /\ ReplyInv /\ [Next]_vars => [Once!OnceNext]_Once!onceVars
    BY OnceStep
  <1>4. QED
    BY <1>1, <1>2, <1>3, ReplyInit, TypeCorrect, QueueInOrder, PTL
    DEF Spec, ImplementsOnce, Once!OnceSpec
===============================================================================
