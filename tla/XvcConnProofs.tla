----------------------------- MODULE XvcConnProofs -----------------------------
(***************************************************************************)
(* Theorems about XvcConn, for every size of the buffers, every set of     *)
(* requests and every cut of the stream: the variables keep their types    *)
(* and nothing is read or written outside the buffers.                     *)
(***************************************************************************)
EXTENDS XvcConn, TLAPS

\* Why InBounds holds.  What read() gets at the top of the loop ends within one
\* chunk.  fill() goes beyond that, but then the buffer holds no more than the
\* command asks for: it is empty, and rp_ back at 0, when the command is done.
Serving == pc \notin {"accept", "exit"}

BufferInv ==
    /\ rl = 0 => rp = 0
    /\ rp <= chunk
    /\ rp + rl <= chunk \/ rl <= IF pc = "chunks" THEN 2 * BytesOf(bits) ELSE Need
    /\ pc = "top" => rl = 0
    /\ pc \in {"getinfo", "settck", "shift"} => rl >= TagLen /\ rxb[rp].msg > 0
    /\ pc = "chunks" => rl >= 2 * BytesOf(bits)

\* The chunks sent so far are whole.  A vector of no octets has no chunks: none of
\* its bits is counted as sent.
ChunkInv ==
    /\ BytesOf(bits) <= MaxVecLen
    /\ IF BytesOf(bits) = 0 THEN off = 0 ELSE bitsLeft > 0 => 8 * off + bitsLeft = bits

\* Every octet received is of a request that was sent.
SourceInv ==
    /\ \A i \in 0..(RxSize - 1) : rxb[i].msg <= Len(sent)
    /\ \A k \in 1..Len(wire) : wire[k].msg <= Len(sent)

BoundsInv ==
    /\ Serving => BufferInv /\ supVecLen > 0
    /\ pc \in {"vectors", "chunks"} => ChunkInv
    /\ SourceInv
    /\ pc = "accept" => ~isOpen /\ wire = <<>>
    /\ tp + tl <= TxSize
    /\ bits < Wrap
    /\ pending <= nClients

-----------------------------------------------------------------------------
\* The sizes of the buffers are natural numbers.
LEMMA Sizes ==
    /\ chunk \in Nat /\ RxSize \in Nat /\ TxSize \in Nat
    /\ chunk >= 1 /\ RxSize = 2 * chunk /\ TxSize = MaxVecLen + Overhead
    /\ 2 * MaxVecLen <= chunk /\ Overhead <= chunk
  BY ConnAssumption DEF chunk, RxSize, TxSize

\* In w-bit arithmetic the octets of n bits are the quotient rounded up, or none
\* when n + 7 does not fit.
LEMMA BytesOfBits ==
    ASSUME NEW n \in Nat, n < Wrap
    PROVE  /\ BytesOf(n) \in Nat
           /\ n + 7 < Wrap => BytesOf(n) = (n + 7) \div 8
           /\ n + 7 >= Wrap => BytesOf(n) = 0
  <1>1. Wrap \in Nat \ {0}
    BY ConnAssumption
  <1> DEFINE r == (n + 7) % Wrap
  <1>2. r \in Nat /\ r < Wrap
    BY <1>1
  <1>3. n + 7 < Wrap => r = n + 7
    BY <1>1
  <1>4. n + 7 >= Wrap => r < 8
    <2>1. CASE Wrap < 8
      BY <1>1, <1>2, <2>1
    <2>2. CASE Wrap >= 8 /\ n + 7 >= Wrap
      <3>1. r = n + 7 - Wrap
        BY <1>1, <2>2
      <3>2. QED
        BY <1>1, <3>1
    <2>3. QED
      BY <1>1, <2>1, <2>2
  <1> HIDE DEF r
  <1>5. BytesOf(n) = r \div 8
    BY DEF BytesOf, r
  <1>6. QED
    BY <1>2, <1>3, <1>4, <1>5

\* Octets stored in rxb_ leave its bounds and what is in front of them as they are.
LEMMA StoreType ==
    ASSUME NEW b \in [0..(RxSize - 1) -> Bytes], NEW at \in Nat, NEW s \in Seq(Bytes)
    PROVE  /\ Store(b, at, s) \in [0..(RxSize - 1) -> Bytes]
           /\ \A i \in 0..(RxSize - 1) : i < at => Store(b, at, s)[i] = b[i]
           /\ \A i \in 0..(RxSize - 1) : Store(b, at, s)[i] = b[i]
                                    \/ \E k \in 1..Len(s) : Store(b, at, s)[i] = s[k]
  <1> DEFINE c == Store(b, at, s)
             in(i) == at <= i /\ i < at + Len(s)
  <1>1. c = [i \in 0..(RxSize - 1) |-> IF in(i) THEN s[i - at + 1] ELSE b[i]]
    BY DEF Store
  <1>2. \A i \in 0..(RxSize - 1) : in(i) => i - at + 1 \in 1..Len(s) /\ s[i - at + 1] \in Bytes
    BY Sizes
  <1>3. \A i \in 0..(RxSize - 1) : i < at => ~in(i)
    OBVIOUS
  <1> HIDE DEF in
  <1>4. c \in [0..(RxSize - 1) -> Bytes]
    BY <1>1, <1>2
  <1>5. \A i \in 0..(RxSize - 1) : c[i] = IF in(i) THEN s[i - at + 1] ELSE b[i]
    BY <1>1
  <1> HIDE DEF c
  <1>6. QED
    BY <1>2, <1>3, <1>4, <1>5 DEF c

\* The octets of a request.
LEMMA MessageTypes ==
    ASSUME NEW m \in Requests, NEW n \in Nat
    PROVE  /\ MessageLen(m) \in Nat
           /\ MessageBytes(n, m) \in Seq(Bytes)
           /\ \A k \in 1..Len(MessageBytes(n, m)) : MessageBytes(n, m)[k].msg = n
  <1>1. m.kind \in {"getinfo", "settck", "shift", "other"} /\ m.arg \in Nat /\ m.arg < Wrap
    BY ConnAssumption
  <1>2. BytesOf(m.arg) \in Nat
    BY <1>1, BytesOfBits
  <1>3. GetInfoLen \in Nat /\ SetTckLen \in Nat /\ ShiftHdrLen \in Nat /\ TagLen \in Nat
    BY ConnAssumption
  <1>4. MessageLen(m) \in Nat
    BY <1>1, <1>2, <1>3 DEF MessageLen
  <1> DEFINE len == MessageLen(m)
  <1> HIDE DEF len
  <1>5. len \in Nat
    BY <1>4 DEF len
  <1>6. \A k \in 1..len : [msg |-> n, off |-> k - 1] \in Bytes
    BY <1>5 DEF Bytes
  <1>7. MessageBytes(n, m) = [k \in 1..len |-> [msg |-> n, off |-> k - 1]]
    BY DEF MessageBytes, len
  <1>8. MessageBytes(n, m) \in Seq(Bytes) /\ Len(MessageBytes(n, m)) = len
    BY <1>5, <1>6, <1>7
  <1>9. \A k \in 1..len : MessageBytes(n, m)[k].msg = n
    BY <1>7
  <1>10. QED
    BY <1>4, <1>8, <1>9

-----------------------------------------------------------------------------
\* A client that knocks meanwhile is turned away.
LEMMA RejectType ==
    ASSUME TypeOK, RejectPending
    PROVE  pending' \in 0..MaxClients /\ pending' <= pending
  BY ConnAssumption DEF TypeOK, RejectPending

\* The octets left on the wire when the first ones, or the last, are gone.
LEMMA WireParts ==
    ASSUME TypeOK, NEW k \in 0..Len(wire)
    PROVE  /\ SubSeq(wire, 1, k) \in Seq(Bytes) /\ Len(SubSeq(wire, 1, k)) = k
           /\ SubSeq(wire, k + 1, Len(wire)) \in Seq(Bytes)
           /\ \A i \in 1..k : SubSeq(wire, 1, k)[i] = wire[i] /\ i \in 1..Len(wire)
           /\ \A i \in 1..Len(SubSeq(wire, k + 1, Len(wire))) :
                 SubSeq(wire, k + 1, Len(wire))[i] = wire[k + i] /\ k + i \in 1..Len(wire)
  <1>1. wire \in Seq(Bytes) /\ Len(wire) \in Nat
    BY DEF TypeOK
  <1>2. QED
    BY <1>1

\* The connection or the process ends; the buffers are left as they are.
LEMMA EndStep ==
    ASSUME TypeOK, BoundsInv, pc' \in {"accept", "exit"},
           pc' = "accept" => ~isOpen' /\ wire' = <<>>,
           isOpen' \in BOOLEAN, wire' = wire \/ wire' = <<>>,
           errors' \in 0..MaxErrors, pending' \in 0..MaxClients, pending' <= pending,
           UNCHANGED <<nClients, sent, bufVars, txVars, supVecLen, shiftVars>>
    PROVE  TypeOK' /\ BoundsInv'
  <1>1. TypeOK'
    <2>1. wire \in Seq(Bytes) /\ <<>> \in Seq(Bytes)
      BY DEF TypeOK
    <2>2. wire' \in Seq(Bytes)
      BY <2>1, Zenon
    <2>3. QED
      BY <2>2 DEF TypeOK, bufVars, txVars, shiftVars
  <1>2. ~Serving' /\ pc' \notin {"vectors", "chunks"}
    BY DEF Serving
  <1>3. SourceInv'
    BY DEF BoundsInv, SourceInv, bufVars
  <1>4. pending' <= nClients'
    BY <1>1 DEF TypeOK, BoundsInv
  <1>5. QED
    BY <1>1, <1>2, <1>3, <1>4 DEF BoundsInv, txVars, shiftVars

\* What CloseConnection and Throws do to the client.
LEMMA CloseTypes ==
    ASSUME TypeOK
    PROVE  /\ CloseConnection => /\ pc' \in {"accept", "exit"} /\ isOpen' = FALSE
                                 /\ isOpen' \in BOOLEAN /\ wire' = <<>>
           /\ Throws => /\ pc' \in {"accept", "exit"} /\ errors' \in 0..MaxErrors
                        /\ pc' = "accept" => isOpen' = FALSE /\ wire' = <<>>
                        /\ isOpen' \in BOOLEAN /\ (wire' = wire \/ wire' = <<>>)
  <1>1. ASSUME CloseConnection
        PROVE  /\ pc' \in {"accept", "exit"} /\ isOpen' = FALSE
               /\ isOpen' \in BOOLEAN /\ wire' = <<>>
    BY <1>1, Zenon DEF CloseConnection
  <1>2. isOpen \in BOOLEAN
    BY Zenon DEF TypeOK
  <1>3. ASSUME Throws
        PROVE  /\ pc' \in {"accept", "exit"}
               /\ pc' = "accept" => isOpen' = FALSE /\ wire' = <<>>
               /\ isOpen' \in BOOLEAN /\ (wire' = wire \/ wire' = <<>>)
    <2>1. CASE CloseConnection
      BY <1>1, <2>1, Zenon
    <2>2. CASE pc' = "exit" /\ UNCHANGED <<isOpen, wire>>
      <3>1. pc' # "accept" /\ pc' \in {"accept", "exit"} /\ wire' = wire
        BY <2>2
      <3>2. isOpen' \in BOOLEAN
        BY <1>2, <2>2, Zenon
      <3>3. QED
        BY <3>1, <3>2, Zenon
    <2>3. QED
      BY <1>3, <2>1, <2>2, Zenon DEF Throws
  <1>4. Throws => errors' \in 0..MaxErrors
    BY ConnAssumption DEF Throws, TypeOK
  <1>5. QED
    BY <1>1, <1>3, <1>4, Zenon

\* What a client does leaves the server as it is.
LEMMA ClientStep ==
    ASSUME TypeOK, BoundsInv,
           \/ ClientConnects \/ ClientCloses \/ \E m \in Requests : ClientSends(m)
    PROVE  TypeOK' /\ BoundsInv'
  <1>1. UNCHANGED <<answer, pc, bufVars, txVars, supVecLen, shiftVars, driven, errors>>
    BY DEF ClientConnects, ClientCloses, ClientSends
  <1>2. Serving' = Serving /\ BufferInv' = BufferInv /\ ChunkInv' = ChunkInv
    BY <1>1 DEF Serving, BufferInv, ChunkInv, Need, bufVars, shiftVars
  <1>3. isOpen \in BOOLEAN /\ wire \in Seq(Bytes) /\ sent \in Seq(Requests)
    BY Zenon DEF TypeOK
  <1>4. CASE ClientConnects
    <2>1. pending' \in 0..MaxClients /\ nClients' \in 0..MaxClients /\ pending' <= nClients'
      BY <1>4, ConnAssumption DEF ClientConnects, TypeOK, BoundsInv
    <2>2. UNCHANGED <<isOpen, sent, wire>>
      BY <1>4 DEF ClientConnects
    <2>3. TypeOK'
      BY <1>1, <2>1, <2>2 DEF TypeOK, bufVars, txVars, shiftVars
    <2>4. SourceInv'
      BY <1>1, <2>2 DEF BoundsInv, SourceInv, bufVars
    <2>5. QED
      BY <1>1, <1>2, <2>1, <2>2, <2>3, <2>4 DEF BoundsInv, txVars, shiftVars
  <1>5. CASE ClientCloses
    <2>1. PICK k \in 0..Len(wire) : wire' = SubSeq(wire, 1, k)
      BY <1>5 DEF ClientCloses
    <2>2. UNCHANGED <<pending, nClients, sent>>
      BY <1>5 DEF ClientCloses
    <2>3. isOpen /\ isOpen' = FALSE /\ isOpen' \in BOOLEAN
      BY <1>5, Zenon DEF ClientCloses
    <2>4. wire' \in Seq(Bytes)
      BY <2>1, WireParts
    <2>5. TypeOK'
      BY <1>1, <2>2, <2>3, <2>4 DEF TypeOK, bufVars, txVars, shiftVars
    <2>6. \A i \in 1..Len(wire') : wire'[i] = wire[i] /\ i \in 1..Len(wire)
      BY <2>1, WireParts
    <2>7. SourceInv'
      BY <1>1, <2>2, <2>6 DEF BoundsInv, SourceInv, bufVars
    <2>8. pc # "accept"
      BY <2>3 DEF BoundsInv
    <2>9. QED
      BY <1>1, <1>2, <2>2, <2>5, <2>7, <2>8 DEF BoundsInv, txVars, shiftVars
  <1>6. ASSUME NEW m \in Requests, ClientSends(m) PROVE TypeOK' /\ BoundsInv'
    <2> DEFINE n == Len(sent) + 1
               more == MessageBytes(n, m)
    <2>1. /\ UNCHANGED <<pending, nClients, isOpen>>
          /\ sent' = Append(sent, m) /\ wire' = wire \o more
      BY <1>6 DEF ClientSends
    <2>2. isOpen
      BY <1>6, Zenon DEF ClientSends
    <2>3. n \in Nat
      BY <1>3
    <2>4. more \in Seq(Bytes) /\ \A k \in 1..Len(more) : more[k].msg = n
      BY <2>3, MessageTypes
    <2>5. Len(sent') = n /\ sent' \in Seq(Requests)
      BY <1>3, <2>1
    <2> HIDE DEF more
    <2>6. wire' \in Seq(Bytes)
      BY <1>3, <2>1, <2>4
    <2>7. \A i \in 1..Len(wire') : \/ i \in 1..Len(wire) /\ wire'[i] = wire[i]
                                   \/ \E k \in 1..Len(more) : wire'[i] = more[k]
      <3> SUFFICES ASSUME NEW i \in 1..Len(wire')
                   PROVE  \/ i \in 1..Len(wire) /\ wire'[i] = wire[i]
                          \/ \E k \in 1..Len(more) : wire'[i] = more[k]
        OBVIOUS
      <3>1. CASE i <= Len(wire)
        BY <1>3, <2>1, <2>4, <3>1
      <3>2. CASE i > Len(wire)
        <4>1. i - Len(wire) \in 1..Len(more) /\ wire'[i] = more[i - Len(wire)]
          BY <1>3, <2>1, <2>4, <3>2
        <4>2. QED
          BY <4>1
      <3>3. QED
        BY <1>3, <3>1, <3>2
    <2>8. SourceInv'
      <3>1. \A i \in 0..(RxSize - 1) : rxb[i].msg \in Nat /\ rxb[i].msg <= Len(sent)
        BY DEF BoundsInv, SourceInv, TypeOK, Bytes
      <3>2. \A i \in 0..(RxSize - 1) : rxb'[i].msg <= n
        BY <1>1, <1>3, <3>1 DEF bufVars
      <3>3. \A i \in 1..Len(wire) : wire[i].msg \in Nat /\ wire[i].msg <= Len(sent)
        <4>1. \A i \in 1..Len(wire) : wire[i] \in Bytes
          BY <1>3
        <4>2. QED
          BY <4>1 DEF BoundsInv, SourceInv, Bytes
      <3>4. \A i \in 1..Len(wire') : wire'[i].msg <= n
        BY <1>3, <2>3, <2>4, <2>7, <3>3
      <3>5. QED
        BY <2>5, <3>2, <3>4 DEF SourceInv
    <2>9. TypeOK'
      BY <1>1, <2>1, <2>5, <2>6 DEF TypeOK, bufVars, txVars, shiftVars
    <2>10. pc # "accept"
      BY <2>2 DEF BoundsInv
    <2>11. QED
      BY <1>1, <1>2, <2>1, <2>8, <2>9, <2>10 DEF BoundsInv, txVars, shiftVars
  <1>7. QED
    BY <1>4, <1>5, <1>6

\* A new connection: the buffers are empty.
LEMMA AcceptStep ==
    ASSUME TypeOK, BoundsInv, Accept
    PROVE  TypeOK' /\ BoundsInv'
  <1>1. /\ pc = "accept" /\ sent' = <<>> /\ rxb' = NoRx /\ rp' = 0 /\ rl' = 0
        /\ txb' = NoTx /\ tl' = 0 /\ tp' = 0 /\ supVecLen' \in SupVecLens
        /\ UNCHANGED <<nClients, shiftVars>>
    BY DEF Accept
  <1>2. pending' \in 0..MaxClients /\ pending' <= nClients
    BY ConnAssumption DEF Accept, TypeOK, BoundsInv
  <1>3. wire = <<>>
    BY <1>1 DEF BoundsInv
  <1>4. /\ wire' = <<>> /\ isOpen' \in BOOLEAN
        /\ pc' \in {"top", "accept", "exit"} /\ errors' \in 0..MaxErrors
        /\ pc' = "accept" => isOpen' = FALSE
    <2>1. CASE pc' = "top" /\ isOpen' = TRUE /\ wire' = <<>> /\ UNCHANGED errors
      <3>1. isOpen' \in BOOLEAN
        BY <2>1, Zenon
      <3>2. QED
        BY <2>1, <3>1 DEF TypeOK
    <2>2. CASE Throws
      BY <1>3, <2>2, CloseTypes
    <2>3. QED
      BY <2>1, <2>2 DEF Accept
  <1>5. rxb' \in [0..(RxSize - 1) -> Bytes] /\ \A i \in 0..(RxSize - 1) : rxb'[i].msg = 0
    BY <1>1, Sizes DEF NoRx, NoByte, Bytes
  <1>6. DOMAIN txb' = 0..(TxSize - 1)
    BY <1>1 DEF NoTx
  <1>7. supVecLen' \in 0..MaxVecLen /\ supVecLen' > 0
    BY <1>1, ConnAssumption
  <1>8. TypeOK'
    <2>1. wire' \in Seq(Bytes) /\ sent' \in Seq(Requests)
      BY <1>1, <1>4
    <2>2. QED
      BY <1>1, <1>2, <1>4, <1>5, <1>6, <1>7, <2>1 DEF TypeOK, shiftVars
  <1>9. SourceInv'
    BY <1>1, <1>4, <1>5 DEF SourceInv
  <1>10. BufferInv'
    BY <1>1, <1>4, Sizes DEF BufferInv
  <1>11. tp' + tl' <= TxSize
    BY <1>1, Sizes
  <1>12. QED
    BY <1>1, <1>2, <1>4, <1>7, <1>8, <1>9, <1>10, <1>11 DEF BoundsInv, shiftVars

\* read(): some octets move from the wire to the buffer, behind the first n.
LEMMA ReadTypes ==
    ASSUME TypeOK, BoundsInv, NEW n \in Nat, NEW max \in Nat, ReadSome(n, max)
    PROVE  /\ rl' \in (n + 1)..(n + max)
           /\ rxb' \in [0..(RxSize - 1) -> Bytes] /\ wire' \in Seq(Bytes) /\ SourceInv'
           /\ \A i \in 0..(RxSize - 1) : i < rp + n => rxb'[i] = rxb[i]
           /\ pending' \in 0..MaxClients /\ pending' <= nClients
           /\ UNCHANGED <<rp, nClients, isOpen, sent, answer, txVars, supVecLen, shiftVars,
                          driven, errors>>
  <1>1. PICK got \in 1..max :
           /\ got <= Len(wire)
           /\ rxb' = Store(rxb, rp + n, SubSeq(wire, 1, got))
           /\ rl' = n + got
           /\ wire' = SubSeq(wire, got + 1, Len(wire))
           /\ RejectPending
           /\ UNCHANGED <<rp, nClients, isOpen, sent, answer, txVars, supVecLen, shiftVars,
                          driven, errors>>
    BY DEF ReadSome
  <1>2. rp + n \in Nat /\ got \in 0..Len(wire) /\ rxb \in [0..(RxSize - 1) -> Bytes]
    BY <1>1 DEF TypeOK
  <1> DEFINE s == SubSeq(wire, 1, got)
  <1>3. s \in Seq(Bytes) /\ Len(s) = got /\ wire' \in Seq(Bytes)
    BY <1>1, <1>2, WireParts
  <1>4. /\ \A i \in 1..Len(s) : s[i] = wire[i] /\ i \in 1..Len(wire)
        /\ \A i \in 1..Len(wire') : wire'[i] = wire[got + i] /\ got + i \in 1..Len(wire)
    BY <1>1, <1>2, <1>3, WireParts
  <1> HIDE DEF s
  <1>5. rxb' = Store(rxb, rp + n, s)
    BY <1>1 DEF s
  <1>6. /\ rxb' \in [0..(RxSize - 1) -> Bytes]
        /\ \A i \in 0..(RxSize - 1) : i < rp + n => rxb'[i] = rxb[i]
        /\ \A i \in 0..(RxSize - 1) : rxb'[i] = rxb[i] \/ \E k \in 1..Len(s) : rxb'[i] = s[k]
    <2>1. RxSize \in Nat /\ rp + n \in Nat /\ s \in Seq(Bytes)
      BY <1>2, <1>3, Sizes
    <2>2. rxb \in [0..(RxSize - 1) -> Bytes]
      BY <1>2
    <2>3. QED
      BY <1>5, <2>1, <2>2, StoreType, ZenonT(30)
  <1>7. SourceInv'
    <2>1. sent' = sent
      BY <1>1
    <2>2. \A i \in 0..(RxSize - 1) : rxb'[i].msg <= Len(sent)
      BY <1>4, <1>6 DEF BoundsInv, SourceInv
    <2>3. \A i \in 1..Len(wire') : wire'[i].msg <= Len(sent)
      BY <1>4 DEF BoundsInv, SourceInv
    <2>4. QED
      BY <2>1, <2>2, <2>3 DEF SourceInv
  <1>8. pending' \in 0..MaxClients /\ pending' <= nClients
    <2>1. pending' \in 0..MaxClients /\ pending' <= pending
      BY <1>1, RejectType
    <2>2. QED
      BY <2>1 DEF TypeOK, BoundsInv
  <1>9. rl' \in (n + 1)..(n + max)
    BY <1>1
  <1>10. QED
    BY <1>1, <1>3, <1>6, <1>7, <1>8, <1>9

\* What fill() is asked for fits behind one chunk.
LEMMA NeedType ==
    ASSUME TypeOK, BoundsInv
    PROVE  Need \in Nat /\ Need <= chunk
  <1>1. BytesOf(bits) \in Nat
    BY BytesOfBits DEF TypeOK, BoundsInv
  <1>2. pc = "vectors" => 2 * BytesOf(bits) <= chunk
    BY <1>1, Sizes, ConnAssumption DEF BoundsInv, ChunkInv
  <1>3. /\ TagLen \in Nat /\ GetInfoLen \in Nat /\ SetTckLen \in Nat /\ ShiftHdrLen \in Nat
        /\ TagLen <= chunk /\ GetInfoLen <= chunk /\ SetTckLen <= chunk /\ ShiftHdrLen <= chunk
    BY ConnAssumption, Sizes
  <1>4. QED
    BY <1>1, <1>2, <1>3, Sizes DEF Need

\* A read at the top of the loop or in fill().
LEMMA ReadStep ==
    ASSUME TypeOK, BoundsInv, ReadTop \/ Fill
    PROVE  TypeOK' /\ BoundsInv'
  <1>1. Need \in Nat /\ Need <= chunk /\ chunk \in Nat /\ chunk >= 1 /\ RxSize = 2 * chunk
    BY NeedType, Sizes
  <1>2. rp \in Nat /\ rl \in Nat /\ Serving /\ BufferInv /\ supVecLen > 0
    BY DEF TypeOK, BoundsInv, ReadTop, Fill, Filling, Serving
  <1>3. CASE ReadTop
    <2>1. /\ pc = "top" /\ pc' = "tag" /\ ReadSome(0, chunk) /\ rl = 0 /\ rp = 0
      BY <1>2, <1>3 DEF ReadTop, BufferInv
    <2>2. /\ rl' \in 1..chunk
          /\ rxb' \in [0..(RxSize - 1) -> Bytes] /\ wire' \in Seq(Bytes) /\ SourceInv'
          /\ pending' \in 0..MaxClients /\ pending' <= nClients
          /\ UNCHANGED <<rp, nClients, isOpen, sent, answer, txVars, supVecLen, shiftVars,
                         driven, errors>>
      BY <1>1, <2>1, ReadTypes
    <2>3. TypeOK'
      BY <1>1, <2>1, <2>2 DEF TypeOK, txVars, shiftVars
    <2>4. BufferInv'
      BY <1>1, <2>1, <2>2 DEF BufferInv
    <2>5. QED
      BY <1>2, <2>1, <2>2, <2>3, <2>4 DEF BoundsInv, txVars, shiftVars
  <1>4. CASE Fill
    <2>1. pc' = pc /\ rl < Need /\ ReadSome(rl, Need - rl)
          /\ pc \in {"tag", "getinfo", "settck", "shift", "vectors"}
      BY <1>4 DEF Fill, Filling
    <2>2. /\ rl' \in (rl + 1)..Need
          /\ rxb' \in [0..(RxSize - 1) -> Bytes] /\ wire' \in Seq(Bytes) /\ SourceInv'
          /\ \A i \in 0..(RxSize - 1) : i < rp + rl => rxb'[i] = rxb[i]
          /\ pending' \in 0..MaxClients /\ pending' <= nClients
          /\ UNCHANGED <<rp, nClients, isOpen, sent, answer, txVars, supVecLen, shiftVars,
                         driven, errors>>
      <3>1. Need - rl \in Nat /\ rl + (Need - rl) = Need
        BY <1>1, <1>2, <2>1
      <3>2. QED
        BY <1>2, <2>1, <3>1, ReadTypes
    <2>3. TypeOK'
      BY <1>1, <1>2, <2>1, <2>2 DEF TypeOK, txVars, shiftVars
    <2>4. Need' = Need /\ ChunkInv' = ChunkInv
      BY <2>1, <2>2 DEF Need, ChunkInv, shiftVars
    <2>5. BufferInv'
      <3>1. pc \in {"getinfo", "settck", "shift"} => rxb'[rp] = rxb[rp]
        BY <1>1, <1>2, <2>2, ConnAssumption DEF BufferInv
      <3>2. pc' # "chunks" /\ pc' # "top"
        BY <2>1
      <3>3. rl' <= Need' /\ rl' \in Nat /\ rl' >= rl /\ rl' # 0
        BY <1>1, <1>2, <2>2, <2>4
      <3>4. QED
        BY <1>2, <2>1, <2>2, <3>1, <3>2, <3>3, ConnAssumption DEF BufferInv
    <2>6. QED
      BY <1>2, <2>1, <2>2, <2>3, <2>4, <2>5 DEF BoundsInv, Serving, txVars, shiftVars
  <1>5. QED
    BY <1>3, <1>4

\* A client is quiet and another one turned away; or nothing happens.
LEMMA RejectStep ==
    ASSUME TypeOK, BoundsInv, RejectWhileWaiting \/ UNCHANGED vars
    PROVE  TypeOK' /\ BoundsInv'
  <1>1. /\ UNCHANGED <<nClients, isOpen, sent, wire, pc, bufVars, txVars, supVecLen, shiftVars>>
        /\ errors' = errors
    BY DEF RejectWhileWaiting, vars, clientVars
  <1>2. pending' \in 0..MaxClients /\ pending' <= pending
    <2>1. CASE RejectWhileWaiting
      BY <2>1, RejectType DEF RejectWhileWaiting
    <2>2. CASE UNCHANGED vars
      BY <2>2 DEF TypeOK, vars, clientVars
    <2>3. QED
      BY <2>1, <2>2
  <1>3. TypeOK'
    BY <1>1, <1>2 DEF TypeOK, bufVars, txVars, shiftVars
  <1>4. /\ Serving' = Serving /\ BufferInv' = BufferInv /\ ChunkInv' = ChunkInv
        /\ SourceInv' = SourceInv
    BY <1>1 DEF Serving, BufferInv, ChunkInv, SourceInv, Need, bufVars, shiftVars
  <1>5. pending' <= nClients'
    BY <1>1, <1>2 DEF TypeOK, BoundsInv
  <1>6. QED
    BY <1>1, <1>3, <1>4, <1>5 DEF BoundsInv, txVars, shiftVars

\* The client is gone: the connection is closed, or SIGPIPE ends the process.
LEMMA ClosedStep ==
    ASSUME TypeOK, BoundsInv, ReadEnd \/ FlushFails
    PROVE  TypeOK' /\ BoundsInv'
  <1>1. /\ UNCHANGED <<nClients, sent, bufVars, txVars, supVecLen, shiftVars>>
        /\ errors' \in 0..MaxErrors
    BY DEF ReadEnd, FlushFails, TypeOK
  <1>2. CloseConnection \/ (pc' = "exit" /\ UNCHANGED <<isOpen, wire>>)
    BY DEF ReadEnd, FlushFails
  <1>3. pending' \in 0..MaxClients /\ pending' <= pending
    <2>1. CASE ReadEnd
      BY <2>1, RejectType DEF ReadEnd
    <2>2. CASE FlushFails
      BY <2>2 DEF TypeOK, FlushFails
    <2>3. QED
      BY <2>1, <2>2
  <1>4. CASE CloseConnection
    <2>1. pc' \in {"accept", "exit"} /\ ~isOpen' /\ isOpen' \in BOOLEAN /\ wire' = <<>>
      BY <1>4, CloseTypes, Zenon
    <2>2. QED
      BY <1>1, <1>3, <2>1, EndStep
  <1>5. CASE pc' = "exit" /\ UNCHANGED <<isOpen, wire>>
    <2>1. isOpen' \in BOOLEAN
      BY <1>5, Zenon DEF TypeOK
    <2>2. QED
      BY <1>1, <1>3, <1>5, <2>1, EndStep
  <1>6. QED
    BY <1>2, <1>4, <1>5

\* bump() takes a command off the buffer: what is behind it begins in the first
\* chunk.
LEMMA BumpTypes ==
    ASSUME TypeOK, NEW n \in Nat, n <= rl, bump(n), rp <= chunk,
           rp + rl <= chunk \/ rl <= n
    PROVE  /\ rl' \in Nat /\ rp' \in Nat /\ (rl' = 0 => rp' = 0)
           /\ rp' <= chunk /\ rp' + rl' <= chunk
  BY Sizes DEF TypeOK, bump

\* The command at rp_ is known: it is one that the client sent.
LEMMA CommandAt ==
    ASSUME TypeOK, BoundsInv, pc \in {"getinfo", "settck", "shift"}
    PROVE  /\ rxb[rp].msg \in 1..Len(sent)
           /\ Arg \in Nat /\ Arg < Wrap
  <1>1. rp \in 0..(RxSize - 1)
    BY Sizes DEF TypeOK, BoundsInv, Serving, BufferInv
  <1>2. rxb[rp].msg \in Nat /\ rxb[rp].msg > 0
    BY <1>1 DEF TypeOK, Bytes, BoundsInv, Serving, BufferInv
  <1>3. rxb[rp].msg <= Len(sent) /\ Len(sent) \in Nat
    BY <1>1 DEF TypeOK, BoundsInv, SourceInv
  <1>4. rxb[rp].msg \in 1..Len(sent)
    BY <1>2, <1>3
  <1>5. sent[rxb[rp].msg] \in Requests
    BY <1>4 DEF TypeOK
  <1>6. sent[rxb[rp].msg].arg \in 0..(Wrap - 1)
    BY <1>5, ConnAssumption
  <1>7. QED
    BY <1>4, <1>6, ConnAssumption DEF Arg

\* A command is found at rp_.
LEMMA DispatchStep ==
    ASSUME TypeOK, BoundsInv, Dispatch
    PROVE  TypeOK' /\ BoundsInv'
  <1>1. /\ pc = "tag" /\ rl >= TagLen /\ pc' = (IF Tag = "other" THEN "exit" ELSE Tag)
        /\ UNCHANGED <<clientVars, bufVars, txVars, supVecLen, shiftVars, errors>>
    BY DEF Dispatch, Filled, Need
  <1>2. Serving /\ BufferInv /\ supVecLen > 0 /\ rp \in Nat /\ rl \in Nat
    BY <1>1 DEF BoundsInv, Serving, TypeOK
  <1>3. rp \in 0..(RxSize - 1)
    BY <1>2, Sizes DEF BufferInv
  <1>4. Tag # "other" => rxb[rp].msg > 0 /\ Tag \in {"getinfo", "settck", "shift"}
    <2>1. ASSUME Tag # "other"
          PROVE  rxb[rp].msg > 0 /\ Tag = sent[rxb[rp].msg].kind
      BY <2>1 DEF Tag
    <2>2. rxb[rp].msg \in Nat /\ rxb[rp].msg <= Len(sent) /\ Len(sent) \in Nat
      BY <1>3 DEF TypeOK, Bytes, BoundsInv, SourceInv
    <2>3. rxb[rp].msg > 0 => sent[rxb[rp].msg] \in Requests
      BY <2>2 DEF TypeOK
    <2>4. rxb[rp].msg > 0 => sent[rxb[rp].msg].kind \in {"getinfo", "settck", "shift", "other"}
      BY <2>3, ConnAssumption
    <2>5. QED
      BY <2>1, <2>4
  <1>5. pc' \in {"getinfo", "settck", "shift", "exit"} /\ (pc' # "exit" => rxb[rp].msg > 0)
    BY <1>1, <1>4
  <1>6. TypeOK'
    BY <1>1, <1>5 DEF TypeOK, clientVars, bufVars, txVars, shiftVars
  <1>7. SourceInv'
    BY <1>1 DEF BoundsInv, SourceInv, clientVars, bufVars
  <1>8. pc' # "exit" => BufferInv'
    <2>1. TagLen \in Nat /\ (pc' # "exit" => Need' \in Nat /\ TagLen <= Need')
      BY <1>5, ConnAssumption DEF Need
    <2>2. Need = TagLen
      BY <1>1 DEF Need
    <2>3. QED
      BY <1>1, <1>2, <1>5, <2>1, <2>2 DEF BufferInv, bufVars
  <1>9. QED
    BY <1>1, <1>2, <1>5, <1>6, <1>7, <1>8 DEF BoundsInv, Serving, clientVars, txVars, shiftVars

\* An answer of no more than the overhead goes to txb_.
LEMMA PutTypes ==
    ASSUME TypeOK, NEW s, Len(s) \in 0..Overhead, Put(s)
    PROVE  DOMAIN txb' = 0..(TxSize - 1) /\ tl' \in Nat /\ tp' \in Nat /\ tp' + tl' <= TxSize
  BY Sizes, ConnAssumption DEF TypeOK, Put, Store

\* A "getinfo" or "settck" is answered and taken off the buffer.
LEMMA AnswerStep ==
    ASSUME TypeOK, BoundsInv, GetInfo \/ SetTck
    PROVE  TypeOK' /\ BoundsInv'
  <1>1. /\ pc \in {"getinfo", "settck"} /\ rl >= Need
        /\ UNCHANGED <<pending, nClients, sent, rxb, supVecLen, shiftVars>>
    BY DEF GetInfo, SetTck, Filled, clientVars
  <1>2. Serving /\ BufferInv /\ supVecLen > 0
    BY <1>1 DEF BoundsInv, Serving
  <1>3. Need \in Nat /\ (pc = "getinfo" => Need = GetInfoLen) /\ (pc = "settck" => Need = SetTckLen)
    BY NeedType DEF Need
  <1>4. ASSUME bump(Need), NEW s, Len(s) \in 0..Overhead, Put(s), pc' = "flush",
               UNCHANGED <<isOpen, wire, errors>>
        PROVE  TypeOK' /\ BoundsInv'
    <2>1. /\ rl' \in Nat /\ rp' \in Nat /\ (rl' = 0 => rp' = 0)
          /\ rp' <= chunk /\ rp' + rl' <= chunk
      BY <1>1, <1>2, <1>3, <1>4, BumpTypes DEF BufferInv
    <2>2. DOMAIN txb' = 0..(TxSize - 1) /\ tl' \in Nat /\ tp' \in Nat /\ tp' + tl' <= TxSize
      BY <1>4, PutTypes
    <2>3. TypeOK'
      BY <1>1, <1>4, <2>1, <2>2 DEF TypeOK, shiftVars
    <2>4. BufferInv'
      BY <1>4, <2>1 DEF BufferInv
    <2>5. SourceInv'
      BY <1>1, <1>4 DEF BoundsInv, SourceInv
    <2>6. QED
      BY <1>1, <1>2, <1>4, <2>2, <2>3, <2>4, <2>5 DEF BoundsInv, shiftVars
  <1>5. CASE SetTck
    <2>1. Len(PeriodAnswer(Arg)) \in 0..Overhead
      BY ConnAssumption DEF PeriodAnswer
    <2>2. QED
      BY <1>3, <1>4, <1>5, <2>1 DEF SetTck, Filled, clientVars
  <1>6. CASE GetInfo /\ Throws /\ UNCHANGED <<bufVars, txVars>>
    <2>1. pending' \in 0..MaxClients /\ pending' <= pending
      BY <1>1 DEF TypeOK
    <2>2. /\ pc' \in {"accept", "exit"} /\ errors' \in 0..MaxErrors
          /\ pc' = "accept" => ~isOpen' /\ wire' = <<>>
          /\ isOpen' \in BOOLEAN /\ (wire' = wire \/ wire' = <<>>)
      BY <1>6, CloseTypes, Zenon
    <2>3. QED
      BY <1>1, <1>6, <2>1, <2>2, EndStep
  <1>7. CASE GetInfo /\ Put(InfoAnswer) /\ bump(GetInfoLen) /\ pc' = "flush"
             /\ UNCHANGED <<isOpen, wire, errors>>
    <2>1. Len(InfoAnswer) \in 0..Overhead
      BY ConnAssumption DEF InfoAnswer
    <2>2. QED
      BY <1>3, <1>4, <1>7, <2>1 DEF GetInfo, Filled
  <1>8. QED
    BY <1>5, <1>6, <1>7 DEF GetInfo

\* The bit count of a "shift" is known.
LEMMA ShiftHeaderStep ==
    ASSUME TypeOK, BoundsInv, ShiftHeader
    PROVE  TypeOK' /\ BoundsInv'
  <1>1. /\ pc = "shift" /\ rl >= ShiftHdrLen /\ bits' = Arg /\ bitsLeft' = Arg /\ off' = 0
        /\ UNCHANGED <<clientVars, rxb, txVars, supVecLen, errors>>
    BY DEF ShiftHeader, Filled, Need
  <1>2. Serving /\ BufferInv /\ supVecLen > 0
    BY <1>1 DEF BoundsInv, Serving
  <1>3. bits' \in Nat /\ bits' < Wrap /\ bitsLeft' = bits' /\ off' = 0
    BY <1>1, CommandAt
  <1>4. SourceInv'
    BY <1>1 DEF BoundsInv, SourceInv, clientVars
  <1>5. CASE pc' = "exit" /\ UNCHANGED <<rp, rl>>
    <2>1. TypeOK'
      BY <1>1, <1>3, <1>5 DEF TypeOK, clientVars, txVars
    <2>2. QED
      BY <1>1, <1>3, <1>4, <1>5, <2>1 DEF BoundsInv, Serving, clientVars, txVars
  <1>6. CASE BytesOf(Arg) <= MaxVecLen /\ pc' = "vectors" /\ bump(ShiftHdrLen)
    <2>1. Need = ShiftHdrLen /\ ShiftHdrLen \in Nat
      BY <1>1, NeedType DEF Need
    <2>2. /\ rl' \in Nat /\ rp' \in Nat /\ (rl' = 0 => rp' = 0)
          /\ rp' <= chunk /\ rp' + rl' <= chunk
      BY <1>1, <1>2, <1>6, <2>1, BumpTypes DEF BufferInv
    <2>3. TypeOK'
      BY <1>1, <1>3, <1>6, <2>2 DEF TypeOK, clientVars, txVars
    <2>4. BufferInv'
      BY <1>6, <2>2 DEF BufferInv
    <2>5. ChunkInv'
      BY <1>1, <1>3, <1>6 DEF ChunkInv
    <2>6. QED
      BY <1>1, <1>2, <1>3, <1>4, <1>6, <2>3, <2>4, <2>5 DEF BoundsInv, clientVars, txVars
  <1>7. BytesOf(Arg) \in Nat /\ MaxVecLen \in Nat
    BY <1>1, CommandAt, BytesOfBits, ConnAssumption
  <1>8. QED
    BY <1>5, <1>6, <1>7 DEF ShiftHeader

\* The vectors are there.
LEMMA ShiftVectorsStep ==
    ASSUME TypeOK, BoundsInv, ShiftVectors
    PROVE  TypeOK' /\ BoundsInv'
  <1>1. /\ pc = "vectors" /\ pc' = "chunks" /\ rl >= 2 * BytesOf(bits) /\ Need = 2 * BytesOf(bits)
        /\ UNCHANGED <<clientVars, bufVars, txVars, supVecLen, shiftVars, errors>>
    BY DEF ShiftVectors, Filled, Need
  <1>2. BufferInv /\ supVecLen > 0 /\ ChunkInv
    BY <1>1 DEF BoundsInv, Serving
  <1>3. TypeOK'
    BY <1>1 DEF TypeOK, clientVars, bufVars, txVars, shiftVars
  <1>4. BufferInv'
    BY <1>1, <1>2 DEF BufferInv, bufVars, shiftVars
  <1>5. ChunkInv' /\ SourceInv'
    BY <1>1, <1>2 DEF ChunkInv, SourceInv, BoundsInv, bufVars, clientVars, shiftVars
  <1>6. QED
    BY <1>1, <1>2, <1>3, <1>4, <1>5 DEF BoundsInv, clientVars, txVars, shiftVars

\* The size of the next chunk: no more than there are bits left, and no octets
\* but those of the vector.
LEMMA NextChunk ==
    ASSUME TypeOK, BoundsInv, pc = "chunks", bitsLeft > 0
    PROVE  /\ BytesOf(bits) \in Nat /\ vecLen \in Nat /\ bitsSent \in Nat /\ bitsSent <= bitsLeft
           /\ BytesOf(bits) = 0 => vecLen = 0 /\ bitsSent = 0
           /\ BytesOf(bits) > 0 /\ bitsSent < bitsLeft => bitsSent = 8 * vecLen
           /\ BytesOf(bitsSent) \in Nat /\ off + BytesOf(bitsSent) <= BytesOf(bits)
  <1>1. /\ bits \in Nat /\ bitsLeft \in Nat /\ off \in Nat /\ supVecLen \in Nat /\ supVecLen > 0
        /\ bits < Wrap /\ ChunkInv
    BY ConnAssumption DEF TypeOK, BoundsInv, Serving
  <1>2. /\ BytesOf(bits) \in Nat
        /\ bits + 7 < Wrap => BytesOf(bits) = (bits + 7) \div 8
        /\ bits + 7 >= Wrap => BytesOf(bits) = 0
    BY <1>1, BytesOfBits
  <1> DEFINE B == BytesOf(bits)
             v == vecLen
             n == bitsSent
  <1>3. v = IF B > supVecLen THEN supVecLen ELSE B
    BY DEF vecLen
  <1>4. n = IF bitsLeft < 8 * v THEN bitsLeft ELSE 8 * v
    BY DEF bitsSent
  <1>5. B \in Nat /\ (B = 0 => off = 0) /\ (B > 0 => 8 * off + bitsLeft = bits)
    BY <1>1, <1>2 DEF ChunkInv
  <1> HIDE DEF B, v, n
  <1>6. v \in Nat /\ n \in Nat /\ n <= bitsLeft /\ (B = 0 => v = 0 /\ n = 0)
        /\ (n < bitsLeft => n = 8 * v)
    BY <1>1, <1>3, <1>4, <1>5
  <1>7. /\ BytesOf(0) = 0
        /\ BytesOf(n) \in Nat /\ off + BytesOf(n) <= B
    <2>1. Wrap \in Nat \ {0}
      BY ConnAssumption
    <2>2. BytesOf(0) = 0
      <3>1. /\ 0 + 7 < Wrap => BytesOf(0) = (0 + 7) \div 8
            /\ 0 + 7 >= Wrap => BytesOf(0) = 0
        BY <2>1, BytesOfBits
      <3>2. (0 + 7) \div 8 = 0
        OBVIOUS
      <3>3. QED
        BY <2>1, <3>1, <3>2
    <2>3. CASE B = 0
      BY <1>5, <1>6, <2>2, <2>3
    <2>4. CASE B > 0
      <3>1. bits + 7 < Wrap /\ B = (bits + 7) \div 8
        BY <1>1, <1>2, <2>1, <2>4 DEF B
      <3>2. n + 7 < Wrap /\ n < Wrap /\ 8 * off + n <= bits
        BY <1>1, <1>5, <1>6, <2>1, <2>4, <3>1
      <3>3. BytesOf(n) \in Nat /\ BytesOf(n) = (n + 7) \div 8
        BY <1>6, <3>2, BytesOfBits
      <3>4. off + ((n + 7) \div 8) <= (bits + 7) \div 8
        BY <1>1, <1>6, <3>2
      <3>5. QED
        BY <2>2, <3>1, <3>3, <3>4
    <2>5. QED
      BY <1>5, <2>3, <2>4
  <1>8. QED
    BY <1>5, <1>6, <1>7 DEF B, v, n

\* One chunk is sent, or the driver throws.
LEMMA ShiftChunkStep ==
    ASSUME TypeOK, BoundsInv, ShiftChunk
    PROVE  TypeOK' /\ BoundsInv'
  <1>1. /\ pc = "chunks" /\ bitsLeft > 0
        /\ UNCHANGED <<pending, nClients, sent, bufVars, tl, tp, supVecLen, bits>>
    BY DEF ShiftChunk
  <1>2. BufferInv /\ supVecLen > 0 /\ ChunkInv /\ bits \in Nat /\ bitsLeft \in Nat /\ off \in Nat
    BY <1>1 DEF BoundsInv, Serving, TypeOK
  <1>3. CASE /\ txb' = Store(txb, off, Tdo(bitsSent))
             /\ bitsLeft' = bitsLeft - bitsSent /\ off' = off + vecLen
             /\ UNCHANGED <<pc, isOpen, wire, errors>>
    <2>1. /\ vecLen \in Nat /\ bitsSent \in Nat /\ bitsSent <= bitsLeft
          /\ BytesOf(bits) = 0 => vecLen = 0 /\ bitsSent = 0
          /\ BytesOf(bits) > 0 /\ bitsSent < bitsLeft => bitsSent = 8 * vecLen
          /\ BytesOf(bits) \in Nat
      BY <1>1, NextChunk
    <2>2. bitsLeft' \in Nat /\ off' \in Nat
      BY <1>2, <1>3, <2>1
    <2>3. DOMAIN txb' = 0..(TxSize - 1)
      BY <1>3 DEF TypeOK, Store
    <2>4. TypeOK'
      BY <1>1, <1>3, <2>2, <2>3 DEF TypeOK, bufVars
    <2>5. BufferInv' /\ SourceInv'
      BY <1>1, <1>2, <1>3 DEF BufferInv, BoundsInv, SourceInv, bufVars, Need
    <2>6. ChunkInv'
      <3>1. CASE BytesOf(bits) = 0
        BY <1>1, <1>2, <1>3, <2>1, <3>1 DEF ChunkInv
      <3>2. CASE BytesOf(bits) > 0
        <4>1. bitsLeft' > 0 => bitsSent < bitsLeft
          BY <1>2, <1>3, <2>1
        <4>2. bitsLeft' > 0 => 8 * off' + bitsLeft' = bits
          BY <1>1, <1>2, <1>3, <2>1, <3>2, <4>1 DEF ChunkInv
        <4>3. QED
          BY <1>1, <1>2, <3>2, <4>2 DEF ChunkInv
      <3>3. QED
        BY <2>1, <3>1, <3>2
    <2>7. QED
      BY <1>1, <1>2, <1>3, <2>4, <2>5, <2>6 DEF BoundsInv
  <1>4. CASE Throws /\ UNCHANGED <<txb, driven, bitsLeft, off>>
    <2>1. pending' \in 0..MaxClients /\ pending' <= pending
      BY <1>1 DEF TypeOK
    <2>2. /\ pc' \in {"accept", "exit"} /\ errors' \in 0..MaxErrors
          /\ pc' = "accept" => ~isOpen' /\ wire' = <<>>
          /\ isOpen' \in BOOLEAN /\ (wire' = wire \/ wire' = <<>>)
      BY <1>4, CloseTypes, Zenon
    <2>3. UNCHANGED <<nClients, sent, bufVars, txVars, supVecLen, shiftVars>>
      BY <1>1, <1>4 DEF txVars, shiftVars
    <2>4. QED
      BY <2>1, <2>2, <2>3, EndStep
  <1>5. QED
    BY <1>3, <1>4 DEF ShiftChunk

\* All chunks are sent: the TDO goes out, the vectors leave the buffer.
LEMMA ShiftDoneStep ==
    ASSUME TypeOK, BoundsInv, ShiftDone
    PROVE  TypeOK' /\ BoundsInv'
  <1>1. /\ pc = "chunks" /\ pc' = "flush" /\ tl' = BytesOf(bits) /\ tp' = 0
        /\ bump(2 * BytesOf(bits))
        /\ UNCHANGED <<clientVars, rxb, txb, supVecLen, shiftVars, errors>>
    BY DEF ShiftDone
  <1>2. BufferInv /\ supVecLen > 0 /\ ChunkInv /\ bits \in Nat /\ bits < Wrap
    BY <1>1 DEF BoundsInv, Serving, TypeOK
  <1>3. BytesOf(bits) \in Nat /\ 2 * BytesOf(bits) \in Nat
    BY <1>2, BytesOfBits
  <1>4. /\ rl' \in Nat /\ rp' \in Nat /\ (rl' = 0 => rp' = 0)
        /\ rp' <= chunk /\ rp' + rl' <= chunk
    BY <1>1, <1>2, <1>3, BumpTypes DEF BufferInv
  <1>5. tl' \in Nat /\ tp' \in Nat /\ tp' + tl' <= TxSize
    BY <1>1, <1>2, <1>3, Sizes, ConnAssumption DEF ChunkInv
  <1>6. TypeOK'
    BY <1>1, <1>4, <1>5 DEF TypeOK, clientVars, shiftVars
  <1>7. BufferInv'
    BY <1>1, <1>4 DEF BufferInv
  <1>8. SourceInv'
    BY <1>1 DEF BoundsInv, SourceInv, clientVars
  <1>9. QED
    BY <1>1, <1>2, <1>5, <1>6, <1>7, <1>8 DEF BoundsInv, clientVars, shiftVars

\* flush() writes some octets, or is done.
LEMMA FlushStep ==
    ASSUME TypeOK, BoundsInv, FlushSome \/ FlushDone
    PROVE  TypeOK' /\ BoundsInv'
  <1>1. /\ pc = "flush" /\ UNCHANGED <<clientVars, bufVars, txb, supVecLen, shiftVars, errors>>
    BY DEF FlushSome, FlushDone, txVars
  <1>2. BufferInv /\ supVecLen > 0 /\ Need = 0 /\ rl \in Nat /\ rp \in Nat
    BY <1>1 DEF BoundsInv, Serving, Need, TypeOK
  <1>3. tl' \in Nat /\ tp' \in Nat /\ tp' + tl' <= TxSize
    <2>1. tl \in Nat /\ tp \in Nat /\ tp + tl <= TxSize /\ TxSize \in Nat
      BY Sizes DEF TypeOK, BoundsInv
    <2>2. CASE FlushSome
      <3>1. PICK put \in 1..tl : tl' = tl - put /\ tp' = tp + put
        BY <2>2 DEF FlushSome
      <3>2. QED
        BY <2>1, <3>1
    <2>3. CASE FlushDone
      <3>1. tl' = tl /\ tp' = tp
        BY <2>3 DEF FlushDone, txVars
      <3>2. QED
        BY <2>1, <3>1
    <2>4. QED
      BY <2>2, <2>3
  <1>4. pc' \in {"flush", "tag", "top"} /\ (pc' = "top" => rl = 0) /\ (pc' = "tag" => rl > 0)
    BY <1>1, <1>2 DEF FlushSome, FlushDone
  <1>5. TypeOK'
    BY <1>1, <1>3, <1>4 DEF TypeOK, clientVars, bufVars, shiftVars
  <1>6. BufferInv'
    <2>1. rp + rl <= chunk
      BY <1>1, <1>2, Sizes DEF BufferInv
    <2>2. QED
      BY <1>1, <1>2, <1>4, <2>1 DEF BufferInv, bufVars
  <1>7. SourceInv'
    BY <1>1 DEF BoundsInv, SourceInv, clientVars, bufVars
  <1>8. QED
    BY <1>1, <1>2, <1>3, <1>4, <1>5, <1>6, <1>7 DEF BoundsInv, clientVars, shiftVars

-----------------------------------------------------------------------------
\* The server is started.
LEMMA ConnInit == Init => TypeOK /\ BoundsInv
  <1> SUFFICES ASSUME Init PROVE TypeOK /\ BoundsInv
    OBVIOUS
  <1>1. isOpen = FALSE /\ isOpen \in BOOLEAN
    BY Zenon DEF Init
  <1>2. rxb \in [0..(RxSize - 1) -> Bytes] /\ \A i \in 0..(RxSize - 1) : rxb[i].msg = 0
    BY Sizes DEF Init, NoRx, NoByte, Bytes
  <1>3. DOMAIN txb = 0..(TxSize - 1)
    BY DEF Init, NoTx
  <1>4. /\ pending = 0 /\ nClients = 0 /\ sent = <<>> /\ wire = <<>> /\ pc = "accept" /\ rp = 0
        /\ rl = 0 /\ tl = 0 /\ tp = 0 /\ supVecLen = 0 /\ bits = 0 /\ bitsLeft = 0 /\ off = 0
        /\ errors = 0
    BY DEF Init
  <1>5. TypeOK
    BY <1>1, <1>2, <1>3, <1>4, ConnAssumption DEF TypeOK
  <1>6. SourceInv
    BY <1>2, <1>4 DEF SourceInv
  <1>7. BoundsInv
    BY <1>1, <1>4, <1>6, Sizes, ConnAssumption DEF BoundsInv, Serving
  <1>8. QED
    BY <1>5, <1>7

\* One step of the server or of a client.
LEMMA ConnStep ==
    ASSUME TypeOK, BoundsInv, [Next]_vars
    PROVE  TypeOK' /\ BoundsInv'
  BY ClientStep, AcceptStep, RejectStep, ReadStep, ClosedStep, DispatchStep, AnswerStep,
     ShiftHeaderStep, ShiftVectorsStep, ShiftChunkStep, ShiftDoneStep, FlushStep
  DEF Next, Server

\* The invariant keeps every access inside the buffers.
LEMMA InvInBounds == ASSUME TypeOK, BoundsInv PROVE InBounds
  <1>1. /\ rp \in Nat /\ rl \in Nat /\ bits \in Nat /\ bitsLeft \in Nat /\ off \in Nat
        /\ bits < Wrap
    BY DEF TypeOK, BoundsInv
  <1>2. BytesOf(bits) \in Nat /\ Need \in Nat /\ Need <= chunk
    BY <1>1, BytesOfBits, NeedType
  <1>3. pc = "top" => rp + chunk <= RxSize
    BY <1>1, Sizes DEF BoundsInv, Serving, BufferInv
  <1>4. Filling => rp + Need <= RxSize
    <2>1. Filling => rp <= chunk
      BY DEF Filling, BoundsInv, Serving, BufferInv
    <2>2. QED
      BY <1>1, <1>2, <2>1, Sizes
  <1>5. pc \in {"vectors", "chunks"} => BytesOf(bits) <= MaxVecLen
    BY DEF BoundsInv, ChunkInv
  <1>6. pc \in {"vectors", "chunks"} => BytesOf(bits) <= TxSize
    BY <1>2, <1>5, Sizes, ConnAssumption
  <1>7. pc = "chunks" => rp + 2 * BytesOf(bits) <= RxSize
    <2>1. pc = "chunks" => rp <= chunk
      BY DEF BoundsInv, Serving, BufferInv
    <2>2. QED
      BY <1>1, <1>2, <1>5, <2>1, Sizes, ConnAssumption
  <1>8. pc = "chunks" /\ bitsLeft > 0 => off + BytesOf(bitsSent) <= BytesOf(bits)
    BY NextChunk
  <1>9. QED
    BY <1>3, <1>4, <1>6, <1>7, <1>8 DEF InBounds, BoundsInv

\* Type correctness: the buffers keep their sizes, the lengths and offsets stay
\* natural numbers (bump() never takes more than there is), the bit count of a
\* command is that of a request which was sent.
THEOREM ConnTypes == Spec => []TypeOK
  BY ConnInit, ConnStep, PTL DEF Spec

\* Whatever clients send, also a bit count for which the number of octets
\* overflows, and however TCP cuts it up: no octet outside rxb_ and txb_ is read
\* or written, for every maxVecLen_ and every size of the commands that fits the
\* overhead of allocBufs.  The inductive invariant is BoundsInv.
THEOREM BuffersInBounds == Spec => []InBounds
  BY ConnInit, ConnStep, InvInBounds, PTL DEF Spec
=============================================================================
