--------------------------- MODULE XvcAnswersProofs ---------------------------
(***************************************************************************)
(* Theorems about what XvcConn answers and drives: the framing of the      *)
(* stream, the answers in order and complete, every bit driven once.       *)
(***************************************************************************)
EXTENDS XvcConnProofs, WellFoundedInduction

\* Why these two hold.  What the server has not taken off the buffer yet, read or
\* still on the wire, is a piece of the stream without gaps.
Piece(b, p, n, w) == [k \in 1..(n + Len(w)) |-> IF k <= n THEN b[p + k - 1] ELSE w[k - n]]
Octets == Piece(rxb, rp, rl, wire)

\* The place o octets behind the start of request n, which may be its end
Place(ms, n, o) ==
    IF o = 0 \/ o < MessageLen(ms[n]) THEN [msg |-> n, off |-> o] ELSE [msg |-> n + 1, off |-> 0]

InStream(u, ms) ==
    /\ \A k \in 1..Len(u) : u[k].msg \in 1..Len(ms) /\ u[k].off < MessageLen(ms[u[k].msg])
    /\ \A k, j \in 1..Len(u) :
          k < j /\ u[k].off + (j - k) <= MessageLen(ms[u[k].msg])
              => u[j] = Place(ms, u[k].msg, u[k].off + (j - k))

\* u, if there is any of it, begins at place o of request n
Begins(u, ms, n, o) == Len(u) > 0 => u[1] = Place(ms, n, o)

\* Nothing is missing at the end of u, which begins there
Whole(u, ms, n, o) ==
    /\ Len(u) = 0 => Place(ms, n, o) = [msg |-> Len(ms) + 1, off |-> 0]
    /\ \A k \in 1..Len(u) :
          LET end == k + (MessageLen(ms[u[k].msg]) - u[k].off) - 1
          IN  IF u[k].msg = Len(ms) THEN end = Len(u) ELSE end < Len(u)

InShift == pc \in {"vectors", "chunks"}
Started == IF InShift THEN ShiftHdrLen ELSE 0

\* d requests are done, and the server is where it should be in the next
FramedAt(d) ==
    /\ InStream(Octets, sent)
    /\ Begins(Octets, sent, d + 1, Started)
    /\ isOpen => Whole(Octets, sent, d + 1, Started)
    /\ pc \in {"getinfo", "settck", "shift"} => d < Len(sent) /\ sent[d + 1].kind = pc
    /\ InShift => d < Len(sent) /\ sent[d + 1].kind = "shift" /\ bits = sent[d + 1].arg /\ bitsLeft <= bits
    /\ pc = "vectors" => off = 0 /\ bitsLeft = bits

\* Those d are answered, but for what flush() still has to write
Part(b, p, n) == [k \in 1..n |-> b[p + k - 1]]
toWrite == IF pc = "flush" THEN Part(txb, tp, tl) ELSE <<>>
tdoReady == IF bitsLeft > 0 THEN off ELSE BytesOf(bits)
AnsweredAt(d) ==
    /\ answer \o toWrite = AnswersTo(SubSeq(sent, 1, d))
    /\ pc = "chunks" => \A k \in 1..tdoReady : txb[k - 1] = AnswerTo(d + 1, sent[d + 1])[k]

\* Their bits, and those of the chunks so far, are driven
someSent == pc = "chunks" /\ bitsLeft < bits
DrivenAt(d) ==
    /\ someSent => driven # <<>>
    /\ driven # <<>> => LET c == driven[Len(driven)] IN
          IF someSent THEN c.msg = d + 1 /\ c.first + c.n = bits - bitsLeft
                      ELSE c.msg <= d /\ c.first + c.n = sent[c.msg].arg

\* The octets of answers, and of a transmit buffer that nothing was put into
Out ==
    {<<>>} \cup {<<"info", k>> : k \in Nat} \cup {<<"period", t, k>> : t \in Nat, k \in Nat}
           \cup {<<"tdo", b, c>> : b \in Bytes, c \in Bytes}

Calls == [msg : Nat, first : Nat, n : Nat]

\* No request has so many bits that their octets cannot be counted
NoWrap == \A m \in Requests : m.arg + 7 < Wrap

AnswersInv ==
    /\ answer \in Seq(Out)
    /\ txb \in [0..(TxSize - 1) -> Out]
    /\ AnswersMatch
    /\ driven \in Seq(Calls)
    /\ NoWrap => EachBitOnce /\ \A i \in 1..Len(driven) : driven[i].msg \in 1..Len(sent)
    /\ Serving => \E d \in 0..Len(sent) :
                     FramedAt(d) /\ AnsweredAt(d) /\ (NoWrap => DrivenAt(d))

-----------------------------------------------------------------------------
\* Every set of natural numbers that is not empty has a least element.
LEMMA LeastNat ==
    ASSUME NEW T, T \subseteq Nat, T # {}
    PROVE  \E n \in T : \A m \in T : n <= m
  <1> DEFINE R == OpToRel(<, Nat)
  <1>1. IsWellFoundedOn(R, Nat)
    BY NatLessThanWellFounded, Zenon
  <1>2. \A x, y \in Nat : x < y => <<x, y>> \in R
    BY Zenon DEF OpToRel
  <1> HIDE DEF R
  <1>3. \E x \in T : \A y \in T : ~(<<y, x>> \in R)
    BY <1>1, WFMin
  <1>4. \E x \in T : \A y \in T : ~(y < x)
    BY <1>2, <1>3, Zenon
  <1>5. QED
    BY <1>4

\* Induction, for a property of numbers that is given as the set of those that
\* have it.
LEMMA SetInduction ==
    ASSUME NEW S, 0 \in S, \A n \in Nat : n \in S => n + 1 \in S
    PROVE  Nat \subseteq S
  <1> SUFFICES ASSUME Nat \ S # {} PROVE FALSE
    OBVIOUS
  <1>1. PICK n \in Nat \ S : \A m \in Nat \ S : n <= m
    BY LeastNat
  <1>2. QED
    BY <1>1

\* f joins the first i elements of s, for every i
Joins(f, s, n) == f = [i \in 1..n |-> IF i = 1 THEN s[i] ELSE f[i - 1] \o s[i]]

\* There is a function that joins the first n elements, and it is the only one.
LEMMA JoinExists ==
    ASSUME NEW s
    PROVE  \A n \in Nat : \E f : Joins(f, s, n)
  <1> DEFINE S == {n \in Nat : \E f : Joins(f, s, n)}
  <1>1. 0 \in S
    <2>1. Joins([i \in 1..0 |-> 0], s, 0)
      BY DEF Joins
    <2>2. QED
      BY <2>1
  <1>2. ASSUME NEW n \in Nat, n \in S
        PROVE  n + 1 \in S
    <2>1. PICK f : Joins(f, s, n)
      BY <1>2
    <2> DEFINE last == IF n = 0 THEN s[1] ELSE f[n] \o s[n + 1]
               g == [i \in 1..(n + 1) |-> IF i = n + 1 THEN last ELSE f[i]]
    <2>2. \A i \in 1..n : f[i] = IF i = 1 THEN s[i] ELSE f[i - 1] \o s[i]
      BY <2>1 DEF Joins
    <2>3. \A i \in 1..(n + 1) : g[i] = IF i = 1 THEN s[i] ELSE g[i - 1] \o s[i]
      <3> SUFFICES ASSUME NEW i \in 1..(n + 1)
                   PROVE  g[i] = IF i = 1 THEN s[i] ELSE g[i - 1] \o s[i]
        OBVIOUS
      <3>1. CASE i = n + 1
        <4>1. CASE n = 0
          BY <3>1, <4>1
        <4>2. CASE n # 0
          <5>1. i # 1 /\ i - 1 = n /\ i - 1 \in 1..(n + 1) /\ n # n + 1
            BY <3>1, <4>2
          <5>2. g[i] = f[n] \o s[n + 1] /\ g[i - 1] = f[n]
            BY <3>1, <4>2, <5>1
          <5>3. QED
            BY <3>1, <5>1, <5>2
        <4>3. QED
          BY <4>1, <4>2
      <3>2. CASE i # n + 1
        <4>1. i \in 1..n /\ g[i] = f[i] /\ (i # 1 => i - 1 \in 1..n /\ i - 1 # n + 1 /\ g[i - 1] = f[i - 1])
          BY <3>2
        <4>2. QED
          BY <2>2, <4>1
      <3>3. QED
        BY <3>1, <3>2
    <2>4. Joins(g, s, n + 1)
      <3> HIDE DEF last
      <3>1. g = [i \in 1..(n + 1) |-> g[i]]
        OBVIOUS
      <3> HIDE DEF g
      <3>2. [i \in 1..(n + 1) |-> g[i]] =
            [i \in 1..(n + 1) |-> IF i = 1 THEN s[i] ELSE g[i - 1] \o s[i]]
        BY <2>3, Zenon
      <3>3. QED
        BY <3>1, <3>2, Zenon DEF Joins
    <2>5. QED
      BY <2>4
  <1> HIDE DEF S
  <1>3. Nat \subseteq S
    BY <1>1, <1>2, SetInduction
  <1>4. QED
    BY <1>3 DEF S

\* Two such functions agree where what they join agrees.
LEMMA JoinSame ==
    ASSUME NEW f, NEW g, NEW s, NEW t, NEW n \in Nat, NEW m \in Nat, n <= m,
           Joins(f, s, n), Joins(g, t, m), \A i \in 1..n : s[i] = t[i]
    PROVE  \A i \in 1..n : f[i] = g[i]
  <1> DEFINE S == {i \in Nat : i \in 1..n => f[i] = g[i]}
  <1>1. \A i \in 1..n : f[i] = IF i = 1 THEN s[i] ELSE f[i - 1] \o s[i]
    BY DEF Joins
  <1>2. \A i \in 1..m : g[i] = IF i = 1 THEN t[i] ELSE g[i - 1] \o t[i]
    BY DEF Joins
  <1>3. 0 \in S
    OBVIOUS
  <1>4. ASSUME NEW i \in Nat, i \in S
        PROVE  i + 1 \in S
    <2> SUFFICES ASSUME i + 1 \in 1..n PROVE f[i + 1] = g[i + 1]
      OBVIOUS
    <2>1. i + 1 \in 1..m
      OBVIOUS
    <2>2. CASE i = 0
      BY <1>1, <1>2, <2>1, <2>2
    <2>3. CASE i # 0
      <3>1. f[i] = g[i] /\ (i + 1) - 1 = i /\ i + 1 # 1
        BY <1>4, <2>3
      <3>2. f[i + 1] = f[i] \o s[i + 1] /\ g[i + 1] = g[i] \o t[i + 1]
        BY <1>1, <1>2, <2>1, <3>1
      <3>3. QED
        BY <3>1, <3>2
    <2>4. QED
      BY <2>2, <2>3
  <1> HIDE DEF S
  <1>5. Nat \subseteq S
    BY <1>3, <1>4, SetInduction
  <1>6. QED
    BY <1>5 DEF S

\* FlattenSeq is the last value of that function.
LEMMA FlattenJoins ==
    ASSUME NEW s, Len(s) \in Nat \ {0}
    PROVE  \E f : Joins(f, s, Len(s)) /\ FlattenSeq(s) = f[Len(s)]
  <1> DEFINE F == CHOOSE f : Joins(f, s, Len(s))
  <1>1. \E f : Joins(f, s, Len(s))
    BY JoinExists
  <1>2. Joins(F, s, Len(s))
    BY <1>1, Zenon
  <1>3. FlattenSeq(s) = F[Len(s)]
    BY Zenon DEF FlattenSeq, Joins
  <1>4. QED
    BY <1>2, <1>3, Zenon

\* Answers are sequences of such octets.
LEMMA InfoType == InfoAnswer \in Seq(Out) /\ Len(InfoAnswer) = InfoLen
  <1>1. InfoLen \in Nat
    BY ConnAssumption
  <1>2. \A k \in 1..InfoLen : <<"info", k>> \in Out
    BY <1>1 DEF Out
  <1>3. QED
    BY <1>1, <1>2 DEF InfoAnswer

\* So is the answer to a "settck".
LEMMA PeriodType ==
    ASSUME NEW p \in Nat
    PROVE  PeriodAnswer(p) \in Seq(Out) /\ Len(PeriodAnswer(p)) = PeriodLen
  <1>1. PeriodLen \in Nat
    BY ConnAssumption
  <1>2. setPeriodNs(p) \in Nat
    BY ConnAssumption DEF setPeriodNs
  <1>3. \A k \in 1..PeriodLen : <<"period", setPeriodNs(p), k>> \in Out
    BY <1>1, <1>2 DEF Out
  <1>4. QED
    BY <1>1, <1>3 DEF PeriodAnswer

\* The answer to a request; that to a "shift", octet by octet.
LEMMA AnswerType ==
    ASSUME NEW n \in Nat, NEW m \in Requests
    PROVE  /\ AnswerTo(n, m) \in Seq(Out)
           /\ m.kind = "shift" =>
                /\ BytesOf(m.arg) \in Nat /\ Len(AnswerTo(n, m)) = BytesOf(m.arg)
                /\ \A k \in 1..BytesOf(m.arg) : AnswerTo(n, m)[k] =
                      <<"tdo", [msg |-> n, off |-> ShiftHdrLen + k - 1],
                               [msg |-> n, off |-> ShiftHdrLen + BytesOf(m.arg) + k - 1]>>
  <1>1. m.kind \in {"getinfo", "settck", "shift", "other"} /\ m.arg \in Nat /\ m.arg < Wrap
    BY ConnAssumption
  <1>2. BytesOf(m.arg) \in Nat /\ ShiftHdrLen \in Nat
    BY <1>1, BytesOfBits, ConnAssumption
  <1>3. CASE m.kind = "getinfo"
    BY <1>3, InfoType DEF AnswerTo
  <1>4. CASE m.kind = "settck"
    BY <1>1, <1>4, PeriodType DEF AnswerTo
  <1>5. CASE m.kind = "shift"
    <2> DEFINE B == BytesOf(m.arg)
               x(k) == <<"tdo", [msg |-> n, off |-> ShiftHdrLen + k - 1],
                                [msg |-> n, off |-> ShiftHdrLen + B + k - 1]>>
    <2>1. AnswerTo(n, m) = [k \in 1..B |-> x(k)]
      BY <1>5 DEF AnswerTo
    <2> HIDE DEF B
    <2>2. B \in Nat
      BY <1>2 DEF B
    <2>3. ASSUME NEW k \in 1..B PROVE x(k) \in Out
      <3>1. ShiftHdrLen + k - 1 \in Nat /\ ShiftHdrLen + B + k - 1 \in Nat
        BY <1>2, <2>2
      <3>2. [msg |-> n, off |-> ShiftHdrLen + k - 1] \in Bytes
            /\ [msg |-> n, off |-> ShiftHdrLen + B + k - 1] \in Bytes
        BY <3>1 DEF Bytes
      <3> DEFINE b == [msg |-> n, off |-> ShiftHdrLen + k - 1]
                 c == [msg |-> n, off |-> ShiftHdrLen + B + k - 1]
      <3> HIDE DEF b, c
      <3>3. <<"tdo", b, c>> \in Out
        BY <3>2 DEF Out, b, c
      <3>4. QED
        BY <3>3 DEF b, c
    <2> HIDE DEF x
    <2>4. [k \in 1..B |-> x(k)] \in Seq(Out) /\ Len([k \in 1..B |-> x(k)]) = B
          /\ \A k \in 1..B : [i \in 1..B |-> x(i)][k] = x(k)
      BY <2>2, <2>3
    <2>5. QED
      BY <1>5, <2>1, <2>2, <2>4 DEF B, x
  <1>6. CASE m.kind = "other"
    BY <1>6 DEF AnswerTo
  <1>7. QED
    BY <1>1, <1>3, <1>4, <1>5, <1>6

\* One more request, one more answer.
LEMMA AnswersNext ==
    ASSUME NEW ms \in Seq(Requests), NEW d \in Nat, d < Len(ms)
    PROVE  AnswersTo(SubSeq(ms, 1, d + 1)) = AnswersTo(SubSeq(ms, 1, d)) \o AnswerTo(d + 1, ms[d + 1])
  <1> DEFINE a == [n \in 1..Len(SubSeq(ms, 1, d)) |-> AnswerTo(n, SubSeq(ms, 1, d)[n])]
             b == [n \in 1..Len(SubSeq(ms, 1, d + 1)) |-> AnswerTo(n, SubSeq(ms, 1, d + 1)[n])]
             x == AnswerTo(d + 1, ms[d + 1])
  <1>1. /\ Len(SubSeq(ms, 1, d)) = d /\ Len(SubSeq(ms, 1, d + 1)) = d + 1
        /\ \A n \in 1..d : SubSeq(ms, 1, d)[n] = ms[n]
        /\ \A n \in 1..(d + 1) : SubSeq(ms, 1, d + 1)[n] = ms[n]
        /\ ms[d + 1] \in Requests
    OBVIOUS
  <1>2. /\ Len(a) = d /\ Len(b) = d + 1
        /\ \A n \in 1..d : a[n] = AnswerTo(n, ms[n])
        /\ \A n \in 1..(d + 1) : b[n] = AnswerTo(n, ms[n])
    BY <1>1
  <1>3. AnswersTo(SubSeq(ms, 1, d)) = FlattenSeq(a) /\ AnswersTo(SubSeq(ms, 1, d + 1)) = FlattenSeq(b)
    BY Zenon DEF AnswersTo
  <1> HIDE DEF a, b
  <1>4. PICK g : Joins(g, b, d + 1) /\ FlattenSeq(b) = g[d + 1]
    BY <1>2, FlattenJoins
  <1>5. \A i \in 1..(d + 1) : g[i] = IF i = 1 THEN b[i] ELSE g[i - 1] \o b[i]
    BY <1>4 DEF Joins
  <1>6. x \in Seq(Out)
    <2>1. d + 1 \in Nat
      OBVIOUS
    <2>2. QED
      BY <1>1, <2>1, AnswerType
  <1>7. CASE d = 0
    <2>1. FlattenSeq(a) = a /\ a = <<>>
      <3>1. FlattenSeq(a) = a
        BY <1>2, <1>7 DEF FlattenSeq
      <3>2. a = <<>>
        BY <1>1, <1>7 DEF a
      <3>3. QED
        BY <3>1, <3>2
    <2>2. FlattenSeq(b) = x
      BY <1>2, <1>4, <1>5, <1>7
    <2>3. <<>> \o x = x
      BY <1>6
    <2>4. QED
      BY <1>3, <2>1, <2>2, <2>3
  <1>8. CASE d # 0
    <2>1. PICK f : Joins(f, a, d) /\ FlattenSeq(a) = f[d]
      BY <1>2, <1>8, FlattenJoins
    <2>2. \A i \in 1..d : f[i] = g[i]
      <3>1. d \in Nat /\ d + 1 \in Nat /\ d <= d + 1 /\ \A i \in 1..d : a[i] = b[i]
        BY <1>2
      <3>2. QED
        BY <1>4, <2>1, <3>1, JoinSame
    <2>3. g[d + 1] = g[d] \o x /\ d \in 1..d
      <3>1. d + 1 \in 1..(d + 1) /\ d + 1 # 1 /\ (d + 1) - 1 = d /\ d \in 1..d
        BY <1>8
      <3>2. b[d + 1] = x
        BY <1>2, <3>1
      <3> HIDE DEF x
      <3>3. QED
        BY <1>5, <3>1, <3>2
    <2>4. QED
      BY <1>3, <1>4, <2>1, <2>2, <2>3
  <1>9. QED
    BY <1>7, <1>8

\* The answers to the first d requests are a sequence of octets.
LEMMA AnswersType ==
    ASSUME NEW ms \in Seq(Requests)
    PROVE  /\ AnswersTo(<<>>) = <<>>
           /\ AnswersTo(SubSeq(ms, 1, Len(ms))) = AnswersTo(ms)
           /\ \A d \in 0..Len(ms) : AnswersTo(SubSeq(ms, 1, d)) \in Seq(Out)
  <1>1. AnswersTo(<<>>) = <<>>
    <2> DEFINE a == [n \in 1..Len(<<>>) |-> AnswerTo(n, <<>>[n])]
    <2>1. AnswersTo(<<>>) = FlattenSeq(a)
      BY Zenon DEF AnswersTo
    <2>2. a = <<>> /\ Len(a) = 0
      OBVIOUS
    <2> HIDE DEF a
    <2>3. FlattenSeq(a) = a
      BY <2>2 DEF FlattenSeq
    <2>4. QED
      BY <2>1, <2>2, <2>3
  <1>2. SubSeq(ms, 1, Len(ms)) = ms /\ SubSeq(ms, 1, 0) = <<>>
    OBVIOUS
  <1> DEFINE S == {d \in Nat : d <= Len(ms) => AnswersTo(SubSeq(ms, 1, d)) \in Seq(Out)}
  <1>3. 0 \in S
    <2>1. <<>> \in Seq(Out)
      OBVIOUS
    <2>2. AnswersTo(SubSeq(ms, 1, 0)) \in Seq(Out)
      BY <1>1, <1>2, <2>1, Zenon
    <2>3. QED
      BY <2>2
  <1>4. ASSUME NEW d \in Nat, d \in S PROVE d + 1 \in S
    <2> SUFFICES ASSUME d + 1 <= Len(ms) PROVE AnswersTo(SubSeq(ms, 1, d + 1)) \in Seq(Out)
      OBVIOUS
    <2>1. d < Len(ms) /\ d + 1 \in Nat /\ ms[d + 1] \in Requests
      OBVIOUS
    <2>2. AnswersTo(SubSeq(ms, 1, d)) \in Seq(Out)
      BY <1>4, <2>1
    <2>3. AnswerTo(d + 1, ms[d + 1]) \in Seq(Out)
      BY <2>1, AnswerType
    <2>4. AnswersTo(SubSeq(ms, 1, d + 1)) = AnswersTo(SubSeq(ms, 1, d)) \o AnswerTo(d + 1, ms[d + 1])
      BY <2>1, AnswersNext
    <2> DEFINE x == AnswersTo(SubSeq(ms, 1, d))
               y == AnswerTo(d + 1, ms[d + 1])
    <2>5. x \o y \in Seq(Out)
      <3>1. x \in Seq(Out) /\ y \in Seq(Out)
        BY <2>2, <2>3
      <3> HIDE DEF x, y
      <3>2. QED
        BY <3>1
    <2>6. QED
      BY <2>4, <2>5, Zenon
  <1> HIDE DEF S
  <1>5. Nat \subseteq S
    BY <1>3, <1>4, SetInduction
  <1>6. \A d \in 0..Len(ms) : AnswersTo(SubSeq(ms, 1, d)) \in Seq(Out)
    BY <1>5 DEF S
  <1>7. QED
    BY <1>1, <1>2, <1>6

\* A prefix of answers is one of what they are a prefix of.
LEMMA PrefixTrans ==
    ASSUME NEW r \in Seq(Out), NEW s \in Seq(Out), NEW t \in Seq(Out), IsPrefix(r, s)
    PROVE  IsPrefix(r, s \o t)
  <1>1. Len(r) <= Len(s) /\ SubSeq(r, 1, Len(r)) = SubSeq(s, 1, Len(r))
    BY DEF IsPrefix
  <1>2. Len(r) <= Len(s \o t)
    BY <1>1
  <1>3. SubSeq(s, 1, Len(r)) = SubSeq(s \o t, 1, Len(r))
    BY <1>1
  <1>4. QED
    BY <1>1, <1>2, <1>3 DEF IsPrefix

\* The answers to the first requests are a prefix of the answers to all.
LEMMA AnswersPrefix ==
    ASSUME NEW ms \in Seq(Requests), NEW d \in 0..Len(ms),
           NEW r \in Seq(Out), IsPrefix(r, AnswersTo(SubSeq(ms, 1, d)))
    PROVE  IsPrefix(r, AnswersTo(ms))
  <1> DEFINE A(e) == AnswersTo(SubSeq(ms, 1, e))
             S == {e \in Nat : d <= e /\ e <= Len(ms) => IsPrefix(r, A(e))}
  <1>1. 0 \in S
    <2>1. d <= 0 => d = 0
      OBVIOUS
    <2>2. d <= 0 => IsPrefix(r, A(0))
      BY <2>1, Zenon
    <2>3. QED
      BY <2>2
  <1>2. ASSUME NEW e \in Nat, e \in S PROVE e + 1 \in S
    <2> SUFFICES ASSUME d <= e + 1, e + 1 <= Len(ms) PROVE IsPrefix(r, A(e + 1))
      OBVIOUS
    <2>1. CASE d = e + 1
      BY <2>1, Zenon
    <2>2. CASE d # e + 1
      <3>1. d <= e /\ e < Len(ms) /\ e \in 0..Len(ms) /\ e + 1 \in Nat /\ ms[e + 1] \in Requests
        BY <2>2
      <3>2. IsPrefix(r, A(e))
        BY <1>2, <3>1
      <3>3. A(e) \in Seq(Out) /\ AnswerTo(e + 1, ms[e + 1]) \in Seq(Out)
        BY <3>1, AnswersType, AnswerType
      <3>4. A(e + 1) = A(e) \o AnswerTo(e + 1, ms[e + 1])
        BY <3>1, AnswersNext
      <3> HIDE DEF A
      <3>5. QED
        BY <3>2, <3>3, <3>4, PrefixTrans
    <2>3. QED
      BY <2>1, <2>2
  <1> HIDE DEF S
  <1>3. Nat \subseteq S
    BY <1>1, <1>2, SetInduction
  <1>4. IsPrefix(r, A(Len(ms)))
    BY <1>3 DEF S
  <1>5. QED
    BY <1>4, AnswersType

-----------------------------------------------------------------------------
\* The length of a request: it has at least the octets that tell it apart.
LEMMA RequestLen ==
    ASSUME NEW m \in Requests
    PROVE  /\ MessageLen(m) \in Nat /\ MessageLen(m) >= TagLen /\ MessageLen(m) >= 1
           /\ m.kind = "getinfo" => MessageLen(m) = GetInfoLen
           /\ m.kind = "settck" => MessageLen(m) = SetTckLen
           /\ m.kind = "shift" => MessageLen(m) = ShiftHdrLen + 2 * BytesOf(m.arg)
  <1>1. m.kind \in {"getinfo", "settck", "shift", "other"} /\ m.arg \in Nat /\ m.arg < Wrap
    BY ConnAssumption
  <1>2. BytesOf(m.arg) \in Nat
    BY <1>1, BytesOfBits
  <1>3. /\ TagLen \in Nat \ {0} /\ GetInfoLen \in Nat /\ SetTckLen \in Nat /\ ShiftHdrLen \in Nat
        /\ TagLen <= GetInfoLen /\ TagLen <= SetTckLen /\ TagLen <= ShiftHdrLen
    BY ConnAssumption
  <1>4. QED
    BY <1>1, <1>2, <1>3 DEF MessageLen

\* The end of a request is the start of the next.
LEMMA NextPlace ==
    ASSUME NEW ms \in Seq(Requests), NEW n \in 1..Len(ms)
    PROVE  Place(ms, n, MessageLen(ms[n])) = Place(ms, n + 1, 0)
  <1>1. ms[n] \in Requests
    OBVIOUS
  <1>2. MessageLen(ms[n]) \in Nat /\ MessageLen(ms[n]) >= 1
    BY <1>1, RequestLen
  <1>3. QED
    BY <1>2 DEF Place

\* What is behind the first q octets begins q places further on.
LEMMA StreamBump ==
    ASSUME NEW ms \in Seq(Requests), NEW u \in Seq(Bytes), NEW v \in Seq(Bytes),
           NEW q \in 0..Len(u), Len(v) = Len(u) - q, \A k \in 1..Len(v) : v[k] = u[k + q],
           NEW n \in 1..Len(ms), NEW o \in Nat, o + q <= MessageLen(ms[n]),
           InStream(u, ms), Begins(u, ms, n, o)
    PROVE  /\ InStream(v, ms) /\ Begins(v, ms, n, o + q)
           /\ Whole(u, ms, n, o) => Whole(v, ms, n, o + q)
  <1> DEFINE L(i) == MessageLen(ms[i])
  <1>1. \A i \in 1..Len(ms) : L(i) \in Nat /\ L(i) >= 1
    <2>1. \A i \in 1..Len(ms) : ms[i] \in Requests
      OBVIOUS
    <2>2. QED
      BY <2>1, RequestLen
  <1>2. \A i \in Nat, j \in Nat : Place(ms, i, j) =
           IF j = 0 \/ j < L(i) THEN [msg |-> i, off |-> j] ELSE [msg |-> i + 1, off |-> 0]
    BY DEF Place
  <1>3. \A k \in 1..Len(u) : u[k].msg \in 1..Len(ms) /\ u[k].off < L(u[k].msg) /\ u[k].off \in Nat
    <2>1. \A k \in 1..Len(u) : u[k] \in Bytes
      OBVIOUS
    <2>2. QED
      BY <2>1 DEF InStream, Bytes
  <1>4. \A k, j \in 1..Len(u) : k < j /\ u[k].off + (j - k) <= L(u[k].msg)
              => u[j] = Place(ms, u[k].msg, u[k].off + (j - k))
    BY DEF InStream
  <1>5. Len(u) > 0 => u[1] = Place(ms, n, o)
    BY DEF Begins
  <1>6. \A k \in 1..Len(v) : k + q \in 1..Len(u)
    OBVIOUS
  <1>7. o + q <= L(n) /\ L(n) \in Nat /\ L(n) >= 1
    BY <1>1
  <1>8. ASSUME q > 0 PROVE u[1] = [msg |-> n, off |-> o] /\ 1 \in 1..Len(u)
    BY <1>2, <1>5, <1>7, <1>8
  <1>9. InStream(v, ms)
    <2>1. \A k \in 1..Len(v) : v[k].msg \in 1..Len(ms) /\ v[k].off < L(v[k].msg)
      BY <1>3, <1>6
    <2>2. ASSUME NEW k \in 1..Len(v), NEW j \in 1..Len(v), k < j, v[k].off + (j - k) <= L(v[k].msg)
          PROVE  v[j] = Place(ms, v[k].msg, v[k].off + (j - k))
      <3>1. k + q \in 1..Len(u) /\ j + q \in 1..Len(u) /\ k + q < j + q /\ (j + q) - (k + q) = j - k
        BY <1>6, <2>2, SMTT(20)
      <3>2. v[k] = u[k + q] /\ v[j] = u[j + q]
        OBVIOUS
      <3> HIDE DEF L
      <3>3. u[j + q] = Place(ms, u[k + q].msg, u[k + q].off + ((j + q) - (k + q)))
        BY <1>4, <2>2, <3>1, <3>2
      <3>4. QED
        BY <3>1, <3>2, <3>3
    <2>3. QED
      BY <2>1, <2>2 DEF InStream
  <1>10. Begins(v, ms, n, o + q)
    <2> SUFFICES ASSUME Len(v) > 0 PROVE v[1] = Place(ms, n, o + q)
      BY DEF Begins
    <2>1. 1 \in 1..Len(v) /\ 1 \in 1..Len(u) /\ v[1] = u[1 + q] /\ 1 + q \in 1..Len(u)
      OBVIOUS
    <2>2. CASE q = 0
      BY <1>5, <2>1, <2>2
    <2>3. CASE q > 0
      <3>1. u[1] = [msg |-> n, off |-> o]
        BY <1>8, <2>3
      <3>2. u[1].off + ((1 + q) - 1) = o + q /\ u[1].msg = n
        BY <3>1
      <3> HIDE DEF L
      <3>3. u[1 + q] = Place(ms, u[1].msg, u[1].off + ((1 + q) - 1))
        BY <1>4, <1>7, <2>1, <2>3, <3>2
      <3>4. QED
        BY <2>1, <3>2, <3>3
    <2>4. QED
      BY <2>2, <2>3
  <1>11. ASSUME Whole(u, ms, n, o) PROVE Whole(v, ms, n, o + q)
    <2>1. /\ Len(u) = 0 => Place(ms, n, o) = [msg |-> Len(ms) + 1, off |-> 0]
          /\ \A k \in 1..Len(u) : LET end == k + (L(u[k].msg) - u[k].off) - 1
                                  IN  IF u[k].msg = Len(ms) THEN end = Len(u) ELSE end < Len(u)
      BY <1>11 DEF Whole
    <2>2. ASSUME Len(v) = 0 PROVE Place(ms, n, o + q) = [msg |-> Len(ms) + 1, off |-> 0]
      <3>1. Len(u) = q
        BY <2>2
      <3>2. CASE q = 0
        BY <2>1, <3>1, <3>2
      <3>3. CASE q > 0
        <4>1. u[1].msg = n /\ u[1].off = o /\ 1 \in 1..Len(u)
          BY <1>8, <3>3
        <4>2. IF n = Len(ms) THEN 1 + (L(n) - o) - 1 = q ELSE 1 + (L(n) - o) - 1 < q
          BY <2>1, <3>1, <4>1
        <4>3. o + q = L(n) /\ n = Len(ms)
          <5>1. \A l, a, b \in Nat : 1 + (l - a) - 1 = b => a + b = l
            OBVIOUS
          <5>2. \A l, a, b \in Nat : a + b <= l => ~(1 + (l - a) - 1 < b)
            OBVIOUS
          <5>3. o \in Nat /\ q \in Nat /\ Len(ms) \in Nat
            OBVIOUS
          <5> HIDE DEF L
          <5>4. n = Len(ms)
            BY <1>7, <4>2, <5>2, <5>3, Zenon
          <5>5. 1 + (L(n) - o) - 1 = q
            BY <4>2, <5>4, Zenon
          <5>6. QED
            BY <1>7, <5>1, <5>3, <5>4, <5>5, ZenonT(30)
        <4>4. QED
          BY <1>2, <1>7, <4>3
      <3>4. QED
        BY <3>2, <3>3
    <2>3. ASSUME NEW k \in 1..Len(v)
          PROVE  LET end == k + (L(v[k].msg) - v[k].off) - 1
                 IN  IF v[k].msg = Len(ms) THEN end = Len(v) ELSE end < Len(v)
      <3>1. k + q \in 1..Len(u) /\ v[k] = u[k + q]
        BY <1>6
      <3>2. v[k].msg \in 1..Len(ms) /\ v[k].off \in Nat
        BY <1>3, <3>1
      <3>3. L(v[k].msg) \in Nat
        BY <1>1, <3>2
      <3> HIDE DEF L
      <3> DEFINE l == L(v[k].msg)
                 f == v[k].off
      <3>4. IF v[k].msg = Len(ms) THEN (k + q) + (l - f) - 1 = Len(u) ELSE (k + q) + (l - f) - 1 < Len(u)
        BY <2>1, <3>1
      <3>5. l \in Nat /\ f \in Nat
        BY <3>2, <3>3
      <3> HIDE DEF l, f
      <3>6. /\ (k + q) + (l - f) - 1 = Len(u) => k + (l - f) - 1 = Len(v)
            /\ (k + q) + (l - f) - 1 < Len(u) => k + (l - f) - 1 < Len(v)
        BY <3>5
      <3>7. IF v[k].msg = Len(ms) THEN k + (l - f) - 1 = Len(v) ELSE k + (l - f) - 1 < Len(v)
        BY <3>4, <3>6, Zenon
      <3>8. QED
        BY <3>7, Zenon DEF l, f
    <2>4. QED
      BY <2>2, <2>3 DEF Whole
  <1>12. QED
    BY <1>9, <1>10, <1>11

\* The stream may lose its end.
LEMMA StreamCut ==
    ASSUME NEW ms \in Seq(Requests), NEW u \in Seq(Bytes), NEW v \in Seq(Bytes),
           Len(v) <= Len(u), \A k \in 1..Len(v) : v[k] = u[k],
           NEW n, NEW o, InStream(u, ms), Begins(u, ms, n, o)
    PROVE  InStream(v, ms) /\ Begins(v, ms, n, o)
  <1>1. \A k \in 1..Len(v) : k \in 1..Len(u)
    OBVIOUS
  <1>2. Begins(v, ms, n, o)
    BY DEF Begins
  <1>3. InStream(v, ms)
    BY <1>1 DEF InStream
  <1>4. QED
    BY <1>2, <1>3

\* One more request behind a stream that misses nothing.
LEMMA StreamMore ==
    ASSUME NEW ms \in Seq(Requests), NEW m \in Requests, NEW u \in Seq(Bytes),
           NEW n \in 1..(Len(ms) + 1), NEW o \in Nat, n = Len(ms) + 1 => o = 0,
           InStream(u, ms), Begins(u, ms, n, o), Whole(u, ms, n, o)
    PROVE  LET v == u \o MessageBytes(Len(ms) + 1, m)
               more == Append(ms, m)
           IN  InStream(v, more) /\ Begins(v, more, n, o) /\ Whole(v, more, n, o)
  <1> DEFINE more == Append(ms, m)
             w == MessageBytes(Len(ms) + 1, m)
             v == u \o w
             L(i) == MessageLen(more[i])
             N == Len(u)
             R == Len(ms)
             M == MessageLen(m)
  <1>1. more \in Seq(Requests) /\ Len(more) = R + 1 /\ more[R + 1] = m /\ R \in Nat /\ N \in Nat
    OBVIOUS
  <1>2. \A i \in 1..R : more[i] = ms[i]
    OBVIOUS
  <1>3. M \in Nat /\ M >= 1 /\ w \in Seq(Bytes)
    BY <1>1, RequestLen, MessageTypes
  <1>4. Len(w) = M /\ \A k \in 1..M : w[k] = [msg |-> R + 1, off |-> k - 1]
    <2> HIDE DEF M
    <2>1. w = [k \in 1..M |-> [msg |-> R + 1, off |-> k - 1]]
      BY DEF MessageBytes, M
    <2> HIDE DEF w, R
    <2>2. QED
      BY <1>3, <2>1
  <1> HIDE DEF w, M
  <1>5. Len(v) = N + M /\ \A k \in 1..N : v[k] = u[k]
    <2>1. Len(v) = Len(u) + Len(w) /\ \A k \in 1..Len(u) : v[k] = u[k]
      BY <1>3
    <2>2. QED
      BY <1>4, <2>1
  <1>6. \A k \in 1..(N + M) : k > N => v[k] = [msg |-> R + 1, off |-> k - N - 1]
    <2> SUFFICES ASSUME NEW k \in 1..(N + M), k > N PROVE v[k] = [msg |-> R + 1, off |-> k - N - 1]
      OBVIOUS
    <2>1. v[k] = w[k - N] /\ k - N \in 1..M
      BY <1>3, <1>4
    <2>2. QED
      BY <1>4, <2>1
  <1> HIDE DEF v
  <1>7. \A i \in 1..R : L(i) = MessageLen(ms[i]) /\ L(i) \in Nat /\ L(i) >= 1
    <2>1. \A i \in 1..R : ms[i] \in Requests
      OBVIOUS
    <2>2. QED
      BY <1>2, <2>1, RequestLen
  <1>8. L(R + 1) = M
    BY <1>1 DEF M
  <1>9. \A i \in 1..R, j \in Nat : Place(more, i, j) = Place(ms, i, j)
    BY <1>7 DEF Place
  <1>10. \A i \in 1..(R + 1), j \in Nat : Place(more, i, j) =
           IF j = 0 \/ j < L(i) THEN [msg |-> i, off |-> j] ELSE [msg |-> i + 1, off |-> 0]
    BY DEF Place
  <1>11. \A k \in 1..N : u[k].msg \in 1..R /\ u[k].off < L(u[k].msg) /\ u[k].off \in Nat
    <2>1. \A k \in 1..N : u[k] \in Bytes
      OBVIOUS
    <2>2. \A k \in 1..N : u[k].msg \in 1..R /\ u[k].off < MessageLen(ms[u[k].msg])
      BY DEF InStream
    <2>3. \A k \in 1..N : u[k].off \in Nat
      BY <2>1 DEF Bytes
    <2>4. QED
      BY <1>7, <2>2, <2>3
  <1>12. \A k \in 1..N : IF u[k].msg = R THEN k + (L(u[k].msg) - u[k].off) - 1 = N
                                        ELSE k + (L(u[k].msg) - u[k].off) - 1 < N
    BY <1>7, <1>11 DEF Whole
  <1>13. \A k, j \in 1..N : k < j /\ u[k].off + (j - k) <= L(u[k].msg)
              => u[j] = Place(more, u[k].msg, u[k].off + (j - k))
    <2> SUFFICES ASSUME NEW k \in 1..N, NEW j \in 1..N, k < j, u[k].off + (j - k) <= L(u[k].msg)
                 PROVE  u[j] = Place(more, u[k].msg, u[k].off + (j - k))
      OBVIOUS
    <2>1. u[k].msg \in 1..R /\ u[k].off + (j - k) \in Nat /\ L(u[k].msg) = MessageLen(ms[u[k].msg])
      BY <1>7, <1>11
    <2>2. u[j] = Place(ms, u[k].msg, u[k].off + (j - k))
      BY <2>1 DEF InStream
    <2>3. QED
      BY <1>9, <2>1, <2>2
  <1>14. Place(more, n, o) = Place(ms, n, o)
    BY <1>9 DEF Place
  <1> HIDE DEF L, more, R, N
  <1>15. InStream(v, more)
    <2>1. ASSUME NEW k \in 1..(N + M)
          PROVE  v[k].msg \in 1..(R + 1) /\ v[k].off < L(v[k].msg)
      <3>1. CASE k <= N
        BY <1>1, <1>3, <1>5, <1>11, <3>1
      <3>2. CASE k > N
        <4>1. v[k] = [msg |-> R + 1, off |-> k - N - 1]
          BY <1>6, <3>2
        <4>2. k - N - 1 < M /\ R + 1 \in 1..(R + 1)
          <5>1. \A a, b, c \in Nat : a <= b + c => a - b - 1 < c
            OBVIOUS
          <5>2. k \in Nat /\ k <= N + M
            BY <1>1, <1>3
          <5>3. k - N - 1 < M
            BY <1>1, <1>3, <5>1, <5>2, Zenon
          <5>4. QED
            BY <1>1, <5>3
        <4>3. v[k].msg = R + 1 /\ v[k].off = k - N - 1
          BY <4>1
        <4>4. QED
          BY <1>8, <4>2, <4>3
      <3>3. QED
        BY <1>1, <1>3, <3>1, <3>2
    <2>2. ASSUME NEW k \in 1..(N + M), NEW j \in 1..(N + M), k < j, v[k].off + (j - k) <= L(v[k].msg)
          PROVE  v[j] = Place(more, v[k].msg, v[k].off + (j - k))
      <3>1. CASE j <= N
        <4>1. k \in 1..N /\ j \in 1..N /\ v[k] = u[k] /\ v[j] = u[j]
          BY <1>1, <1>3, <1>5, <2>2, <3>1
        <4>2. QED
          BY <1>13, <2>2, <4>1
      <3>2. CASE k <= N /\ j > N
        <4> DEFINE i == u[k].msg
                   f == u[k].off
                   l == L(i)
        <4>1. v[k] = u[k] /\ k \in 1..N
          BY <1>1, <1>3, <1>5, <3>2
        <4>2. i \in 1..R /\ f < l /\ f \in Nat /\ l \in Nat
          BY <1>7, <1>11, <4>1
        <4>3. /\ IF i = R THEN k + (l - f) - 1 = N ELSE k + (l - f) - 1 < N
              /\ f + (j - k) <= l
          BY <1>12, <2>2, <4>1
        <4> HIDE DEF i, f, l
        <4>4. \A a, b, c, e, g \in Nat : a + (b - c) - 1 < e /\ c + (g - a) <= b => ~(g > e)
          OBVIOUS
        <4>5. i = R
          <5>1. k \in Nat /\ j \in Nat /\ N \in Nat
            BY <1>1, <1>3
          <5>2. QED
            BY <3>2, <4>2, <4>3, <4>4, <5>1, Zenon
        <4>6. j = N + 1 /\ f + (j - k) = l /\ f + (j - k) # 0
          BY <1>1, <1>3, <2>2, <3>2, <4>2, <4>3, <4>5
        <4>7. f + (j - k) \in Nat /\ ~(f + (j - k) < L(i)) /\ i \in 1..(R + 1)
          BY <1>1, <4>2, <4>5, <4>6 DEF l
        <4>8. Place(more, i, f + (j - k)) = [msg |-> R + 1, off |-> 0]
          BY <1>10, <4>5, <4>6, <4>7
        <4>9. v[j] = [msg |-> R + 1, off |-> 0]
          <5>1. j - N - 1 = 0
            BY <1>1, <4>6
          <5>2. QED
            BY <1>6, <3>2, <5>1
        <4>10. QED
          BY <4>1, <4>8, <4>9 DEF i, f
      <3>3. CASE k > N
        <4>1. v[k] = [msg |-> R + 1, off |-> k - N - 1] /\ v[j] = [msg |-> R + 1, off |-> j - N - 1]
          BY <1>1, <1>3, <1>6, <2>2, <3>3, SMTT(20)
        <4>2. (k - N - 1) + (j - k) = j - N - 1 /\ j - N - 1 \in Nat /\ j - N - 1 < M
          <5>1. k \in Nat /\ j \in Nat /\ j <= N + M /\ N < j
            BY <1>1, <1>3, <2>2, <3>3
          <5>2. /\ \A a, b, e \in Nat : (e - b - 1) + (a - e) = a - b - 1
                /\ \A a, b \in Nat : b < a => a - b - 1 \in Nat
                /\ \A a, b, c \in Nat : a <= b + c => a - b - 1 < c
            OBVIOUS
          <5>3. N \in Nat /\ M \in Nat
            BY <1>1, <1>3
          <5>4. (k - N - 1) + (j - k) = j - N - 1
            BY <5>1, <5>2, <5>3, Zenon
          <5>5. j - N - 1 \in Nat /\ j - N - 1 < M
            BY <5>1, <5>2, <5>3, Zenon
          <5>6. QED
            BY <5>4, <5>5, Zenon
        <4>3. Place(more, R + 1, j - N - 1) = [msg |-> R + 1, off |-> j - N - 1]
          BY <1>1, <1>8, <1>10, <4>2
        <4>4. QED
          BY <4>1, <4>2, <4>3
      <3>4. QED
        BY <1>1, <1>3, <3>1, <3>2, <3>3
    <2>3. QED
      BY <1>1, <1>5, <2>1, <2>2 DEF InStream, L
  <1>16. Begins(v, more, n, o)
    <2>1. CASE N = 0
      <3>1. Place(ms, n, o) = [msg |-> R + 1, off |-> 0]
        BY <2>1 DEF Whole, N, R
      <3>2. v[1] = [msg |-> R + 1, off |-> 0]
        <4>1. 1 \in 1..(N + M) /\ 1 > N /\ 1 - N - 1 = 0
          BY <1>3, <2>1
        <4>2. QED
          BY <1>6, <4>1
      <3>3. QED
        BY <1>14, <3>1, <3>2 DEF Begins
    <2>2. CASE N > 0
      <3>1. v[1] = u[1]
        BY <1>1, <1>5, <2>2
      <3>2. QED
        BY <1>14, <2>2, <3>1 DEF Begins, N
    <2>3. QED
      BY <1>1, <2>1, <2>2
  <1>17. Whole(v, more, n, o)
    <2>1. ASSUME NEW k \in 1..(N + M)
          PROVE  IF v[k].msg = R + 1 THEN k + (L(v[k].msg) - v[k].off) - 1 = N + M
                                     ELSE k + (L(v[k].msg) - v[k].off) - 1 < N + M
      <3>1. CASE k <= N
        <4> DEFINE i == u[k].msg
                   f == u[k].off
                   l == L(i)
        <4>1. v[k] = u[k] /\ k \in 1..N
          BY <1>1, <1>3, <1>5, <3>1
        <4>2. i \in 1..R /\ f \in Nat /\ l \in Nat
          BY <1>7, <1>11, <4>1
        <4>3. IF i = R THEN k + (l - f) - 1 = N ELSE k + (l - f) - 1 < N
          BY <1>12, <4>1
        <4> HIDE DEF i, f, l
        <4>4. i # R + 1 /\ k + (l - f) - 1 < N + M
          BY <1>1, <1>3, <4>2, <4>3
        <4>5. QED
          BY <4>1, <4>4 DEF i, f, l
      <3>2. CASE k > N
        <4>1. v[k].msg = R + 1 /\ v[k].off = k - N - 1
          <5>1. v[k] = [msg |-> R + 1, off |-> k - N - 1]
            BY <1>6, <3>2
          <5>2. QED
            BY <5>1
        <4>2. k + (M - (k - N - 1)) - 1 = N + M
          BY <1>1, <1>3
        <4>3. QED
          BY <1>8, <4>1, <4>2
      <3>3. QED
        BY <1>1, <1>3, <3>1, <3>2
    <2>2. Len(v) # 0
      BY <1>1, <1>3, <1>5
    <2>3. QED
      BY <1>1, <1>5, <2>1, <2>2 DEF Whole, L
  <1>18. QED
    BY <1>15, <1>16, <1>17 DEF v, more, w, R

-----------------------------------------------------------------------------
\* The octets in the buffer and those on the wire, as one sequence.
LEMMA PieceType ==
    ASSUME NEW b \in [0..(RxSize - 1) -> Bytes], NEW p \in Nat, NEW n \in Nat, p + n <= RxSize,
           NEW w \in Seq(Bytes)
    PROVE  /\ Piece(b, p, n, w) \in Seq(Bytes) /\ Len(Piece(b, p, n, w)) = n + Len(w)
           /\ \A k \in 1..(n + Len(w)) : Piece(b, p, n, w)[k] = IF k <= n THEN b[p + k - 1] ELSE w[k - n]
  <1> DEFINE x(k) == IF k <= n THEN b[p + k - 1] ELSE w[k - n]
             N == n + Len(w)
  <1>1. N \in Nat /\ RxSize \in Nat
    BY Sizes
  <1>2. \A k \in 1..N : x(k) \in Bytes
    <2> SUFFICES ASSUME NEW k \in 1..N PROVE x(k) \in Bytes
      OBVIOUS
    <2>1. CASE k <= n
      <3>1. p + k - 1 \in 0..(RxSize - 1)
        BY <1>1, <2>1
      <3>2. QED
        BY <2>1, <3>1
    <2>2. CASE k > n
      <3>1. k - n \in 1..Len(w)
        BY <2>2
      <3>2. QED
        BY <2>2, <3>1
    <2>3. QED
      BY <2>1, <2>2
  <1>3. Piece(b, p, n, w) = [k \in 1..N |-> x(k)]
    BY DEF Piece
  <1> HIDE DEF x, N
  <1>4. Piece(b, p, n, w) \in Seq(Bytes) /\ Len(Piece(b, p, n, w)) = N
        /\ \A k \in 1..N : Piece(b, p, n, w)[k] = x(k)
    BY <1>1, <1>2, <1>3
  <1>5. QED
    BY <1>4 DEF N, x

\* What is in the buffer ends within it.
LEMMA BufferEnd ==
    ASSUME TypeOK, BoundsInv, Serving
    PROVE  /\ rp \in Nat /\ rl \in Nat /\ rp + rl <= RxSize
           /\ rxb \in [0..(RxSize - 1) -> Bytes] /\ wire \in Seq(Bytes) /\ sent \in Seq(Requests)
           /\ Len(wire) \in Nat /\ Len(sent) \in Nat
  <1>1. Need \in Nat /\ Need <= chunk
    BY NeedType
  <1>2. pc = "chunks" => BytesOf(bits) \in Nat /\ BytesOf(bits) <= MaxVecLen
    BY BytesOfBits DEF TypeOK, BoundsInv, ChunkInv
  <1>3. rp \in Nat /\ rl \in Nat /\ rp <= chunk
    BY DEF TypeOK, BoundsInv, BufferInv
  <1>4. rp + rl <= chunk \/ rl <= chunk
    BY <1>1, <1>2, <1>3, Sizes, ConnAssumption DEF BoundsInv, BufferInv
  <1>5. QED
    BY <1>3, <1>4, Sizes DEF TypeOK

\* The octets at hand.
LEMMA OctetsType ==
    ASSUME TypeOK, BoundsInv, Serving
    PROVE  /\ Octets \in Seq(Bytes) /\ Len(Octets) = rl + Len(wire)
           /\ \A k \in 1..(rl + Len(wire)) : Octets[k] = IF k <= rl THEN rxb[rp + k - 1] ELSE wire[k - rl]
  <1>1. rp \in Nat /\ rl \in Nat /\ rp + rl <= RxSize
        /\ rxb \in [0..(RxSize - 1) -> Bytes] /\ wire \in Seq(Bytes)
    BY BufferEnd
  <1> HIDE DEF Octets
  <1>2. QED
    BY <1>1, PieceType, Zenon DEF Octets

\* bump() takes the first q of them.
LEMMA OctetsBump ==
    ASSUME TypeOK, BoundsInv, Serving, NEW q \in Nat, q <= rl, bump(q), rxb' = rxb, wire' = wire
    PROVE  /\ q \in 0..Len(Octets) /\ Octets \in Seq(Bytes)
           /\ Octets' \in Seq(Bytes) /\ Len(Octets') = Len(Octets) - q
           /\ \A k \in 1..Len(Octets') : Octets'[k] = Octets[k + q]
  <1>1. /\ rp \in Nat /\ rl \in Nat /\ rp + rl <= RxSize
        /\ rxb \in [0..(RxSize - 1) -> Bytes] /\ wire \in Seq(Bytes) /\ Len(wire) \in Nat
    BY BufferEnd
  <1>2. rp' \in Nat /\ rl' \in Nat /\ rp' + rl' <= RxSize /\ rl' = rl - q /\ (rl' > 0 => rp' = rp + q)
    BY <1>1, Sizes DEF bump
  <1>3. /\ Octets \in Seq(Bytes) /\ Len(Octets) = rl + Len(wire)
        /\ \A k \in 1..(rl + Len(wire)) : Octets[k] = IF k <= rl THEN rxb[rp + k - 1] ELSE wire[k - rl]
    BY OctetsType
  <1>4. Octets' = Piece(rxb, rp', rl', wire)
    BY DEF Octets
  <1>5. /\ Octets' \in Seq(Bytes) /\ Len(Octets') = rl' + Len(wire)
        /\ \A k \in 1..(rl' + Len(wire)) : Octets'[k] = IF k <= rl' THEN rxb[rp' + k - 1] ELSE wire[k - rl']
    <2> DEFINE P == Piece(rxb, rp', rl', wire)
    <2>1. /\ P \in Seq(Bytes) /\ Len(P) = rl' + Len(wire)
          /\ \A k \in 1..(rl' + Len(wire)) : P[k] = IF k <= rl' THEN rxb[rp' + k - 1] ELSE wire[k - rl']
      <3>1. /\ rxb \in [0..(RxSize - 1) -> Bytes] /\ wire \in Seq(Bytes)
            /\ rp' \in Nat /\ rl' \in Nat /\ rp' + rl' <= RxSize
        BY <1>1, <1>2
      <3>2. QED
        BY <3>1, PieceType
    <2> HIDE DEF P
    <2>2. Octets' = P
      BY <1>4 DEF P
    <2>3. QED
      BY <2>1, <2>2, Zenon
  <1>6. Len(Octets') = Len(Octets) - q
    BY <1>1, <1>2, <1>3, <1>5
  <1>7. ASSUME NEW k \in 1..Len(Octets') PROVE Octets'[k] = Octets[k + q]
    <2>1. k \in 1..(rl' + Len(wire)) /\ k + q \in 1..(rl + Len(wire)) /\ k \in Nat
      BY <1>1, <1>2, <1>5
    <2>2. CASE k <= rl'
      <3>1. rl' > 0 /\ k + q <= rl /\ rp' + k - 1 = rp + (k + q) - 1
        <4>1. rl' > 0 /\ k + q <= rl
          BY <1>1, <1>2, <2>1, <2>2
        <4>2. rp' = rp + q
          BY <1>2, <4>1
        <4>3. QED
          BY <1>1, <2>1, <4>1, <4>2
      <3>2. QED
        BY <1>3, <1>5, <2>1, <2>2, <3>1
    <2>3. CASE ~(k <= rl')
      <3>1. ~(k + q <= rl) /\ k - rl' = (k + q) - rl
        BY <1>1, <1>2, <2>1, <2>3
      <3>2. QED
        BY <1>3, <1>5, <2>1, <2>3, <3>1
    <2>4. QED
      BY <2>2, <2>3
  <1>8. q \in 0..Len(Octets)
    BY <1>1, <1>3
  <1>9. QED
    BY <1>3, <1>5, <1>6, <1>7, <1>8

\* read() leaves them as they are.
LEMMA OctetsRead ==
    ASSUME TypeOK, BoundsInv, ReadTop \/ Fill
    PROVE  /\ Octets' = Octets
           /\ UNCHANGED <<isOpen, sent, answer, txVars, supVecLen, shiftVars, driven>>
           /\ pc' = pc \/ (pc = "top" /\ pc' = "tag")
  <1>1. Serving /\ BufferInv
    BY DEF ReadTop, Fill, Filling, BoundsInv, Serving
  <1>2. /\ rp \in Nat /\ rl \in Nat /\ rp + rl <= RxSize /\ rp <= chunk
        /\ rxb \in [0..(RxSize - 1) -> Bytes] /\ wire \in Seq(Bytes) /\ Len(wire) \in Nat
    BY <1>1, BufferEnd DEF BufferInv
  <1>3. Need \in Nat /\ Need <= chunk /\ chunk \in Nat /\ RxSize \in Nat /\ RxSize = 2 * chunk
    BY NeedType, Sizes
  <1>4. PICK max \in Nat : ReadSome(rl, max) /\ rl + max <= chunk
    <2>1. CASE ReadTop
      <3>1. rl = 0 /\ ReadSome(rl, chunk) /\ rl + chunk <= chunk
        BY <1>1, <1>3, <2>1 DEF ReadTop, BufferInv
      <3>2. QED
        BY <1>3, <3>1, Zenon
    <2>2. CASE Fill
      <3>1. Need - rl \in Nat /\ ReadSome(rl, Need - rl) /\ rl + (Need - rl) <= chunk
        BY <1>2, <1>3, <2>2 DEF Fill, Filling
      <3>2. QED
        BY <3>1, Zenon
    <2>3. QED
      BY <2>1, <2>2
  <1>5. PICK got \in 1..max :
           /\ got <= Len(wire)
           /\ rxb' = Store(rxb, rp + rl, SubSeq(wire, 1, got))
           /\ rl' = rl + got
           /\ wire' = SubSeq(wire, got + 1, Len(wire))
           /\ UNCHANGED <<rp, isOpen, sent, answer, txVars, supVecLen, shiftVars, driven>>
    BY <1>4 DEF ReadSome
  <1> DEFINE s == SubSeq(wire, 1, got)
             at == rp + rl
  <1>6. got \in 0..Len(wire) /\ at \in Nat /\ rl' \in Nat /\ rp + rl' <= RxSize /\ at + got <= RxSize
    BY <1>2, <1>3, <1>4, <1>5
  <1>7. /\ s \in Seq(Bytes) /\ Len(s) = got
        /\ \A i \in 1..got : s[i] = wire[i]
        /\ wire' \in Seq(Bytes) /\ Len(wire') = Len(wire) - got
        /\ \A i \in 1..Len(wire') : wire'[i] = wire[got + i]
    <2>1. Len(SubSeq(wire, got + 1, Len(wire))) = Len(wire) - got
      BY <1>2, <1>6
    <2>2. QED
      BY <1>5, <1>6, <2>1, WireParts
  <1> HIDE DEF s
  <1>8. rxb' \in [0..(RxSize - 1) -> Bytes]
    <2>1. Store(rxb, at, s) \in [0..(RxSize - 1) -> Bytes]
      BY <1>2, <1>6, <1>7, StoreType, Zenon
    <2>2. QED
      BY <1>5, <2>1 DEF s
  <1>9. \A i \in 0..(RxSize - 1) : rxb'[i] = IF at <= i /\ i < at + got THEN s[i - at + 1] ELSE rxb[i]
    <2>1. rxb' = [i \in 0..(RxSize - 1) |-> IF at <= i /\ i < at + Len(s) THEN s[i - at + 1] ELSE rxb[i]]
      BY <1>2, <1>5 DEF Store, s
    <2>2. QED
      BY <1>7, <2>1
  <1>10. /\ Octets \in Seq(Bytes) /\ Len(Octets) = rl + Len(wire)
         /\ \A k \in 1..(rl + Len(wire)) : Octets[k] = IF k <= rl THEN rxb[rp + k - 1] ELSE wire[k - rl]
    BY <1>1, OctetsType
  <1>11. Octets' = Piece(rxb', rp, rl', wire')
    BY <1>5 DEF Octets
  <1>12. /\ Octets' \in Seq(Bytes) /\ Len(Octets') = rl' + Len(wire')
         /\ \A k \in 1..(rl' + Len(wire')) : Octets'[k] = IF k <= rl' THEN rxb'[rp + k - 1] ELSE wire'[k - rl']
    <2> DEFINE P == Piece(rxb', rp, rl', wire')
    <2>1. /\ P \in Seq(Bytes) /\ Len(P) = rl' + Len(wire')
          /\ \A k \in 1..(rl' + Len(wire')) : P[k] = IF k <= rl' THEN rxb'[rp + k - 1] ELSE wire'[k - rl']
      <3>1. /\ rxb' \in [0..(RxSize - 1) -> Bytes] /\ wire' \in Seq(Bytes)
            /\ rp \in Nat /\ rl' \in Nat /\ rp + rl' <= RxSize
        BY <1>2, <1>6, <1>7, <1>8
      <3>2. QED
        BY <3>1, PieceType
    <2> HIDE DEF P
    <2>2. Octets' = P
      BY <1>11 DEF P
    <2>3. QED
      BY <2>1, <2>2, Zenon
  <1>13. Len(Octets') = Len(Octets) /\ rl' + Len(wire') = rl + Len(wire)
    <2>1. rl' + Len(wire') = rl + Len(wire)
      BY <1>2, <1>5, <1>6, <1>7
    <2>2. QED
      BY <1>10, <1>12, <2>1
  <1>14. ASSUME NEW k \in 1..Len(Octets) PROVE Octets'[k] = Octets[k]
    <2>1. k \in 1..(rl + Len(wire)) /\ k \in 1..(rl' + Len(wire')) /\ k \in Nat /\ k >= 1
      BY <1>2, <1>10, <1>13
    <2>2. CASE k <= rl
      <3>1. k <= rl' /\ rp + k - 1 \in 0..(RxSize - 1) /\ rp + k - 1 < at
        BY <1>2, <1>3, <1>5, <2>1, <2>2
      <3>2. ~(at <= rp + k - 1)
        BY <1>2, <3>1
      <3>3. rxb'[rp + k - 1] = rxb[rp + k - 1]
        BY <1>9, <3>1, <3>2
      <3>4. QED
        BY <1>10, <1>12, <2>1, <2>2, <3>1, <3>3
    <2>3. CASE k > rl /\ k <= rl'
      <3> DEFINE i == rp + k - 1
      <3>1. i \in 0..(RxSize - 1) /\ at <= i /\ i < at + got /\ i - at + 1 = k - rl /\ k - rl \in 1..got
            /\ ~(k <= rl)
        BY <1>2, <1>3, <1>5, <1>6, <2>1, <2>3
      <3>2. rxb'[i] = wire[k - rl]
        BY <1>7, <1>9, <3>1
      <3>3. QED
        BY <1>10, <1>12, <2>1, <2>3, <3>1, <3>2
    <2>4. CASE k > rl'
      <3>1. ~(k <= rl) /\ ~(k <= rl') /\ k - rl' \in 1..Len(wire') /\ got + (k - rl') = k - rl
        BY <1>2, <1>5, <1>6, <1>7, <1>13, <2>1, <2>4
      <3>2. QED
        BY <1>7, <1>10, <1>12, <2>1, <3>1
    <2>5. QED
      BY <1>2, <1>6, <2>1, <2>2, <2>3, <2>4
  <1>15. Octets' = Octets
    BY <1>10, <1>12, <1>13, <1>14
  <1>16. pc' = pc \/ (pc = "top" /\ pc' = "tag")
    BY DEF ReadTop, Fill
  <1>17. QED
    BY <1>5, <1>15, <1>16

\* What the client sends comes behind them.
LEMMA OctetsSent ==
    ASSUME TypeOK, BoundsInv, Serving, NEW m \in Requests, ClientSends(m)
    PROVE  Octets' = Octets \o MessageBytes(Len(sent) + 1, m)
  <1> DEFINE w == MessageBytes(Len(sent) + 1, m)
  <1>1. /\ rp \in Nat /\ rl \in Nat /\ rp + rl <= RxSize /\ Len(sent) + 1 \in Nat
        /\ rxb \in [0..(RxSize - 1) -> Bytes] /\ wire \in Seq(Bytes) /\ Len(wire) \in Nat
    BY BufferEnd
  <1>2. w \in Seq(Bytes)
    BY <1>1, MessageTypes
  <1>3. wire' = wire \o w /\ rxb' = rxb /\ rp' = rp /\ rl' = rl
    BY DEF ClientSends, bufVars
  <1> HIDE DEF w
  <1>4. /\ wire' \in Seq(Bytes) /\ Len(wire') = Len(wire) + Len(w) /\ Len(w) \in Nat
        /\ \A k \in 1..Len(wire) : wire'[k] = wire[k]
        /\ \A k \in 1..Len(w) : wire'[Len(wire) + k] = w[k]
    BY <1>1, <1>2, <1>3
  <1>5. /\ Octets \in Seq(Bytes) /\ Len(Octets) = rl + Len(wire)
        /\ \A k \in 1..(rl + Len(wire)) : Octets[k] = IF k <= rl THEN rxb[rp + k - 1] ELSE wire[k - rl]
    BY OctetsType
  <1>6. /\ Octets' \in Seq(Bytes) /\ Len(Octets') = rl + Len(wire')
        /\ \A k \in 1..(rl + Len(wire')) : Octets'[k] = IF k <= rl THEN rxb[rp + k - 1] ELSE wire'[k - rl]
    <2> DEFINE P == Piece(rxb, rp, rl, wire')
    <2>1. /\ P \in Seq(Bytes) /\ Len(P) = rl + Len(wire')
          /\ \A k \in 1..(rl + Len(wire')) : P[k] = IF k <= rl THEN rxb[rp + k - 1] ELSE wire'[k - rl]
      <3>1. wire' \in Seq(Bytes)
        BY <1>4
      <3>2. QED
        BY <1>1, <3>1, PieceType
    <2> HIDE DEF P
    <2>2. Octets' = P
      BY <1>3 DEF P, Octets
    <2>3. QED
      BY <2>1, <2>2, Zenon
  <1> DEFINE v == Octets \o w
  <1>7. /\ v \in Seq(Bytes) /\ Len(v) = Len(Octets) + Len(w)
        /\ \A k \in 1..Len(Octets) : v[k] = Octets[k]
        /\ \A k \in 1..Len(w) : v[Len(Octets) + k] = w[k]
    <2>1. Octets \in Seq(Bytes)
      BY <1>5
    <2>2. QED
      BY <1>2, <2>1
  <1> HIDE DEF v
  <1>8. Len(Octets') = Len(v)
    BY <1>1, <1>4, <1>5, <1>6, <1>7
  <1>9. ASSUME NEW k \in 1..Len(v) PROVE Octets'[k] = v[k]
    <2>1. k \in Nat /\ k >= 1 /\ k <= rl + Len(wire) + Len(w) /\ k \in 1..(rl + Len(wire'))
      BY <1>1, <1>4, <1>5, <1>7
    <2>2. CASE k <= rl
      <3>1. k \in 1..(rl + Len(wire)) /\ k \in 1..Len(Octets)
        BY <1>1, <1>5, <2>1, <2>2
      <3>2. QED
        BY <1>5, <1>6, <1>7, <2>1, <2>2, <3>1
    <2>3. CASE k > rl /\ k <= rl + Len(wire)
      <3>1. k \in 1..(rl + Len(wire)) /\ k \in 1..Len(Octets) /\ k - rl \in 1..Len(wire) /\ ~(k <= rl)
        BY <1>1, <1>5, <2>1, <2>3
      <3>2. Octets'[k] = wire'[k - rl]
        BY <1>6, <2>1, <3>1
      <3>3. QED
        BY <1>4, <1>5, <1>7, <3>1, <3>2
    <2>4. CASE k > rl + Len(wire)
      <3> DEFINE j == k - (rl + Len(wire))
      <3>1. j \in 1..Len(w) /\ k = Len(Octets) + j /\ k - rl = Len(wire) + j /\ ~(k <= rl)
        BY <1>1, <1>4, <1>5, <2>1, <2>4
      <3> HIDE DEF j
      <3>2. Octets'[k] = wire'[k - rl]
        BY <1>6, <2>1, <3>1
      <3>3. Octets'[k] = w[j]
        BY <1>4, <3>1, <3>2
      <3>4. QED
        BY <1>7, <3>1, <3>3
    <2>5. QED
      BY <1>1, <2>1, <2>2, <2>3, <2>4
  <1>10. Octets' = v
    BY <1>6, <1>7, <1>8, <1>9
  <1>11. QED
    BY <1>10 DEF v, w

\* When it goes away, the last of them may be lost.
LEMMA OctetsCut ==
    ASSUME TypeOK, BoundsInv, Serving, ClientCloses
    PROVE  /\ Octets \in Seq(Bytes) /\ Octets' \in Seq(Bytes) /\ Len(Octets') <= Len(Octets)
           /\ \A k \in 1..Len(Octets') : Octets'[k] = Octets[k]
  <1>1. /\ rp \in Nat /\ rl \in Nat /\ rp + rl <= RxSize
        /\ rxb \in [0..(RxSize - 1) -> Bytes] /\ wire \in Seq(Bytes) /\ Len(wire) \in Nat
    BY BufferEnd
  <1>2. PICK n \in 0..Len(wire) : wire' = SubSeq(wire, 1, n)
    BY DEF ClientCloses
  <1>3. rxb' = rxb /\ rp' = rp /\ rl' = rl
    BY DEF ClientCloses, bufVars
  <1>4. wire' \in Seq(Bytes) /\ Len(wire') = n /\ \A i \in 1..n : wire'[i] = wire[i]
    BY <1>2, WireParts
  <1>5. /\ Octets \in Seq(Bytes) /\ Len(Octets) = rl + Len(wire)
        /\ \A k \in 1..(rl + Len(wire)) : Octets[k] = IF k <= rl THEN rxb[rp + k - 1] ELSE wire[k - rl]
    BY OctetsType
  <1>6. /\ Octets' \in Seq(Bytes) /\ Len(Octets') = rl + n
        /\ \A k \in 1..(rl + n) : Octets'[k] = IF k <= rl THEN rxb[rp + k - 1] ELSE wire'[k - rl]
    <2> DEFINE P == Piece(rxb, rp, rl, wire')
    <2>1. /\ P \in Seq(Bytes) /\ Len(P) = rl + Len(wire')
          /\ \A k \in 1..(rl + Len(wire')) : P[k] = IF k <= rl THEN rxb[rp + k - 1] ELSE wire'[k - rl]
      <3>1. wire' \in Seq(Bytes)
        BY <1>4
      <3>2. QED
        BY <1>1, <3>1, PieceType
    <2> HIDE DEF P
    <2>2. Octets' = P
      BY <1>3 DEF P, Octets
    <2>3. QED
      BY <1>4, <2>1, <2>2, Zenon
  <1>7. ASSUME NEW k \in 1..(rl + n) PROVE Octets'[k] = Octets[k]
    <2>1. k \in 1..(rl + Len(wire))
      BY <1>1
    <2>2. CASE k <= rl
      BY <1>5, <1>6, <2>1, <2>2
    <2>3. CASE ~(k <= rl)
      <3>1. k - rl \in 1..n
        BY <1>1, <2>3
      <3>2. QED
        BY <1>4, <1>5, <1>6, <2>1, <2>3, <3>1
    <2>4. QED
      BY <2>2, <2>3
  <1>8. Len(Octets') <= Len(Octets)
    BY <1>1, <1>5, <1>6
  <1>9. QED
    BY <1>5, <1>6, <1>7, <1>8

\* Octets stored in txb_.
LEMMA StoreTx ==
    ASSUME NEW b \in [0..(TxSize - 1) -> Out], NEW at \in Nat, NEW s \in Seq(Out)
    PROVE  /\ Store(b, at, s) \in [0..(TxSize - 1) -> Out]
           /\ \A i \in 0..(TxSize - 1) :
                 Store(b, at, s)[i] = IF at <= i /\ i < at + Len(s) THEN s[i - at + 1] ELSE b[i]
  <1> DEFINE c == Store(b, at, s)
             in(i) == at <= i /\ i < at + Len(s)
  <1>1. c = [i \in 0..(TxSize - 1) |-> IF in(i) THEN s[i - at + 1] ELSE b[i]]
    BY DEF Store
  <1>2. \A i \in 0..(TxSize - 1) : in(i) => s[i - at + 1] \in Out
    <2>1. \A i \in 0..(TxSize - 1) : in(i) => i - at + 1 \in 1..Len(s)
      BY Sizes
    <2>2. QED
      BY <2>1
  <1> HIDE DEF in
  <1>3. c \in [0..(TxSize - 1) -> Out]
    BY <1>1, <1>2
  <1>4. \A i \in 0..(TxSize - 1) : c[i] = IF in(i) THEN s[i - at + 1] ELSE b[i]
    BY <1>1
  <1> HIDE DEF c
  <1>5. QED
    BY <1>3, <1>4 DEF c, in

\* Part of txb_ as a sequence.
LEMMA TxPart ==
    ASSUME NEW b \in [0..(TxSize - 1) -> Out], NEW p \in Nat, NEW n \in Nat, p + n <= TxSize
    PROVE  /\ Part(b, p, n) \in Seq(Out) /\ Len(Part(b, p, n)) = n
           /\ \A k \in 1..n : Part(b, p, n)[k] = b[p + k - 1]
  <1>1. \A k \in 1..n : p + k - 1 \in 0..(TxSize - 1)
    BY Sizes
  <1>2. \A k \in 1..n : b[p + k - 1] \in Out
    BY <1>1
  <1>3. QED
    BY <1>2 DEF Part

\* It can be cut in two.
LEMMA TxSplit ==
    ASSUME NEW b \in [0..(TxSize - 1) -> Out], NEW p \in Nat, NEW n \in Nat, p + n <= TxSize,
           NEW j \in 0..n
    PROVE  /\ Part(b, p, j) \in Seq(Out) /\ Part(b, p + j, n - j) \in Seq(Out)
           /\ Part(b, p, n) = Part(b, p, j) \o Part(b, p + j, n - j)
  <1> DEFINE s == Part(b, p, j)
             t == Part(b, p + j, n - j)
             u == Part(b, p, n)
  <1>1. u \in Seq(Out) /\ Len(u) = n /\ \A k \in 1..n : u[k] = b[p + k - 1]
    BY TxPart
  <1>2. s \in Seq(Out) /\ Len(s) = j /\ \A k \in 1..j : s[k] = b[p + k - 1]
    <2>1. j \in Nat /\ p + j <= TxSize
      BY Sizes
    <2>2. QED
      BY <2>1, TxPart
  <1>3. t \in Seq(Out) /\ Len(t) = n - j /\ \A k \in 1..(n - j) : t[k] = b[(p + j) + k - 1]
    <2>1. p + j \in Nat /\ n - j \in Nat /\ (p + j) + (n - j) <= TxSize
      BY Sizes
    <2>2. QED
      BY <2>1, TxPart
  <1> HIDE DEF s, t, u
  <1>4. s \o t \in Seq(Out) /\ Len(s \o t) = n
    <2>1. s \o t \in Seq(Out) /\ Len(s \o t) = Len(s) + Len(t)
      BY <1>2, <1>3
    <2>2. j + (n - j) = n
      OBVIOUS
    <2>3. QED
      BY <1>2, <1>3, <2>1, <2>2
  <1>5. ASSUME NEW k \in 1..n PROVE (s \o t)[k] = u[k]
    <2>1. CASE k <= j
      <3>1. (s \o t)[k] = s[k] /\ k \in 1..j
        BY <1>2, <1>3, <2>1
      <3>2. QED
        BY <1>1, <1>2, <3>1
    <2>2. CASE k > j
      <3>1. k - j \in 1..(n - j) /\ (p + j) + (k - j) - 1 = p + k - 1
        BY <2>2
      <3>2. (s \o t)[k] = t[k - j]
        BY <1>2, <1>3, <2>2, <3>1
      <3>3. QED
        BY <1>1, <1>3, <3>1, <3>2
    <2>3. k <= j \/ k > j
      OBVIOUS
    <2>4. QED
      BY <2>1, <2>2, <2>3, Zenon
  <1>6. u = s \o t
    BY <1>1, <1>4, <1>5
  <1>7. QED
    BY <1>2, <1>3, <1>6 DEF s, t, u

\* What is written so far is a prefix of all answers.
LEMMA WrittenPrefix ==
    ASSUME NEW ms \in Seq(Requests), NEW d \in 0..Len(ms), NEW a \in Seq(Out), NEW w \in Seq(Out),
           a \o w = AnswersTo(SubSeq(ms, 1, d))
    PROVE  IsPrefix(a, AnswersTo(ms))
  <1>1. IsPrefix(a, a \o w)
    <2>1. IsPrefix(a, a)
      BY DEF IsPrefix
    <2>2. QED
      BY <2>1, PrefixTrans
  <1>2. IsPrefix(a, AnswersTo(SubSeq(ms, 1, d)))
    BY <1>1, Zenon
  <1>3. QED
    BY <1>2, AnswersPrefix

-----------------------------------------------------------------------------
\* The connection or the process ends: nothing more is answered or driven.
LEMMA EndAnswers ==
    ASSUME AnswersInv, pc' \in {"accept", "exit"}, UNCHANGED <<sent, answer, txb, driven, supVecLen>>
    PROVE  AnswersInv'
  <1>1. ~Serving'
    BY DEF Serving
  <1>2. AnswersMatch' = AnswersMatch /\ EachBitOnce' = EachBitOnce
    BY DEF AnswersMatch, EachBitOnce
  <1>3. QED
    BY <1>1, <1>2 DEF AnswersInv

\* The server goes on with the same client, d requests done.
LEMMA GoOn ==
    ASSUME AnswersInv, UNCHANGED <<sent, answer, driven, supVecLen>>,
           txb' \in [0..(TxSize - 1) -> Out], NEW d \in 0..Len(sent),
           FramedAt(d)', AnsweredAt(d)', NoWrap => DrivenAt(d)'
    PROVE  AnswersInv'
  <1>1. AnswersMatch' = AnswersMatch /\ EachBitOnce' = EachBitOnce
    BY DEF AnswersMatch, EachBitOnce
  <1>2. \E e \in 0..Len(sent') : FramedAt(e)' /\ AnsweredAt(e)' /\ (NoWrap => DrivenAt(e)')
    BY Zenon
  <1>3. QED
    BY <1>1, <1>2 DEF AnswersInv

\* Nothing happens to the client served.
LEMMA QuietAnswers ==
    ASSUME AnswersInv, ClientConnects \/ RejectWhileWaiting \/ UNCHANGED vars
    PROVE  AnswersInv'
  <1>1. UNCHANGED <<isOpen, sent, wire, answer, pc, bufVars, txVars, supVecLen, shiftVars, driven>>
    BY DEF ClientConnects, RejectWhileWaiting, vars, clientVars
  <1>2. CASE Serving
    <2>1. PICK d \in 0..Len(sent) : FramedAt(d) /\ AnsweredAt(d) /\ (NoWrap => DrivenAt(d))
      BY <1>2 DEF AnswersInv
    <2>2. Octets' = Octets /\ InShift' = InShift /\ Started' = Started
      BY <1>1 DEF Octets, InShift, Started, bufVars
    <2>3. FramedAt(d)'
      BY <1>1, <2>1, <2>2 DEF FramedAt, shiftVars
    <2>4. AnsweredAt(d)' /\ (NoWrap => DrivenAt(d)')
      BY <1>1, <2>1 DEF AnsweredAt, DrivenAt, someSent, toWrite, tdoReady, txVars, shiftVars
    <2>5. txb' \in [0..(TxSize - 1) -> Out]
      BY <1>1 DEF AnswersInv, txVars
    <2>6. QED
      BY <1>1, <2>3, <2>4, <2>5, GoOn
  <1>3. CASE ~Serving
    BY <1>1, <1>3, EndAnswers DEF Serving, txVars, AnswersInv
  <1>4. QED
    BY <1>2, <1>3

\* read() moves octets, nothing else.
LEMMA ReadAnswers ==
    ASSUME TypeOK, BoundsInv, AnswersInv, ReadTop \/ Fill
    PROVE  AnswersInv'
  <1>1. /\ Octets' = Octets
        /\ UNCHANGED <<isOpen, sent, answer, txVars, supVecLen, shiftVars, driven>>
        /\ pc' = pc \/ (pc = "top" /\ pc' = "tag")
    BY OctetsRead
  <1>2. Serving /\ pc # "chunks" /\ pc' # "chunks"
    BY DEF ReadTop, Fill, Filling, Serving
  <1>3. PICK d \in 0..Len(sent) : FramedAt(d) /\ AnsweredAt(d) /\ (NoWrap => DrivenAt(d))
    BY <1>2 DEF AnswersInv
  <1>4. InShift' = InShift /\ Started' = Started /\ toWrite' = toWrite
    BY <1>1 DEF InShift, Started, toWrite, txVars
  <1>5. FramedAt(d)'
    BY <1>1, <1>3, <1>4 DEF FramedAt, shiftVars
  <1>6. AnsweredAt(d)' /\ (NoWrap => DrivenAt(d)')
    BY <1>1, <1>2, <1>3, <1>4 DEF AnsweredAt, DrivenAt, someSent
  <1>7. txb' \in [0..(TxSize - 1) -> Out]
    BY <1>1 DEF AnswersInv, txVars
  <1>8. QED
    BY <1>1, <1>5, <1>6, <1>7, GoOn

\* The client goes away.
LEMMA CloseAnswers ==
    ASSUME TypeOK, BoundsInv, AnswersInv, ClientCloses
    PROVE  AnswersInv'
  <1>1. /\ UNCHANGED <<sent, answer, pc, bufVars, txVars, supVecLen, shiftVars, driven>>
        /\ isOpen' = FALSE
    BY DEF ClientCloses
  <1>2. CASE Serving
    <2>1. PICK d \in 0..Len(sent) : FramedAt(d) /\ AnsweredAt(d) /\ (NoWrap => DrivenAt(d))
      BY <1>2 DEF AnswersInv
    <2>2. InShift' = InShift /\ Started' = Started /\ sent \in Seq(Requests)
      BY <1>1 DEF InShift, Started, TypeOK
    <2>3. /\ Octets \in Seq(Bytes) /\ Octets' \in Seq(Bytes) /\ Len(Octets') <= Len(Octets)
          /\ \A k \in 1..Len(Octets') : Octets'[k] = Octets[k]
      BY <1>2, OctetsCut
    <2>4. InStream(Octets, sent) /\ Begins(Octets, sent, d + 1, Started)
      BY <2>1 DEF FramedAt
    <2>5. InStream(Octets', sent) /\ Begins(Octets', sent, d + 1, Started)
      BY <2>2, <2>3, <2>4, StreamCut, Zenon
    <2>6. FramedAt(d)'
      <3>1. InStream(Octets', sent') /\ Begins(Octets', sent', d + 1, Started')
        BY <1>1, <2>2, <2>5
      <3>2. ~isOpen'
        BY <1>1, Zenon
      <3>3. QED
        BY <1>1, <2>1, <2>2, <3>1, <3>2 DEF FramedAt, shiftVars
    <2>7. AnsweredAt(d)' /\ (NoWrap => DrivenAt(d)')
      BY <1>1, <2>1 DEF AnsweredAt, DrivenAt, someSent, toWrite, tdoReady, txVars, shiftVars
    <2>8. txb' \in [0..(TxSize - 1) -> Out]
      BY <1>1 DEF AnswersInv, txVars
    <2>9. QED
      BY <1>1, <2>6, <2>7, <2>8, GoOn
  <1>3. CASE ~Serving
    <2>1. ~Serving' /\ UNCHANGED <<sent, answer, txb, driven, supVecLen>>
      BY <1>1, <1>3 DEF Serving, txVars
    <2>2. pc' \in {"accept", "exit"}
      BY <2>1 DEF Serving
    <2>3. QED
      BY <2>1, <2>2, EndAnswers
  <1>4. QED
    BY <1>2, <1>3

\* The client sends one more request.
LEMMA SendAnswers ==
    ASSUME TypeOK, BoundsInv, AnswersInv, NEW m \in Requests, ClientSends(m)
    PROVE  AnswersInv'
  <1>1. /\ UNCHANGED <<isOpen, answer, pc, bufVars, txVars, supVecLen, shiftVars, driven>>
        /\ sent' = Append(sent, m)
    BY DEF ClientSends
  <1>2. isOpen
    BY Zenon DEF ClientSends
  <1>3. sent \in Seq(Requests) /\ Len(sent) \in Nat
    BY DEF TypeOK
  <1>4. /\ sent' \in Seq(Requests) /\ Len(sent') = Len(sent) + 1
        /\ \A i \in 1..Len(sent) : sent'[i] = sent[i] /\ i \in 1..Len(sent')
    BY <1>1, <1>3
  <1>5. \A d \in 0..Len(sent) : SubSeq(sent', 1, d) = SubSeq(sent, 1, d)
    BY <1>1, <1>3
  <1>6. answer' \in Seq(Out) /\ txb' \in [0..(TxSize - 1) -> Out] /\ driven' \in Seq(Calls)
    BY <1>1 DEF AnswersInv, txVars
  <1>7. AnswersMatch'
    <2>1. SubSeq(sent', 1, Len(sent)) = sent /\ Len(sent) \in 0..Len(sent')
      BY <1>3, <1>4, <1>5
    <2>2. IsPrefix(answer, AnswersTo(SubSeq(sent', 1, Len(sent)))) /\ answer \in Seq(Out)
      BY <2>1 DEF AnswersInv, AnswersMatch
    <2>3. IsPrefix(answer, AnswersTo(sent'))
      BY <1>4, <2>1, <2>2, AnswersPrefix
    <2>4. QED
      BY <1>1, <2>3 DEF AnswersMatch
  <1>8. ASSUME NoWrap
        PROVE  EachBitOnce' /\ \A i \in 1..Len(driven') : driven'[i].msg \in 1..Len(sent')
    <2>1. EachBitOnce /\ \A i \in 1..Len(driven) : driven[i].msg \in 1..Len(sent)
      BY <1>8 DEF AnswersInv
    <2>2. \A i \in 1..Len(driven) : driven[i].msg \in 1..Len(sent') /\ sent'[driven[i].msg] = sent[driven[i].msg]
      BY <1>4, <2>1
    <2>3. EachBitOnce'
      <3>1. \A i \in 1..Len(driven) : i # 1 => i - 1 \in 1..Len(driven)
        BY DEF AnswersInv
      <3>2. QED
        BY <1>1, <2>1, <2>2, <3>1 DEF EachBitOnce
    <2>4. QED
      BY <1>1, <2>2, <2>3
  <1>9. ASSUME Serving
        PROVE  \E d \in 0..Len(sent') : FramedAt(d)' /\ AnsweredAt(d)' /\ (NoWrap => DrivenAt(d)')
    <2>1. PICK d \in 0..Len(sent) : FramedAt(d) /\ AnsweredAt(d) /\ (NoWrap => DrivenAt(d))
      BY <1>9 DEF AnswersInv
    <2>2. InShift' = InShift /\ Started' = Started /\ Started \in Nat
      BY <1>1, ConnAssumption DEF InShift, Started
    <2>3. d + 1 \in 1..(Len(sent) + 1) /\ (d < Len(sent) => sent'[d + 1] = sent[d + 1])
      BY <1>3, <1>4
    <2>4. d + 1 = Len(sent) + 1 => Started = 0
      BY <1>3, <2>1 DEF FramedAt, Started
    <2>5. Octets \in Seq(Bytes) /\ Octets' = Octets \o MessageBytes(Len(sent) + 1, m)
      BY <1>9, OctetsType, OctetsSent
    <2>6. /\ InStream(Octets, sent) /\ Begins(Octets, sent, d + 1, Started)
          /\ Whole(Octets, sent, d + 1, Started)
      BY <1>2, <2>1 DEF FramedAt
    <2>7. /\ InStream(Octets', sent') /\ Begins(Octets', sent', d + 1, Started)
          /\ Whole(Octets', sent', d + 1, Started)
      BY <1>1, <1>3, <2>2, <2>3, <2>4, <2>5, <2>6, StreamMore
    <2>8. FramedAt(d)'
      <3>1. d < Len(sent) => d < Len(sent')
        BY <1>3, <1>4
      <3>2. QED
        BY <1>1, <2>1, <2>2, <2>3, <2>7, <3>1 DEF FramedAt, shiftVars, InShift
    <2>9. AnsweredAt(d)'
      <3>1. pc = "chunks" => d < Len(sent)
        BY <2>1 DEF FramedAt, InShift
      <3>2. toWrite' = toWrite /\ tdoReady' = tdoReady
        BY <1>1 DEF toWrite, tdoReady, txVars, shiftVars
      <3>3. QED
        BY <1>1, <1>5, <2>1, <2>3, <3>1, <3>2 DEF AnsweredAt, txVars
    <2>10. ASSUME NoWrap PROVE DrivenAt(d)'
      <3>1. driven \in Seq(Calls) /\ \A i \in 1..Len(driven) : driven[i].msg \in 1..Len(sent)
        BY <2>10 DEF AnswersInv
      <3>2. driven # <<>> => sent'[driven[Len(driven)].msg] = sent[driven[Len(driven)].msg]
        <4>1. driven # <<>> => Len(driven) \in 1..Len(driven)
          BY <3>1
        <4>2. QED
          BY <1>4, <3>1, <4>1
      <3>3. QED
        BY <1>1, <2>1, <2>10, <3>2 DEF DrivenAt, someSent, shiftVars
    <2>11. d \in 0..Len(sent')
      BY <1>3, <1>4
    <2>12. QED
      BY <2>8, <2>9, <2>10, <2>11, Zenon
  <1>10. Serving' = Serving
    BY <1>1 DEF Serving
  <1>11. QED
    BY <1>6, <1>7, <1>8, <1>9, <1>10 DEF AnswersInv

\* A new client: nothing is sent, answered or driven yet.
LEMMA AcceptAnswers ==
    ASSUME TypeOK, BoundsInv, AnswersInv, Accept
    PROVE  AnswersInv'
  <1>1. /\ sent' = <<>> /\ answer' = <<>> /\ driven' = <<>> /\ rl' = 0 /\ txb' = NoTx
        /\ pc' \in {"top", "accept", "exit"}
    BY CloseTypes DEF Accept
  <1>2. wire' = <<>>
    <2>1. wire = <<>>
      BY DEF BoundsInv, Accept
    <2>2. QED
      BY <2>1, CloseTypes DEF Accept
  <1>3. answer' \in Seq(Out) /\ driven' \in Seq(Calls) /\ txb' \in [0..(TxSize - 1) -> Out]
    <2>1. <<>> \in Out
      BY DEF Out
    <2>2. QED
      BY <1>1, <2>1 DEF NoTx
  <1>4. <<>> \in Seq(Requests) /\ AnswersTo(<<>>) = <<>> /\ SubSeq(<<>>, 1, 0) = <<>>
    <2>1. <<>> \in Seq(Requests) /\ SubSeq(<<>>, 1, 0) = <<>>
      OBVIOUS
    <2>2. QED
      BY <2>1, AnswersType, Zenon
  <1>5. AnswersMatch'
    BY <1>1, <1>4 DEF AnswersMatch, IsPrefix
  <1>6. EachBitOnce' /\ \A i \in 1..Len(driven') : driven'[i].msg \in 1..Len(sent')
    BY <1>1 DEF EachBitOnce
  <1>7. ASSUME pc' = "top" PROVE FramedAt(0)' /\ AnsweredAt(0)' /\ DrivenAt(0)'
    <2>1. Len(Octets') = 0 /\ ~InShift' /\ Started' = 0 /\ toWrite' = <<>>
      BY <1>1, <1>2, <1>7 DEF Octets, Piece, InShift, Started, toWrite
    <2>2. Place(<<>>, 0 + 1, 0) = [msg |-> 1, off |-> 0]
      BY DEF Place
    <2>3. FramedAt(0)'
      BY <1>1, <1>7, <2>1, <2>2 DEF FramedAt, InStream, Begins, Whole
    <2>4. AnsweredAt(0)' /\ DrivenAt(0)'
      <3>1. <<>> \o <<>> = <<>>
        OBVIOUS
      <3>2. answer' \o toWrite' = AnswersTo(SubSeq(sent', 1, 0))
        BY <1>1, <1>4, <2>1, <3>1
      <3>3. pc' # "chunks" /\ driven' = <<>>
        BY <1>1, <1>7
      <3>4. QED
        BY <3>2, <3>3 DEF AnsweredAt, DrivenAt, someSent
    <2>5. QED
      BY <2>3, <2>4
  <1>8. Serving' => \E d \in 0..Len(sent') : FramedAt(d)' /\ AnsweredAt(d)' /\ (NoWrap => DrivenAt(d)')
    <2>1. 0 \in 0..Len(sent')
      BY <1>1
    <2>2. Serving' => pc' = "top"
      BY <1>1 DEF Serving
    <2>3. QED
      BY <1>7, <2>1, <2>2, Zenon
  <1>9. QED
    BY <1>3, <1>5, <1>6, <1>8 DEF AnswersInv

\* The octets at rp_ are those of the request that is being served.
LEMMA AtRp ==
    ASSUME TypeOK, BoundsInv, Serving, NEW d \in 0..Len(sent), FramedAt(d), rl > 0,
           Started = 0 \/ (d < Len(sent) /\ Started < MessageLen(sent[d + 1]))
    PROVE  /\ d < Len(sent)
           /\ \A k \in 1..rl : Started + (k - 1) < MessageLen(sent[d + 1])
                 => rxb[rp + k - 1] = [msg |-> d + 1, off |-> Started + (k - 1)]
  <1>1. /\ rp \in Nat /\ rl \in Nat /\ Len(wire) \in Nat /\ Len(sent) \in Nat
        /\ sent \in Seq(Requests)
    BY BufferEnd
  <1>2. /\ Len(Octets) = rl + Len(wire)
        /\ \A k \in 1..(rl + Len(wire)) : Octets[k] = IF k <= rl THEN rxb[rp + k - 1] ELSE wire[k - rl]
    BY OctetsType
  <1>3. \A k \in 1..rl : k \in 1..Len(Octets) /\ Octets[k] = rxb[rp + k - 1]
    BY <1>1, <1>2
  <1>4. Octets[1] = [msg |-> d + 1, off |-> Started] /\ 1 \in 1..Len(Octets)
    <2>1. Len(Octets) > 0 /\ 1 \in 1..Len(Octets)
      BY <1>1, <1>2
    <2>2. Octets[1] = Place(sent, d + 1, Started)
      BY <2>1 DEF FramedAt, Begins
    <2>3. QED
      BY <2>1, <2>2 DEF Place
  <1>5. d < Len(sent)
    <2>1. Octets[1].msg \in 1..Len(sent)
      BY <1>4 DEF FramedAt, InStream
    <2>2. d + 1 \in 1..Len(sent)
      BY <1>4, <2>1
    <2>3. QED
      BY <1>1, <2>2
  <1>6. Started \in Nat
    BY ConnAssumption DEF Started
  <1>7. MessageLen(sent[d + 1]) \in Nat
    <2>1. sent[d + 1] \in Requests
      BY <1>1, <1>5
    <2>2. QED
      BY <2>1, RequestLen
  <1>8. ASSUME NEW k \in 1..rl, Started + (k - 1) < MessageLen(sent[d + 1])
        PROVE  rxb[rp + k - 1] = [msg |-> d + 1, off |-> Started + (k - 1)]
    <2>1. CASE k = 1
      <3>1. rxb[rp + k - 1] = Octets[1] /\ Started + (k - 1) = Started
        BY <1>3, <1>6, <2>1
      <3>2. QED
        BY <1>4, <3>1
    <2>2. CASE k # 1
      <3>1. /\ k \in 1..Len(Octets) /\ 1 < k /\ Octets[1].off = Started /\ Octets[1].msg = d + 1
            /\ Started + (k - 1) \in Nat
        BY <1>1, <1>3, <1>4, <1>6, <2>2
      <3>2. Octets[1].off + (k - 1) <= MessageLen(sent[Octets[1].msg])
        BY <1>7, <1>8, <3>1
      <3>3. Octets[k] = Place(sent, Octets[1].msg, Octets[1].off + (k - 1))
        BY <1>4, <3>1, <3>2 DEF FramedAt, InStream
      <3>4. Octets[k] = Place(sent, d + 1, Started + (k - 1))
        BY <3>1, <3>3
      <3>5. Octets[k] = [msg |-> d + 1, off |-> Started + (k - 1)]
        BY <1>8, <3>4 DEF Place
      <3>6. QED
        BY <1>3, <3>5
    <2>3. QED
      BY <2>1, <2>2
  <1>9. QED
    BY <1>5, <1>8

\* The command that is found is the one the client sent.
LEMMA DispatchAnswers ==
    ASSUME TypeOK, BoundsInv, AnswersInv, Dispatch
    PROVE  AnswersInv'
  <1>1. /\ pc = "tag" /\ rl >= TagLen /\ pc' = (IF Tag = "other" THEN "exit" ELSE Tag)
        /\ UNCHANGED <<clientVars, answer, bufVars, txVars, supVecLen, shiftVars, driven>>
    BY DEF Dispatch, Filled, Need
  <1>2. Serving /\ Started = 0 /\ ~InShift
    BY <1>1 DEF Serving, Started, InShift
  <1>3. PICK d \in 0..Len(sent) : FramedAt(d) /\ AnsweredAt(d) /\ (NoWrap => DrivenAt(d))
    BY <1>2 DEF AnswersInv
  <1>4. rl \in Nat /\ rp \in Nat /\ TagLen \in Nat /\ TagLen >= 1 /\ rl > 0 /\ sent \in Seq(Requests)
        /\ Len(sent) \in Nat
    BY <1>1, ConnAssumption DEF TypeOK
  <1>5. /\ d < Len(sent)
        /\ \A k \in 1..rl : Started + (k - 1) < MessageLen(sent[d + 1])
                 => rxb[rp + k - 1] = [msg |-> d + 1, off |-> Started + (k - 1)]
    BY <1>2, <1>3, <1>4, AtRp
  <1>6. sent[d + 1] \in Requests
    BY <1>4, <1>5
  <1>7. MessageLen(sent[d + 1]) \in Nat /\ MessageLen(sent[d + 1]) >= TagLen
    BY <1>6, RequestLen
  <1>8. ASSUME NEW k \in 0..(TagLen - 1) PROVE rxb[rp + k] = [msg |-> d + 1, off |-> k]
    <2>1. /\ k + 1 \in 1..rl /\ Started + ((k + 1) - 1) < MessageLen(sent[d + 1])
          /\ Started + ((k + 1) - 1) = k /\ rp + (k + 1) - 1 = rp + k
      BY <1>1, <1>2, <1>4, <1>7
    <2>2. QED
      BY <1>5, <2>1
  <1>9. Tag = sent[d + 1].kind
    <2>1. rxb[rp] = [msg |-> d + 1, off |-> 0]
      <3>1. 0 \in 0..(TagLen - 1) /\ rp + 0 = rp
        BY <1>4
      <3>2. rxb[rp + 0] = [msg |-> d + 1, off |-> 0]
        BY <1>8, <3>1
      <3>3. QED
        BY <3>1, <3>2
    <2>2. rxb[rp].msg = d + 1 /\ d + 1 > 0
      BY <1>4, <2>1
    <2>3. QED
      BY <1>8, <2>2 DEF Tag
  <1>10. CASE Tag = "other"
    <2>1. pc' \in {"accept", "exit"} /\ UNCHANGED <<sent, answer, txb, driven, supVecLen>>
      BY <1>1, <1>10 DEF clientVars, txVars
    <2>2. QED
      BY <2>1, EndAnswers
  <1>11. CASE Tag # "other"
    <2>1. sent[d + 1].kind \in {"getinfo", "settck", "shift", "other"}
      BY <1>6, ConnAssumption
    <2>2. pc' = sent[d + 1].kind /\ pc' \in {"getinfo", "settck", "shift"}
      BY <1>1, <1>9, <1>11, <2>1
    <2>3. Octets' = Octets /\ ~InShift' /\ Started' = 0 /\ toWrite' = toWrite
      BY <1>1, <2>2 DEF Octets, InShift, Started, toWrite, clientVars, bufVars
    <2>4. FramedAt(d)'
      BY <1>1, <1>2, <1>3, <1>5, <2>2, <2>3 DEF FramedAt, clientVars
    <2>5. AnsweredAt(d)' /\ (NoWrap => DrivenAt(d)')
      BY <1>1, <1>3, <2>2, <2>3 DEF AnsweredAt, DrivenAt, someSent, clientVars
    <2>6. txb' \in [0..(TxSize - 1) -> Out] /\ UNCHANGED <<sent, answer, driven, supVecLen>>
      BY <1>1 DEF AnswersInv, txVars, clientVars
    <2>7. QED
      BY <2>4, <2>5, <2>6, GoOn
  <1>12. QED
    BY <1>10, <1>11

\* bump() takes the rest of the request off the buffer: one more is done.
LEMMA RequestDone ==
    ASSUME TypeOK, BoundsInv, Serving, NEW d \in 0..Len(sent), FramedAt(d), d < Len(sent),
           NEW q \in Nat, q <= rl, Started + q = MessageLen(sent[d + 1]), bump(q),
           rxb' = rxb, wire' = wire, sent' = sent, isOpen' = isOpen, pc' = "flush"
    PROVE  d + 1 \in 0..Len(sent) /\ FramedAt(d + 1)'
  <1>1. sent \in Seq(Requests) /\ Len(sent) \in Nat
    BY BufferEnd
  <1>2. Started \in Nat /\ d + 1 \in 1..Len(sent) /\ d + 1 \in 0..Len(sent)
    BY <1>1, ConnAssumption DEF Started
  <1>3. /\ q \in 0..Len(Octets) /\ Octets \in Seq(Bytes)
        /\ Octets' \in Seq(Bytes) /\ Len(Octets') = Len(Octets) - q
        /\ \A k \in 1..Len(Octets') : Octets'[k] = Octets[k + q]
    BY OctetsBump
  <1>4. InStream(Octets, sent) /\ Begins(Octets, sent, d + 1, Started)
    BY DEF FramedAt
  <1>5. Started + q <= MessageLen(sent[d + 1])
    BY <1>2
  <1>6. /\ InStream(Octets', sent) /\ Begins(Octets', sent, d + 1, Started + q)
        /\ Whole(Octets, sent, d + 1, Started) => Whole(Octets', sent, d + 1, Started + q)
    BY <1>1, <1>2, <1>3, <1>4, <1>5, StreamBump
  <1>7. Place(sent, d + 1, Started + q) = Place(sent, (d + 1) + 1, 0)
    BY <1>1, <1>2, NextPlace
  <1>8. /\ Begins(Octets', sent, (d + 1) + 1, 0)
        /\ isOpen => Whole(Octets', sent, (d + 1) + 1, 0)
    BY <1>6, <1>7 DEF FramedAt, Begins, Whole
  <1>9. ~InShift' /\ Started' = 0
    BY DEF InShift, Started
  <1>10. QED
    BY <1>2, <1>6, <1>8, <1>9 DEF FramedAt

\* An answer that is put into txb_ is what flush() has to write.
LEMMA PutAnswer ==
    ASSUME AnswersInv, NEW s \in Seq(Out), Len(s) <= TxSize, Put(s), pc' = "flush"
    PROVE  txb' \in [0..(TxSize - 1) -> Out] /\ toWrite' = s
  <1>1. /\ txb \in [0..(TxSize - 1) -> Out] /\ txb' = Store(txb, 0, s) /\ tl' = Len(s) /\ tp' = 0
        /\ Len(s) \in Nat
    BY DEF AnswersInv, Put
  <1>2. /\ txb' \in [0..(TxSize - 1) -> Out]
        /\ \A i \in 0..(TxSize - 1) : txb'[i] = IF 0 <= i /\ i < 0 + Len(s) THEN s[i - 0 + 1] ELSE txb[i]
    <2> DEFINE c == Store(txb, 0, s)
    <2>1. /\ c \in [0..(TxSize - 1) -> Out]
          /\ \A i \in 0..(TxSize - 1) : c[i] = IF 0 <= i /\ i < 0 + Len(s) THEN s[i - 0 + 1] ELSE txb[i]
      <3>1. 0 \in Nat /\ txb \in [0..(TxSize - 1) -> Out]
        BY <1>1
      <3>2. QED
        BY <3>1, StoreTx
    <2> HIDE DEF c
    <2>2. txb' = c
      BY <1>1 DEF c
    <2>3. QED
      BY <2>1, <2>2, Zenon
  <1>3. \A k \in 1..Len(s) : txb'[0 + k - 1] = s[k]
    <2> SUFFICES ASSUME NEW k \in 1..Len(s) PROVE txb'[0 + k - 1] = s[k]
      OBVIOUS
    <2> DEFINE i == 0 + k - 1
    <2>1. i \in 0..(TxSize - 1) /\ 0 <= i /\ i < 0 + Len(s) /\ i - 0 + 1 = k
      BY <1>1, Sizes
    <2> HIDE DEF i
    <2>2. txb'[i] = s[k]
      BY <1>2, <2>1
    <2>3. QED
      BY <2>2 DEF i
  <1>4. toWrite' = [k \in 1..Len(s) |-> txb'[0 + k - 1]]
    BY <1>1 DEF toWrite, Part
  <1>5. toWrite' = [k \in 1..Len(s) |-> s[k]]
    BY <1>3, <1>4
  <1>6. QED
    BY <1>2, <1>5

\* With that answer, one more request is answered.
LEMMA OneMore ==
    ASSUME TypeOK, AnswersInv, NEW d \in 0..Len(sent), d < Len(sent), AnsweredAt(d),
           pc # "flush", pc' = "flush", answer' = answer, sent' = sent,
           toWrite' = AnswerTo(d + 1, sent[d + 1])
    PROVE  AnsweredAt(d + 1)'
  <1>1. answer \in Seq(Out) /\ sent \in Seq(Requests) /\ d \in Nat
    BY DEF AnswersInv, TypeOK
  <1>2. answer \o <<>> = AnswersTo(SubSeq(sent, 1, d))
    BY DEF AnsweredAt, toWrite
  <1>3. answer = AnswersTo(SubSeq(sent, 1, d))
    BY <1>1, <1>2
  <1>4. AnswersTo(SubSeq(sent, 1, d + 1)) = AnswersTo(SubSeq(sent, 1, d)) \o AnswerTo(d + 1, sent[d + 1])
    BY <1>1, AnswersNext
  <1>5. answer' \o toWrite' = AnswersTo(SubSeq(sent', 1, d + 1))
    BY <1>3, <1>4
  <1>6. QED
    BY <1>5 DEF AnsweredAt

\* "getinfo" and "settck" get their answers.
LEMMA CommandAnswers ==
    ASSUME TypeOK, BoundsInv, AnswersInv, GetInfo \/ SetTck
    PROVE  AnswersInv'
  <1>1. /\ pc \in {"getinfo", "settck"} /\ rl >= Need
        /\ UNCHANGED <<sent, answer, rxb, supVecLen, driven>>
    BY DEF GetInfo, SetTck, Filled, clientVars
  <1>2. Serving /\ Started = 0 /\ ~InShift /\ BufferInv
    BY <1>1 DEF Serving, Started, InShift, BoundsInv
  <1>3. PICK d \in 0..Len(sent) : FramedAt(d) /\ AnsweredAt(d) /\ (NoWrap => DrivenAt(d))
    BY <1>2 DEF AnswersInv
  <1>4. /\ d < Len(sent) /\ sent[d + 1].kind = pc /\ sent \in Seq(Requests) /\ rl \in Nat /\ rp \in Nat
        /\ d + 1 \in Nat
    BY <1>1, <1>3 DEF FramedAt, TypeOK
  <1>5. sent[d + 1] \in Requests
    BY <1>4
  <1>6. /\ MessageLen(sent[d + 1]) = Need /\ Need \in Nat /\ Need >= 1
        /\ AnswerTo(d + 1, sent[d + 1]) \in Seq(Out)
    BY <1>1, <1>4, <1>5, RequestLen, AnswerType DEF Need
  <1>7. ASSUME bump(Need), Put(AnswerTo(d + 1, sent[d + 1])), pc' = "flush", isOpen' = isOpen, wire' = wire,
               Len(AnswerTo(d + 1, sent[d + 1])) <= TxSize
        PROVE  AnswersInv'
    <2>1. Started + Need = MessageLen(sent[d + 1])
      BY <1>2, <1>6
    <2>2. d + 1 \in 0..Len(sent) /\ FramedAt(d + 1)'
      BY <1>1, <1>2, <1>3, <1>4, <1>6, <1>7, <2>1, RequestDone
    <2>3. txb' \in [0..(TxSize - 1) -> Out] /\ toWrite' = AnswerTo(d + 1, sent[d + 1])
      BY <1>6, <1>7, PutAnswer
    <2>4. AnsweredAt(d + 1)'
      BY <1>1, <1>3, <1>4, <1>7, <2>3, OneMore
    <2>5. ASSUME NoWrap PROVE DrivenAt(d + 1)'
      <3>1. DrivenAt(d) /\ driven \in Seq(Calls)
        BY <1>3, <2>5 DEF AnswersInv
      <3>2. driven # <<>> => driven[Len(driven)].msg \in Nat
        <4>1. driven # <<>> => driven[Len(driven)] \in Calls
          BY <3>1
        <4>2. QED
          BY <4>1 DEF Calls
      <3>3. driven # <<>> => /\ driven[Len(driven)].msg <= d
                             /\ driven[Len(driven)].first + driven[Len(driven)].n
                                   = sent[driven[Len(driven)].msg].arg
        BY <1>1, <3>1 DEF DrivenAt, someSent
      <3>4. driven # <<>> => driven[Len(driven)].msg <= d + 1
        BY <3>2, <3>3
      <3>5. QED
        BY <1>1, <1>7, <3>3, <3>4 DEF DrivenAt, someSent
    <2>6. QED
      BY <1>1, <2>2, <2>3, <2>4, <2>5, GoOn
  <1>8. CASE SetTck
    <2>1. Arg = sent[d + 1].arg
      <3>1. rl > 0 /\ Started + (1 - 1) < MessageLen(sent[d + 1]) /\ 1 \in 1..rl /\ rp + 1 - 1 = rp
        BY <1>1, <1>2, <1>4, <1>6
      <3>2. \A k \in 1..rl : Started + (k - 1) < MessageLen(sent[d + 1])
                 => rxb[rp + k - 1] = [msg |-> d + 1, off |-> Started + (k - 1)]
        BY <1>2, <1>3, <3>1, AtRp
      <3>3. rxb[rp + 1 - 1] = [msg |-> d + 1, off |-> Started + (1 - 1)]
        BY <3>1, <3>2
      <3>4. rxb[rp].msg = d + 1
        BY <3>1, <3>3
      <3>5. QED
        BY <3>4 DEF Arg
    <2>2. pc = "settck" /\ Need = SetTckLen
      BY <1>8 DEF SetTck, Filled, Need
    <2>3. AnswerTo(d + 1, sent[d + 1]) = PeriodAnswer(Arg)
      BY <1>4, <2>1, <2>2 DEF AnswerTo
    <2>4. Len(PeriodAnswer(Arg)) <= TxSize
      <3>1. sent[d + 1].arg \in Nat
        BY <1>5, ConnAssumption
      <3>2. Len(PeriodAnswer(Arg)) = PeriodLen
        BY <2>1, <3>1, PeriodType
      <3>3. QED
        BY <3>2, Sizes, ConnAssumption
    <2>5. QED
      BY <1>7, <1>8, <2>2, <2>3, <2>4 DEF SetTck, clientVars
  <1>9. CASE GetInfo /\ Throws /\ UNCHANGED <<bufVars, txVars>>
    <2>1. pc' \in {"accept", "exit"} /\ txb' = txb
      BY <1>9, CloseTypes DEF txVars
    <2>2. QED
      BY <1>1, <2>1, EndAnswers
  <1>10. CASE GetInfo /\ Put(InfoAnswer) /\ bump(GetInfoLen) /\ pc' = "flush"
              /\ UNCHANGED <<isOpen, wire, errors>>
    <2>1. pc = "getinfo" /\ Need = GetInfoLen
      BY <1>10 DEF GetInfo, Filled, Need
    <2>2. AnswerTo(d + 1, sent[d + 1]) = InfoAnswer
      BY <1>4, <2>1 DEF AnswerTo
    <2>3. Len(InfoAnswer) <= TxSize
      BY InfoType, Sizes, ConnAssumption
    <2>4. QED
      BY <1>7, <1>10, <2>1, <2>2, <2>3
  <1>11. QED
    BY <1>8, <1>9, <1>10 DEF GetInfo

\* The header of a "shift" is taken off the buffer.
LEMMA HeaderAnswers ==
    ASSUME TypeOK, BoundsInv, AnswersInv, ShiftHeader
    PROVE  AnswersInv'
  <1>1. /\ pc = "shift" /\ rl >= ShiftHdrLen /\ bits' = Arg /\ bitsLeft' = Arg /\ off' = 0
        /\ UNCHANGED <<clientVars, answer, rxb, txVars, supVecLen, driven>>
    BY DEF ShiftHeader, Filled, Need
  <1>2. Serving /\ Started = 0 /\ ~InShift
    BY <1>1 DEF Serving, Started, InShift
  <1>3. PICK d \in 0..Len(sent) : FramedAt(d) /\ AnsweredAt(d) /\ (NoWrap => DrivenAt(d))
    BY <1>2 DEF AnswersInv
  <1>4. /\ d < Len(sent) /\ sent[d + 1].kind = "shift" /\ sent \in Seq(Requests)
        /\ rl \in Nat /\ rp \in Nat /\ d + 1 \in 1..Len(sent) /\ Len(sent) \in Nat
    BY <1>1, <1>3 DEF FramedAt, TypeOK
  <1>5. sent[d + 1] \in Requests
    BY <1>4
  <1>6. /\ MessageLen(sent[d + 1]) = ShiftHdrLen + 2 * BytesOf(sent[d + 1].arg)
        /\ MessageLen(sent[d + 1]) \in Nat /\ BytesOf(sent[d + 1].arg) \in Nat
        /\ ShiftHdrLen \in Nat /\ ShiftHdrLen >= 1
    <2>1. sent[d + 1].arg \in Nat /\ sent[d + 1].arg < Wrap
      BY <1>5, ConnAssumption
    <2>2. BytesOf(sent[d + 1].arg) \in Nat
      BY <2>1, BytesOfBits
    <2>3. ShiftHdrLen \in Nat /\ ShiftHdrLen >= 1
      BY ConnAssumption
    <2>4. QED
      BY <1>4, <1>5, <2>2, <2>3, RequestLen
  <1>7. Arg = sent[d + 1].arg
    <2>1. rl > 0 /\ Started + (1 - 1) < MessageLen(sent[d + 1]) /\ 1 \in 1..rl /\ rp + 1 - 1 = rp
      BY <1>1, <1>2, <1>4, <1>6
    <2>2. \A k \in 1..rl : Started + (k - 1) < MessageLen(sent[d + 1])
                 => rxb[rp + k - 1] = [msg |-> d + 1, off |-> Started + (k - 1)]
      BY <1>2, <1>3, <2>1, AtRp
    <2>3. rxb[rp + 1 - 1] = [msg |-> d + 1, off |-> Started + (1 - 1)]
      BY <2>1, <2>2
    <2>4. rxb[rp].msg = d + 1
      BY <2>1, <2>3
    <2>5. QED
      BY <2>4 DEF Arg
  <1>8. CASE pc' = "exit" /\ UNCHANGED <<rp, rl>>
    <2>1. pc' \in {"accept", "exit"} /\ UNCHANGED <<sent, answer, txb, driven, supVecLen>>
      BY <1>1, <1>8 DEF clientVars, txVars
    <2>2. QED
      BY <2>1, EndAnswers
  <1>9. CASE pc' = "vectors" /\ bump(ShiftHdrLen)
    <2>1. /\ ShiftHdrLen \in 0..Len(Octets) /\ Octets \in Seq(Bytes)
          /\ Octets' \in Seq(Bytes) /\ Len(Octets') = Len(Octets) - ShiftHdrLen
          /\ \A k \in 1..Len(Octets') : Octets'[k] = Octets[k + ShiftHdrLen]
      BY <1>1, <1>2, <1>6, <1>9, OctetsBump DEF clientVars
    <2>2. InStream(Octets, sent) /\ Begins(Octets, sent, d + 1, 0)
      BY <1>2, <1>3 DEF FramedAt
    <2>3. 0 + ShiftHdrLen <= MessageLen(sent[d + 1]) /\ 0 + ShiftHdrLen = ShiftHdrLen /\ 0 \in Nat
      BY <1>6
    <2>4. /\ InStream(Octets', sent) /\ Begins(Octets', sent, d + 1, 0 + ShiftHdrLen)
          /\ Whole(Octets, sent, d + 1, 0) => Whole(Octets', sent, d + 1, 0 + ShiftHdrLen)
      BY <1>4, <2>1, <2>2, <2>3, StreamBump
    <2>5. isOpen => Whole(Octets, sent, d + 1, 0)
      BY <1>2, <1>3 DEF FramedAt
    <2>6. InShift' /\ Started' = ShiftHdrLen /\ toWrite' = toWrite
      BY <1>1, <1>9 DEF InShift, Started, toWrite
    <2>7. FramedAt(d)'
      <3>1. bitsLeft' = bits' /\ bitsLeft' <= bits'
        BY <1>1, <1>7, <1>5, ConnAssumption
      <3>2. QED
        BY <1>1, <1>4, <1>7, <1>9, <2>3, <2>4, <2>5, <2>6, <3>1 DEF FramedAt, clientVars
    <2>8. AnsweredAt(d)' /\ (NoWrap => DrivenAt(d)')
      BY <1>1, <1>3, <1>9, <2>6 DEF AnsweredAt, DrivenAt, someSent, clientVars
    <2>9. txb' \in [0..(TxSize - 1) -> Out] /\ UNCHANGED <<sent, answer, driven, supVecLen>>
      BY <1>1 DEF AnswersInv, txVars, clientVars
    <2>10. QED
      BY <2>7, <2>8, <2>9, GoOn
  <1>10. QED
    BY <1>8, <1>9 DEF ShiftHeader

\* The vectors are there; none is sent yet.
LEMMA VectorsAnswers ==
    ASSUME TypeOK, BoundsInv, AnswersInv, ShiftVectors
    PROVE  AnswersInv'
  <1>1. /\ pc = "vectors" /\ pc' = "chunks"
        /\ UNCHANGED <<clientVars, answer, bufVars, txVars, supVecLen, shiftVars, driven>>
    BY DEF ShiftVectors, Filled
  <1>2. Serving /\ InShift /\ ChunkInv
    BY <1>1 DEF Serving, InShift, BoundsInv
  <1>3. PICK d \in 0..Len(sent) : FramedAt(d) /\ AnsweredAt(d) /\ (NoWrap => DrivenAt(d))
    BY <1>2 DEF AnswersInv
  <1>4. Octets' = Octets /\ InShift' = InShift /\ Started' = Started /\ toWrite' = toWrite
    BY <1>1 DEF Octets, InShift, Started, toWrite, clientVars, bufVars
  <1>5. off = 0 /\ bitsLeft = bits /\ bits \in Nat
    BY <1>1, <1>3 DEF FramedAt, TypeOK
  <1>6. FramedAt(d)'
    BY <1>1, <1>3, <1>4 DEF FramedAt, clientVars, shiftVars
  <1>7. tdoReady' = 0
    <2>1. bits = 0 => BytesOf(bits) = 0
      <3>1. Wrap \in Nat \ {0}
        BY ConnAssumption
      <3>2. 0 + 7 < Wrap => BytesOf(0) = (0 + 7) \div 8
        BY <3>1, BytesOfBits
      <3>3. 0 + 7 >= Wrap => BytesOf(0) = 0
        BY <3>1, BytesOfBits
      <3>4. (0 + 7) \div 8 = 0
        OBVIOUS
      <3>5. QED
        BY <3>1, <3>2, <3>3, <3>4
    <2>2. QED
      BY <1>1, <1>5, <2>1 DEF tdoReady, shiftVars
  <1>8. AnsweredAt(d)' /\ (NoWrap => DrivenAt(d)')
    BY <1>1, <1>3, <1>4, <1>5, <1>7 DEF AnsweredAt, DrivenAt, someSent, clientVars, shiftVars
  <1>9. txb' \in [0..(TxSize - 1) -> Out] /\ UNCHANGED <<sent, answer, driven, supVecLen>>
    BY <1>1 DEF AnswersInv, txVars, clientVars
  <1>10. QED
    BY <1>6, <1>8, <1>9, GoOn

\* The octets of the next chunk: the last one ends with the vector, the others
\* are whole.
LEMMA ChunkBytes ==
    ASSUME TypeOK, BoundsInv, pc = "chunks", bitsLeft > 0, BytesOf(bits) > 0
    PROVE  /\ 8 * off + bitsLeft = bits
           /\ bitsSent \in 1..(8 * supVecLen) /\ bitsSent <= bitsLeft
           /\ bitsSent < bitsLeft => BytesOf(bitsSent) = vecLen
           /\ bitsSent = bitsLeft => off + BytesOf(bitsSent) = BytesOf(bits)
  <1>1. /\ bits \in Nat /\ bitsLeft \in Nat /\ off \in Nat /\ supVecLen \in Nat /\ supVecLen > 0
        /\ bits < Wrap /\ ChunkInv
    BY ConnAssumption DEF TypeOK, BoundsInv, Serving
  <1>2. /\ BytesOf(bits) \in Nat /\ vecLen \in Nat /\ bitsSent \in Nat /\ bitsSent <= bitsLeft
        /\ bitsSent < bitsLeft => bitsSent = 8 * vecLen
    BY NextChunk
  <1>3. Wrap \in Nat
    BY ConnAssumption
  <1>4. bits + 7 < Wrap /\ BytesOf(bits) = (bits + 7) \div 8 /\ 8 * off + bitsLeft = bits
    <2>1. ~(bits + 7 >= Wrap)
      BY <1>1, <1>2, BytesOfBits
    <2>2. bits + 7 < Wrap
      BY <1>1, <1>3, <2>1
    <2>3. BytesOf(bits) = (bits + 7) \div 8
      BY <1>1, <2>2, BytesOfBits
    <2>4. 8 * off + bitsLeft = bits
      BY <1>1, <1>2 DEF ChunkInv
    <2>5. QED
      BY <2>2, <2>3, <2>4
  <1>5. bitsSent + 7 < Wrap /\ bitsSent < Wrap
    BY <1>1, <1>2, <1>3, <1>4
  <1>6. BytesOf(bitsSent) = (bitsSent + 7) \div 8
    BY <1>2, <1>5, BytesOfBits
  <1>7. vecLen >= 1 /\ vecLen <= supVecLen
    BY <1>1, <1>2 DEF vecLen
  <1>8. bitsSent >= 1 /\ bitsSent <= 8 * supVecLen
    BY <1>1, <1>2, <1>7 DEF bitsSent
  <1>9. bitsSent < bitsLeft => BytesOf(bitsSent) = vecLen
    <2>1. \A v \in Nat : (8 * v + 7) \div 8 = v
      OBVIOUS
    <2>2. QED
      BY <1>2, <1>6, <2>1
  <1>10. bitsSent = bitsLeft => off + BytesOf(bitsSent) = BytesOf(bits)
    <2>1. \A o, n \in Nat : o + ((n + 7) \div 8) = ((8 * o + n) + 7) \div 8
      OBVIOUS
    <2>2. QED
      BY <1>1, <1>4, <1>6, <2>1
  <1>11. QED
    BY <1>1, <1>2, <1>4, <1>8, <1>9, <1>10

\* The TDO octets of a chunk.
LEMMA TdoType ==
    ASSUME TypeOK, BoundsInv, pc = "chunks", bitsLeft > 0
    PROVE  /\ Tdo(bitsSent) \in Seq(Out) /\ Len(Tdo(bitsSent)) = BytesOf(bitsSent)
           /\ \A k \in 1..BytesOf(bitsSent) : Tdo(bitsSent)[k] =
                 <<"tdo", rxb[rp + off + k - 1], rxb[rp + BytesOf(bits) + off + k - 1]>>
  <1> DEFINE w == BytesOf(bitsSent)
             B == BytesOf(bits)
             x(k) == <<"tdo", rxb[rp + off + k - 1], rxb[rp + B + off + k - 1]>>
  <1>1. w \in Nat /\ B \in Nat /\ off + w <= B
    BY NextChunk
  <1>2. /\ rp \in Nat /\ rl \in Nat /\ off \in Nat /\ rp + rl <= RxSize /\ rl >= 2 * B
        /\ rxb \in [0..(RxSize - 1) -> Bytes] /\ RxSize \in Nat
    BY BufferEnd, Sizes DEF TypeOK, BoundsInv, Serving, BufferInv
  <1>3. Tdo(bitsSent) = [k \in 1..w |-> x(k)]
    BY DEF Tdo
  <1> HIDE DEF w, B
  <1>4. ASSUME NEW k \in 1..w PROVE x(k) \in Out
    <2>1. rp + off + k - 1 \in 0..(RxSize - 1) /\ rp + B + off + k - 1 \in 0..(RxSize - 1)
      BY <1>1, <1>2
    <2> DEFINE b == rxb[rp + off + k - 1]
               c == rxb[rp + B + off + k - 1]
    <2>2. b \in Bytes /\ c \in Bytes
      BY <1>2, <2>1
    <2> HIDE DEF b, c
    <2>3. <<"tdo", b, c>> \in Out
      BY <2>2 DEF Out
    <2>4. QED
      BY <2>3 DEF b, c
  <1> HIDE DEF x
  <1>5. Tdo(bitsSent) \in Seq(Out) /\ Len(Tdo(bitsSent)) = w
        /\ \A k \in 1..w : Tdo(bitsSent)[k] = x(k)
    BY <1>1, <1>3, <1>4
  <1>6. QED
    BY <1>5 DEF w, B, x

\* The next chunk fills in its part of the answer.
LEMMA ChunkAnswer ==
    ASSUME TypeOK, BoundsInv, AnswersInv, pc = "chunks", bitsLeft > 0, NEW d \in 0..Len(sent),
           FramedAt(d), AnsweredAt(d), txb' = Store(txb, off, Tdo(bitsSent)),
           bitsLeft' = bitsLeft - bitsSent, off' = off + vecLen, bits' = bits
    PROVE  /\ txb' \in [0..(TxSize - 1) -> Out]
           /\ \A k \in 1..tdoReady' : txb'[k - 1] = AnswerTo(d + 1, sent[d + 1])[k]
  <1> DEFINE w == BytesOf(bitsSent)
             B == BytesOf(bits)
             s == Tdo(bitsSent)
  <1>1. /\ s \in Seq(Out) /\ Len(s) = w
        /\ \A k \in 1..w : s[k] = <<"tdo", rxb[rp + off + k - 1], rxb[rp + B + off + k - 1]>>
    BY TdoType
  <1>2. /\ B \in Nat /\ w \in Nat /\ off + w <= B /\ bitsSent \in Nat /\ bitsSent <= bitsLeft
        /\ B = 0 => vecLen = 0 /\ bitsSent = 0
    BY NextChunk
  <1>3. off \in Nat /\ bitsLeft \in Nat /\ rp \in Nat /\ rl \in Nat /\ rl >= 2 * B /\ Serving /\ B <= TxSize
    BY <1>2, Sizes, ConnAssumption DEF TypeOK, BoundsInv, Serving, BufferInv, ChunkInv
  <1>4. txb \in [0..(TxSize - 1) -> Out]
    BY DEF AnswersInv
  <1> HIDE DEF w, B, s
  <1>5. /\ txb' \in [0..(TxSize - 1) -> Out]
        /\ \A i \in 0..(TxSize - 1) : txb'[i] = IF off <= i /\ i < off + Len(s) THEN s[i - off + 1] ELSE txb[i]
    <2> DEFINE c == Store(txb, off, s)
    <2>1. /\ c \in [0..(TxSize - 1) -> Out]
          /\ \A i \in 0..(TxSize - 1) : c[i] = IF off <= i /\ i < off + Len(s) THEN s[i - off + 1] ELSE txb[i]
      <3>1. off \in Nat /\ s \in Seq(Out)
        BY <1>1, <1>3
      <3>2. QED
        BY <1>4, <3>1, StoreTx
    <2> HIDE DEF c
    <2>2. txb' = c
      BY DEF c, s
    <2>3. QED
      BY <2>1, <2>2, Zenon
  <1>6. CASE B = 0
    <2>1. tdoReady' = 0
      <3>1. off = 0 /\ off' = 0 /\ bitsLeft' > 0
        BY <1>2, <1>3, <1>6 DEF BoundsInv, ChunkInv, B
      <3>2. QED
        BY <3>1 DEF tdoReady
    <2>2. QED
      BY <1>5, <2>1
  <1>7. CASE B > 0
    <2>1. /\ bitsSent < bitsLeft => w = vecLen
          /\ bitsSent = bitsLeft => off + w = B
      BY <1>7, ChunkBytes DEF w, B
    <2>2. tdoReady' = off + w
      <3>1. bitsLeft' > 0 => bitsSent < bitsLeft
        BY <1>2, <1>3
      <3>2. ~(bitsLeft' > 0) => bitsSent = bitsLeft
        BY <1>2, <1>3
      <3>3. QED
        BY <2>1, <3>1, <3>2 DEF tdoReady, B
    <2>3. d < Len(sent) /\ sent[d + 1].kind = "shift" /\ bits = sent[d + 1].arg /\ sent[d + 1] \in Requests
          /\ Started = ShiftHdrLen /\ d + 1 \in Nat /\ ShiftHdrLen \in Nat
      <3>1. d < Len(sent) /\ sent[d + 1].kind = "shift" /\ bits = sent[d + 1].arg
        BY DEF FramedAt, InShift
      <3>2. QED
        BY <3>1, ConnAssumption DEF TypeOK, Started, InShift
    <2>4. MessageLen(sent[d + 1]) = ShiftHdrLen + 2 * B
      BY <2>3, RequestLen DEF B
    <2>5. \A k \in 1..rl : Started + (k - 1) < MessageLen(sent[d + 1])
                 => rxb[rp + k - 1] = [msg |-> d + 1, off |-> Started + (k - 1)]
      <3>1. rl > 0 /\ Started < MessageLen(sent[d + 1])
        BY <1>2, <1>3, <1>7, <2>3, <2>4
      <3>2. QED
        BY <1>3, <2>3, <3>1, AtRp
    <2>6. \A k \in 1..(2 * B) : rxb[rp + k - 1] = [msg |-> d + 1, off |-> ShiftHdrLen + (k - 1)]
      <3>1. \A k \in 1..(2 * B) : k \in 1..rl /\ Started + (k - 1) < MessageLen(sent[d + 1])
        BY <1>2, <1>3, <2>3, <2>4
      <3>2. QED
        BY <2>3, <2>5, <3>1
    <2>7. \A k \in 1..B : AnswerTo(d + 1, sent[d + 1])[k] =
                 <<"tdo", [msg |-> d + 1, off |-> ShiftHdrLen + k - 1],
                          [msg |-> d + 1, off |-> ShiftHdrLen + B + k - 1]>>
      BY <2>3, AnswerType DEF B
    <2>8. ASSUME NEW k \in 1..(off + w) PROVE txb'[k - 1] = AnswerTo(d + 1, sent[d + 1])[k]
      <3>1. k - 1 \in 0..(TxSize - 1) /\ k \in 1..B /\ k \in Nat
        BY <1>2, <1>3, Sizes
      <3>2. CASE k <= off
        <4>1. ~(off <= k - 1) /\ k \in 1..off
          BY <1>3, <3>1, <3>2
        <4>2. txb'[k - 1] = txb[k - 1]
          BY <1>5, <3>1, <4>1
        <4>3. tdoReady = off
          BY DEF tdoReady
        <4>4. QED
          BY <4>1, <4>2, <4>3 DEF AnsweredAt
      <3>3. CASE ~(k <= off)
        <4>1. off <= k - 1 /\ k - 1 < off + w /\ (k - 1) - off + 1 = k - off /\ k - off \in 1..w
          BY <1>2, <1>3, <3>1, <3>3
        <4>2. txb'[k - 1] = s[k - off]
          <5>1. k - 1 < off + Len(s)
            BY <1>1, <4>1
          <5>2. txb'[k - 1] = s[(k - 1) - off + 1]
            BY <1>5, <3>1, <4>1, <5>1
          <5>3. QED
            BY <4>1, <5>2
        <4>3. /\ rp + off + (k - off) - 1 = rp + k - 1
              /\ rp + B + off + (k - off) - 1 = rp + (B + k) - 1
          BY <1>2, <1>3, <3>1
        <4>4. s[k - off] = <<"tdo", rxb[rp + k - 1], rxb[rp + (B + k) - 1]>>
          BY <1>1, <4>1, <4>3
        <4>5. k \in 1..(2 * B) /\ B + k \in 1..(2 * B)
          BY <1>2, <3>1
        <4>6. ShiftHdrLen + (k - 1) = ShiftHdrLen + k - 1
              /\ ShiftHdrLen + ((B + k) - 1) = ShiftHdrLen + B + k - 1
          BY <1>2, <2>3, <3>1
        <4>7. rxb[rp + k - 1] = [msg |-> d + 1, off |-> ShiftHdrLen + k - 1]
              /\ rxb[rp + (B + k) - 1] = [msg |-> d + 1, off |-> ShiftHdrLen + B + k - 1]
          BY <2>6, <4>5, <4>6
        <4>8. QED
          BY <2>7, <3>1, <4>2, <4>4, <4>7
      <3>4. QED
        BY <3>2, <3>3
    <2>9. QED
      BY <1>5, <2>2, <2>8
  <1>8. QED
    BY <1>2, <1>6, <1>7

\* One chunk is driven, right behind the one before it, or the driver throws.
LEMMA ChunkAnswers ==
    ASSUME TypeOK, BoundsInv, AnswersInv, ShiftChunk
    PROVE  AnswersInv'
  <1>1. /\ pc = "chunks" /\ bitsLeft > 0
        /\ UNCHANGED <<sent, answer, bufVars, tl, tp, supVecLen, bits>>
    BY DEF ShiftChunk
  <1>2. Serving /\ InShift
    BY <1>1 DEF Serving, InShift
  <1>3. PICK d \in 0..Len(sent) : FramedAt(d) /\ AnsweredAt(d) /\ (NoWrap => DrivenAt(d))
    BY <1>2 DEF AnswersInv
  <1> DEFINE c == [msg |-> rxb[rp].msg, first |-> 8 * off, n |-> bitsSent]
  <1>4. CASE /\ txb' = Store(txb, off, Tdo(bitsSent)) /\ driven' = Append(driven, c)
             /\ bitsLeft' = bitsLeft - bitsSent /\ off' = off + vecLen
             /\ UNCHANGED <<pc, isOpen, wire, errors>>
    <2>1. /\ txb' \in [0..(TxSize - 1) -> Out]
          /\ \A k \in 1..tdoReady' : txb'[k - 1] = AnswerTo(d + 1, sent[d + 1])[k]
      BY <1>1, <1>3, <1>4, ChunkAnswer
    <2>2. /\ bitsSent \in Nat /\ bitsSent <= bitsLeft /\ bitsLeft \in Nat /\ off \in Nat /\ bits \in Nat
          /\ BytesOf(bits) \in Nat
      BY <1>1, NextChunk DEF TypeOK
    <2>3. /\ d < Len(sent) /\ bits = sent[d + 1].arg /\ bitsLeft <= bits /\ sent[d + 1].kind = "shift"
          /\ sent[d + 1] \in Requests /\ Len(sent) \in Nat /\ d \in Nat
      <3>1. d < Len(sent) /\ bits = sent[d + 1].arg /\ bitsLeft <= bits /\ sent[d + 1].kind = "shift"
        BY <1>2, <1>3 DEF FramedAt
      <3>2. QED
        BY <3>1 DEF TypeOK
    <2>4. FramedAt(d)'
      <3>1. Octets' = Octets /\ InShift' = InShift /\ Started' = Started
        BY <1>1, <1>4 DEF Octets, InShift, Started, bufVars
      <3>2. bitsLeft' <= bits'
        BY <1>1, <1>4, <2>2, <2>3
      <3>3. pc' \notin {"getinfo", "settck", "shift", "vectors"}
        BY <1>1, <1>4
      <3>4. QED
        BY <1>1, <1>2, <1>3, <1>4, <3>1, <3>2, <3>3 DEF FramedAt
    <2>5. AnsweredAt(d)'
      <3>1. toWrite = <<>> /\ toWrite' = <<>>
        BY <1>1, <1>4 DEF toWrite
      <3>2. QED
        BY <1>1, <1>3, <2>1, <3>1 DEF AnsweredAt
    <2>6. c \in Calls /\ driven \in Seq(Calls)
      <3>1. rp \in 0..(RxSize - 1)
        BY <1>2, Sizes DEF TypeOK, BoundsInv, BufferInv
      <3>2. rxb[rp] \in Bytes
        BY <3>1 DEF TypeOK
      <3>3. rxb[rp].msg \in Nat /\ 8 * off \in Nat
        BY <2>2, <3>2 DEF Bytes
      <3>4. QED
        BY <2>2, <3>3 DEF Calls, AnswersInv
    <2>7. /\ driven' \in Seq(Calls) /\ Len(driven') = Len(driven) + 1 /\ Len(driven) \in Nat
          /\ driven'[Len(driven) + 1] = c /\ \A i \in 1..Len(driven) : driven'[i] = driven[i]
      <3> HIDE DEF c
      <3>1. driven' = Append(driven, c)
        BY <1>4
      <3>2. QED
        BY <2>6, <3>1
    <2>8. ASSUME NoWrap
          PROVE  /\ EachBitOnce' /\ \A i \in 1..Len(driven') : driven'[i].msg \in 1..Len(sent')
                 /\ DrivenAt(d)'
      <3>1. /\ EachBitOnce /\ \A i \in 1..Len(driven) : driven[i].msg \in 1..Len(sent)
            /\ DrivenAt(d)
        BY <1>3, <2>8 DEF AnswersInv
      <3>2. BytesOf(bits) > 0
        <4>1. bits < Wrap /\ bits + 7 < Wrap
          BY <2>3, <2>8 DEF NoWrap, BoundsInv
        <4>2. BytesOf(bits) = (bits + 7) \div 8
          BY <2>2, <4>1, BytesOfBits
        <4>3. bits >= 1
          BY <1>1, <2>2, <2>3
        <4>4. QED
          BY <2>2, <4>2, <4>3
      <3>3. 8 * off + bitsLeft = bits /\ bitsSent \in 1..(8 * supVecLen)
        BY <1>1, <3>2, ChunkBytes
      <3>4. c.msg = d + 1 /\ c.first = 8 * off /\ c.n = bitsSent
        <4>1. /\ rl > 0 /\ 1 \in 1..rl /\ rp \in Nat /\ rp + 1 - 1 = rp
              /\ Started + (1 - 1) = Started /\ Started < MessageLen(sent[d + 1])
          <5>1. rl \in Nat /\ rp \in Nat /\ rl >= 2 * BytesOf(bits)
            BY <1>1, <1>2 DEF TypeOK, BoundsInv, BufferInv
          <5>2. MessageLen(sent[d + 1]) = ShiftHdrLen + 2 * BytesOf(bits)
            BY <2>3, RequestLen
          <5>3. Started = ShiftHdrLen /\ ShiftHdrLen \in Nat
            BY <1>2, ConnAssumption DEF Started
          <5>4. QED
            BY <2>2, <3>2, <5>1, <5>2, <5>3
        <4>2. \A k \in 1..rl : Started + (k - 1) < MessageLen(sent[d + 1])
                 => rxb[rp + k - 1] = [msg |-> d + 1, off |-> Started + (k - 1)]
          BY <1>2, <1>3, <2>3, <4>1, AtRp
        <4>3. rxb[rp + 1 - 1] = [msg |-> d + 1, off |-> Started + (1 - 1)]
          BY <4>1, <4>2
        <4>4. rxb[rp].msg = d + 1
          BY <4>1, <4>3
        <4>5. QED
          BY <4>4
      <3> HIDE DEF c
      <3>5. /\ c.n \in 1..(8 * supVecLen) /\ c.first + c.n <= sent[c.msg].arg
            /\ c.msg \in 1..Len(sent)
        <4>1. 8 * off + bitsSent <= bits
          BY <2>2, <3>3
        <4>2. QED
          BY <2>3, <3>3, <3>4, <4>1
      <3>6. ~someSent => off = 0 /\ bitsLeft = bits
        BY <1>1, <2>2, <2>3, <3>3 DEF someSent
      <3>7. driven = <<>> => c.first = 0
        <4>1. driven = <<>> => ~someSent
          BY <3>1 DEF DrivenAt
        <4>2. QED
          BY <3>4, <3>6, <4>1
      <3>8. ASSUME driven # <<>>
            PROVE  LET p == driven[Len(driven)] IN
                     \/ p.msg = c.msg /\ c.first = p.first + p.n
                     \/ p.msg < c.msg /\ c.first = 0 /\ p.first + p.n = sent[p.msg].arg
        <4> DEFINE p == driven[Len(driven)]
        <4>1. p \in Calls
          BY <2>6, <3>8
        <4>2. p.msg \in Nat /\ p.first \in Nat /\ p.n \in Nat
          BY <4>1 DEF Calls
        <4>3. IF someSent THEN p.msg = d + 1 /\ p.first + p.n = bits - bitsLeft
                          ELSE p.msg <= d /\ p.first + p.n = sent[p.msg].arg
          BY <3>1, <3>8 DEF DrivenAt
        <4> HIDE DEF p
        <4>4. CASE someSent
          <5>1. bits - bitsLeft = 8 * off
            BY <2>2, <3>3
          <5>2. QED
            BY <3>4, <4>3, <4>4, <5>1 DEF p
        <4>5. CASE ~someSent
          <5>1. p.msg < d + 1
            BY <2>3, <4>2, <4>3, <4>5
          <5>2. QED
            BY <3>4, <3>6, <4>3, <4>5, <5>1 DEF p
        <4>6. QED
          BY <4>4, <4>5
      <3>9. EachBitOnce'
        <4> SUFFICES ASSUME NEW i \in 1..Len(driven')
                     PROVE  LET e == driven'[i]
                                follows(p) == \/ p.msg = e.msg /\ e.first = p.first + p.n
                                              \/ p.msg < e.msg /\ e.first = 0 /\ p.first + p.n = sent[p.msg].arg
                            IN  /\ e.n \in 1..(8 * supVecLen)
                                /\ e.first + e.n <= sent[e.msg].arg
                                /\ IF i = 1 THEN e.first = 0 ELSE follows(driven'[i - 1])
          BY <1>1 DEF EachBitOnce
        <4>1. CASE i <= Len(driven)
          <5>1. i \in 1..Len(driven) /\ (i # 1 => i - 1 \in 1..Len(driven))
            BY <2>7, <4>1
          <5>2. driven'[i] = driven[i] /\ (i # 1 => driven'[i - 1] = driven[i - 1])
            BY <2>7, <5>1
          <5>3. QED
            BY <3>1, <5>1, <5>2 DEF EachBitOnce
        <4>2. CASE i = Len(driven) + 1
          <5>1. driven'[i] = c
            BY <2>7, <4>2
          <5>2. CASE i = 1
            <6>1. driven = <<>>
              BY <2>6, <2>7, <4>2, <5>2
            <6>2. QED
              BY <3>5, <3>7, <5>1, <5>2, <6>1
          <5>3. CASE i # 1
            <6>1. i - 1 = Len(driven) /\ Len(driven) \in 1..Len(driven)
              BY <2>7, <4>2, <5>3
            <6>2. driven'[i - 1] = driven[Len(driven)] /\ driven # <<>>
              BY <2>7, <6>1
            <6>3. QED
              BY <3>5, <3>8, <5>1, <5>3, <6>2
          <5>4. QED
            BY <5>2, <5>3
        <4>3. QED
          BY <2>7, <4>1, <4>2
      <3>10. \A i \in 1..Len(driven') : driven'[i].msg \in 1..Len(sent')
        <4> SUFFICES ASSUME NEW i \in 1..Len(driven') PROVE driven'[i].msg \in 1..Len(sent)
          BY <1>1
        <4>1. CASE i \in 1..Len(driven)
          BY <2>7, <3>1, <4>1
        <4>2. CASE i = Len(driven) + 1
          BY <2>7, <3>5, <4>2
        <4>3. QED
          BY <2>7, <4>1, <4>2
      <3>11. DrivenAt(d)'
        <4>1. someSent'
          BY <1>1, <1>4, <2>2, <2>3, <3>3 DEF someSent
        <4>2. driven' # <<>> /\ driven'[Len(driven')] = c
          BY <2>7
        <4>3. c.first + c.n = bits' - bitsLeft'
          BY <1>1, <1>4, <2>2, <3>3, <3>4
        <4>4. QED
          BY <3>4, <4>1, <4>2, <4>3 DEF DrivenAt
      <3>12. QED
        BY <3>9, <3>10, <3>11
    <2>9. AnswersMatch' = AnswersMatch /\ answer' \in Seq(Out)
      BY <1>1 DEF AnswersMatch, AnswersInv
    <2>10. \E e \in 0..Len(sent') : FramedAt(e)' /\ AnsweredAt(e)' /\ (NoWrap => DrivenAt(e)')
      <3>1. d \in 0..Len(sent')
        BY <1>1
      <3>2. QED
        BY <2>4, <2>5, <2>8, <3>1, Zenon
    <2>11. QED
      BY <2>1, <2>7, <2>8, <2>9, <2>10 DEF AnswersInv
  <1>5. CASE Throws /\ UNCHANGED <<txb, driven, bitsLeft, off>>
    <2>1. pc' \in {"accept", "exit"} /\ UNCHANGED <<sent, answer, txb, driven, supVecLen>>
      BY <1>1, <1>5, CloseTypes
    <2>2. QED
      BY <2>1, EndAnswers
  <1>6. QED
    BY <1>4, <1>5 DEF ShiftChunk

\* All chunks are sent: the request is done, and its answer ready.
LEMMA DoneAnswers ==
    ASSUME TypeOK, BoundsInv, AnswersInv, ShiftDone
    PROVE  AnswersInv'
  <1> DEFINE B == BytesOf(bits)
  <1>1. /\ pc = "chunks" /\ bitsLeft = 0 /\ pc' = "flush" /\ tl' = B /\ tp' = 0 /\ bump(2 * B)
        /\ UNCHANGED <<clientVars, answer, rxb, txb, supVecLen, shiftVars, driven>>
    BY DEF ShiftDone
  <1>2. Serving /\ InShift /\ BufferInv /\ ChunkInv
    BY <1>1 DEF Serving, InShift, BoundsInv
  <1>3. PICK d \in 0..Len(sent) : FramedAt(d) /\ AnsweredAt(d) /\ (NoWrap => DrivenAt(d))
    BY <1>2 DEF AnswersInv
  <1>4. d < Len(sent) /\ sent[d + 1].kind = "shift" /\ bits = sent[d + 1].arg /\ sent[d + 1] \in Requests
        /\ d \in Nat /\ d + 1 \in Nat
    <2>1. d < Len(sent) /\ sent[d + 1].kind = "shift" /\ bits = sent[d + 1].arg
      BY <1>2, <1>3 DEF FramedAt
    <2>2. QED
      BY <2>1 DEF TypeOK
  <1>5. B \in Nat /\ rl >= 2 * B /\ B <= TxSize /\ bits \in Nat /\ 2 * B \in Nat
    <2>1. B \in Nat
      BY BytesOfBits DEF TypeOK, BoundsInv
    <2>2. B <= TxSize
      BY <1>2, <2>1, Sizes, ConnAssumption DEF ChunkInv
    <2>3. QED
      BY <1>1, <1>2, <2>1, <2>2 DEF TypeOK, BufferInv
  <1>6. d + 1 \in 0..Len(sent) /\ FramedAt(d + 1)'
    <2>1. Started + 2 * B = MessageLen(sent[d + 1])
      <3>1. MessageLen(sent[d + 1]) = ShiftHdrLen + 2 * B
        BY <1>4, RequestLen
      <3>2. QED
        BY <1>2, <3>1 DEF Started
    <2>2. rxb' = rxb /\ wire' = wire /\ sent' = sent /\ isOpen' = isOpen
      BY <1>1 DEF clientVars
    <2> HIDE DEF B
    <2>3. QED
      BY <1>1, <1>2, <1>3, <1>4, <1>5, <2>1, <2>2, RequestDone
  <1>7. toWrite' = AnswerTo(d + 1, sent[d + 1])
    <2> DEFINE s == AnswerTo(d + 1, sent[d + 1])
    <2>1. s \in Seq(Out) /\ Len(s) = B
      BY <1>4, AnswerType
    <2>2. tdoReady = B
      BY <1>1 DEF tdoReady
    <2>3. \A k \in 1..B : txb[k - 1] = s[k]
      BY <1>1, <1>3, <2>2 DEF AnsweredAt
    <2>4. toWrite' = [k \in 1..B |-> txb[0 + k - 1]]
      BY <1>1 DEF toWrite, Part
    <2> HIDE DEF B, s
    <2>5. toWrite' = [k \in 1..B |-> s[k]]
      <3>1. \A k \in 1..B : 0 + k - 1 = k - 1
        BY <1>5
      <3>2. QED
        BY <2>3, <2>4, <3>1
    <2>6. QED
      BY <1>5, <2>1, <2>5 DEF s
  <1>8. AnsweredAt(d + 1)'
    BY <1>1, <1>3, <1>4, <1>7, OneMore DEF clientVars
  <1>9. ASSUME NoWrap PROVE DrivenAt(d + 1)'
    <2>1. DrivenAt(d) /\ driven \in Seq(Calls)
      BY <1>3, <1>9 DEF AnswersInv
    <2> DEFINE c == driven[Len(driven)]
    <2>2. driven # <<>> => c.msg \in Nat
      <3>1. driven # <<>> => c \in Calls
        BY <2>1
      <3>2. QED
        BY <3>1 DEF Calls
    <2>3. driven # <<>> => IF someSent THEN c.msg = d + 1 /\ c.first + c.n = bits - bitsLeft
                                       ELSE c.msg <= d /\ c.first + c.n = sent[c.msg].arg
      BY <2>1 DEF DrivenAt
    <2>4. driven # <<>> => c.msg <= d + 1 /\ c.first + c.n = sent[c.msg].arg
      <3>1. bits - bitsLeft = bits
        BY <1>1, <1>5
      <3>2. QED
        BY <1>4, <2>2, <2>3, <3>1
    <2>5. ~someSent' /\ driven' = driven /\ sent' = sent
      BY <1>1 DEF someSent, clientVars
    <2>6. QED
      BY <2>4, <2>5 DEF DrivenAt
  <1>10. txb' \in [0..(TxSize - 1) -> Out] /\ UNCHANGED <<sent, answer, driven, supVecLen>>
    BY <1>1 DEF AnswersInv, clientVars
  <1>11. QED
    BY <1>6, <1>8, <1>9, <1>10, GoOn

\* flush() writes what is left, in order, and ends when nothing is.
LEMMA FlushAnswers ==
    ASSUME TypeOK, BoundsInv, AnswersInv, FlushSome \/ FlushDone
    PROVE  AnswersInv'
  <1>1. /\ pc = "flush" /\ pc' \in {"flush", "tag", "top"}
        /\ UNCHANGED <<clientVars, bufVars, txb, supVecLen, shiftVars, driven>>
    BY DEF FlushSome, FlushDone, txVars
  <1>2. Serving /\ ~InShift /\ ~InShift' /\ Started = 0 /\ Started' = 0 /\ Serving'
        /\ ~someSent /\ ~someSent'
    BY <1>1 DEF Serving, InShift, Started, someSent
  <1>3. PICK d \in 0..Len(sent) : FramedAt(d) /\ AnsweredAt(d) /\ (NoWrap => DrivenAt(d))
    BY <1>2 DEF AnswersInv
  <1>4. FramedAt(d)'
    <2>1. Octets' = Octets
      BY <1>1 DEF Octets, clientVars, bufVars
    <2>2. QED
      BY <1>1, <1>2, <1>3, <2>1 DEF FramedAt, clientVars
  <1>5. NoWrap => DrivenAt(d)'
    BY <1>1, <1>2, <1>3 DEF DrivenAt, clientVars
  <1>6. /\ txb \in [0..(TxSize - 1) -> Out] /\ answer \in Seq(Out) /\ tp \in Nat /\ tl \in Nat
        /\ tp + tl <= TxSize /\ sent \in Seq(Requests)
    BY DEF AnswersInv, TypeOK, BoundsInv
  <1>7. toWrite = Part(txb, tp, tl)
    BY <1>1 DEF toWrite
  <1>8. answer \o toWrite = AnswersTo(SubSeq(sent, 1, d))
    BY <1>3 DEF AnsweredAt
  <1>9. answer' \in Seq(Out) /\ toWrite' \in Seq(Out) /\ answer' \o toWrite' = answer \o toWrite
    <2>1. CASE FlushDone
      <3>1. tl = 0 /\ answer' = answer /\ toWrite' = <<>>
        BY <2>1, <1>1, <1>6 DEF FlushDone, toWrite
      <3>2. toWrite = <<>>
        BY <1>7, <3>1 DEF Part
      <3>3. QED
        BY <1>6, <3>1, <3>2
    <2>2. CASE FlushSome
      <3>1. PICK put \in 1..tl : /\ answer' = answer \o [k \in 1..put |-> txb[tp + k - 1]]
                                 /\ tl' = tl - put /\ tp' = tp + put
        BY <2>2 DEF FlushSome
      <3> DEFINE s == Part(txb, tp, put)
                 t == Part(txb, tp + put, tl - put)
      <3>2. answer' = answer \o s
        BY <3>1 DEF Part
      <3>3. toWrite' = t
        BY <1>1, <2>2, <3>1 DEF toWrite, FlushSome
      <3>4. s \in Seq(Out) /\ t \in Seq(Out) /\ toWrite = s \o t
        <4>1. put \in 0..tl
          BY <1>6
        <4>2. QED
          BY <1>6, <1>7, <4>1, TxSplit
      <3> HIDE DEF s, t
      <3>5. (answer \o s) \o t = answer \o (s \o t) /\ answer \o s \in Seq(Out)
        BY <1>6, <3>4
      <3>6. QED
        BY <3>2, <3>3, <3>4, <3>5
    <2>3. QED
      BY <2>1, <2>2
  <1>10. AnsweredAt(d)'
    BY <1>1, <1>8, <1>9 DEF AnsweredAt, clientVars
  <1>11. AnswersMatch'
    <2>1. answer' \o toWrite' = AnswersTo(SubSeq(sent, 1, d))
      BY <1>8, <1>9
    <2>2. IsPrefix(answer', AnswersTo(sent))
      BY <1>6, <1>9, <2>1, WrittenPrefix
    <2>3. QED
      BY <1>1, <2>2 DEF AnswersMatch, clientVars
  <1>12. \E e \in 0..Len(sent') : FramedAt(e)' /\ AnsweredAt(e)' /\ (NoWrap => DrivenAt(e)')
    <2>1. d \in 0..Len(sent')
      BY <1>1 DEF clientVars
    <2>2. QED
      BY <1>4, <1>5, <1>10, <2>1, Zenon
  <1>13. EachBitOnce' = EachBitOnce
    BY <1>1 DEF EachBitOnce, clientVars
  <1>14. UNCHANGED <<sent, driven, txb>>
    BY <1>1 DEF clientVars
  <1>15. QED
    BY <1>9, <1>11, <1>12, <1>13, <1>14 DEF AnswersInv

\* The client is gone: the connection is closed, or SIGPIPE ends the process.
LEMMA EndsAnswers ==
    ASSUME TypeOK, AnswersInv, ReadEnd \/ FlushFails
    PROVE  AnswersInv'
  <1>1. /\ CloseConnection \/ pc' = "exit"
        /\ UNCHANGED <<sent, answer, txb, driven, supVecLen>>
    BY DEF ReadEnd, FlushFails, txVars
  <1>2. pc' \in {"accept", "exit"}
    BY <1>1, CloseTypes
  <1>3. QED
    BY <1>1, <1>2, EndAnswers

-----------------------------------------------------------------------------
\* Before the first client nothing is answered.
LEMMA AnswersInit == Init => AnswersInv
  <1> SUFFICES ASSUME Init PROVE AnswersInv
    OBVIOUS
  <1>1. answer = <<>> /\ driven = <<>> /\ sent = <<>> /\ txb = NoTx /\ pc = "accept"
    BY DEF Init
  <1>2. txb \in [0..(TxSize - 1) -> Out]
    <2>1. <<>> \in Out
      BY DEF Out
    <2>2. QED
      BY <1>1, <2>1 DEF NoTx
  <1>3. AnswersTo(<<>>) = <<>>
    <2>1. <<>> \in Seq(Requests)
      OBVIOUS
    <2>2. QED
      BY <2>1, AnswersType, Zenon
  <1>4. AnswersMatch
    BY <1>1, <1>3 DEF AnswersMatch, IsPrefix
  <1>5. EachBitOnce
    BY <1>1 DEF EachBitOnce
  <1>6. QED
    BY <1>1, <1>2, <1>4, <1>5 DEF AnswersInv, Serving

\* One step of the server or of a client.
LEMMA AnswersStep ==
    ASSUME TypeOK, BoundsInv, AnswersInv, [Next]_vars
    PROVE  AnswersInv'
  BY QuietAnswers, SendAnswers, CloseAnswers, AcceptAnswers, ReadAnswers, EndsAnswers,
     DispatchAnswers, CommandAnswers, HeaderAnswers, VectorsAnswers, ChunkAnswers, DoneAnswers,
     FlushAnswers
  DEF Next, Server

\* However a client pipelines its requests and however TCP cuts the stream, what it
\* is sent is a beginning of the answers to its requests, in order, each whole, and
\* every TDO octet belongs to the TMS and TDI octets of that place of that request:
\* XvcConn::run never loses its place in the stream (fill(), bump() and the chunks'
\* offsets), for all sizes of the buffers and all requests.
THEOREM AnswersInOrder == Spec => []AnswersMatch
  <1>1. AnswersInv => AnswersMatch
    BY DEF AnswersInv
  <1>2. QED
    BY <1>1, ConnInit, ConnStep, AnswersInit, AnswersStep, PTL DEF Spec

\* The loop over the chunks drives every bit of every shift request once and in
\* order, in chunks that the driver supports.  The assumption is needed: when the bit
\* count is so large that adding 7 wraps, the vector counts as empty and the loop
\* drives chunks of no bits for ever.
THEOREM BitsOnce ==
    ASSUME \A m \in Requests : m.arg + 7 < Wrap
    PROVE  Spec => []EachBitOnce
  <1>1. NoWrap
    BY DEF NoWrap
  <1>2. AnswersInv => EachBitOnce
    BY <1>1 DEF AnswersInv
  <1>3. QED
    BY <1>2, ConnInit, ConnStep, AnswersInit, AnswersStep, PTL DEF Spec

=============================================================================
