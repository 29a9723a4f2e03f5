--------------------------- MODULE RegDriversProofs ---------------------------
(***************************************************************************)
(* The message that sendVectors lays out has every octet of the vectors in *)
(* its place, for all limits, bit counts and sequences of targets,         *)
(* whatever driver is below, within the transmit buffer or beyond it.  The *)
(* drivers that take it apart drive each of its bits once, in order, and   *)
(* store each bit of TDO in its place.                                     *)
(***************************************************************************)
EXTENDS RegDrivers, TLAPS

\* x octets, filled up to whole words of w
WordCeil(x, w) == ((x + w - 1) \div w) * w

\* Where octet j of TMS is in the buffer; that of TDI is a word behind it
Pos(j, w) == w + 2 * w * (j \div w) + (j % w)

-----------------------------------------------------------------------------
(* Arithmetic of words.  The word size has four bits: word size by word size *)

\* Octets fill words in an order
LEMMA CeilMono ==
    ASSUME NEW w \in 4..16, NEW a \in Nat, NEW b \in Nat, a <= b
    PROVE  WordCeil(a, w) \in Nat /\ WordCeil(b, w) \in Nat /\ WordCeil(a, w) <= WordCeil(b, w) /\ a <= WordCeil(a, w)
<1> DEFINE P(x) == /\ ((a + x - 1) \div x) * x \in Nat /\ ((b + x - 1) \div x) * x \in Nat
                   /\ ((a + x - 1) \div x) * x <= ((b + x - 1) \div x) * x
                   /\ a <= ((a + x - 1) \div x) * x
<1>1. P(4) /\ P(5) /\ P(6) /\ P(7) /\ P(8) /\ P(9) /\ P(10) /\ P(11) /\ P(12) /\ P(13) /\ P(14) /\ P(15) /\ P(16)
  OBVIOUS
<1>2. w \in {4, 5, 6, 7, 8, 9, 10, 11, 12, 13, 14, 15, 16}
  OBVIOUS
<1> HIDE DEF P
<1>3. P(w)
  BY <1>1, <1>2
<1> QED BY <1>3 DEF P, WordCeil

\* Whole words are filled already
LEMMA CeilWhole ==
    ASSUME NEW w \in 4..16, NEW d \in Nat
    PROVE  WordCeil(d * w, w) = d * w /\ WordCeil(0, w) = 0
<1> DEFINE P(x) == ((d * x + x - 1) \div x) * x = d * x /\ ((0 + x - 1) \div x) * x = 0
<1>1. P(4) /\ P(5) /\ P(6) /\ P(7) /\ P(8) /\ P(9) /\ P(10) /\ P(11) /\ P(12) /\ P(13) /\ P(14) /\ P(15) /\ P(16)
  OBVIOUS
<1>2. w \in {4, 5, 6, 7, 8, 9, 10, 11, 12, 13, 14, 15, 16}
  OBVIOUS
<1> HIDE DEF P
<1>3. P(w)
  BY <1>1, <1>2
<1> QED BY <1>3 DEF P, WordCeil

\* The loop over whole words ends on the last of them
LEMMA WholeWords ==
    ASSUME NEW w \in 4..16, NEW b \in Nat
    PROVE  /\ (b \div w) * w \in Nat /\ (b \div w) * w <= b /\ b < (b \div w) * w + w
           /\ (b \div w) * w <= WordCeil(b, w)
           /\ b # (b \div w) * w => WordCeil(b, w) = (b \div w) * w + w
           /\ b = (b \div w) * w => WordCeil(b, w) = b
           /\ ((b \div w) * w) % w = 0
<1> DEFINE P(x) == /\ (b \div x) * x \in Nat /\ (b \div x) * x <= b /\ b < (b \div x) * x + x
                   /\ (b \div x) * x <= ((b + x - 1) \div x) * x
                   /\ b # (b \div x) * x => ((b + x - 1) \div x) * x = (b \div x) * x + x
                   /\ b = (b \div x) * x => ((b + x - 1) \div x) * x = b
                   /\ ((b \div x) * x) % x = 0
<1>1. P(4) /\ P(5) /\ P(6) /\ P(7) /\ P(8) /\ P(9) /\ P(10) /\ P(11) /\ P(12) /\ P(13) /\ P(14) /\ P(15) /\ P(16)
  OBVIOUS
<1>2. w \in {4, 5, 6, 7, 8, 9, 10, 11, 12, 13, 14, 15, 16}
  OBVIOUS
<1> HIDE DEF P
<1>3. P(w)
  BY <1>1, <1>2
<1> QED BY <1>3 DEF P, WordCeil

\* From one word to the next
LEMMA NextWord ==
    ASSUME NEW w \in 4..16, NEW i \in Nat, NEW e \in Nat, i % w = 0, e % w = 0, i < e
    PROVE  i + w <= e /\ (i + w) % w = 0
<1> DEFINE P(x) == i % x = 0 /\ e % x = 0 => i + x <= e /\ (i + x) % x = 0
<1>1. P(4) /\ P(5) /\ P(6) /\ P(7) /\ P(8) /\ P(9) /\ P(10) /\ P(11) /\ P(12) /\ P(13) /\ P(14) /\ P(15) /\ P(16)
  OBVIOUS
<1>2. w \in {4, 5, 6, 7, 8, 9, 10, 11, 12, 13, 14, 15, 16}
  OBVIOUS
<1> HIDE DEF P
<1>3. P(w)
  BY <1>1, <1>2
<1> QED BY <1>3 DEF P

\* A number and its word
LEMMA DivMod ==
    ASSUME NEW w \in 4..16, NEW a \in Nat
    PROVE  a = w * (a \div w) + (a % w) /\ a \div w \in Nat /\ a % w \in Nat /\ a % w < w
<1> DEFINE P(x) == a = x * (a \div x) + (a % x) /\ a \div x \in Nat /\ a % x \in Nat /\ a % x < x
<1>1. P(4) /\ P(5) /\ P(6) /\ P(7) /\ P(8) /\ P(9) /\ P(10) /\ P(11) /\ P(12) /\ P(13) /\ P(14) /\ P(15) /\ P(16)
  OBVIOUS
<1>2. w \in {4, 5, 6, 7, 8, 9, 10, 11, 12, 13, 14, 15, 16}
  OBVIOUS
<1> HIDE DEF P
<1>3. P(w)
  BY <1>1, <1>2
<1> QED BY <1>3 DEF P

\* Octets r of word q, seen from word k
LEMMA WordOrder ==
    ASSUME NEW w \in 4..16, NEW q \in Nat, NEW r \in Nat, r < w, NEW k \in Nat
    PROVE  /\ w * k <= w * q + r /\ w * q + r < w * k + w => q = k
           /\ w * q + r < w * k => 2 * w * q + r + w < 2 * w * k
           /\ 2 * w * q + r \in Nat
<1> DEFINE P(x) == r < x => /\ x * k <= x * q + r /\ x * q + r < x * k + x => q = k
                            /\ x * q + r < x * k => 2 * x * q + r + x < 2 * x * k
                            /\ 2 * x * q + r \in Nat
<1>1. P(4) /\ P(5) /\ P(6) /\ P(7) /\ P(8) /\ P(9) /\ P(10) /\ P(11) /\ P(12) /\ P(13) /\ P(14) /\ P(15) /\ P(16)
  OBVIOUS
<1>2. w \in {4, 5, 6, 7, 8, 9, 10, 11, 12, 13, 14, 15, 16}
  OBVIOUS
<1> HIDE DEF P
<1>3. P(w)
  BY <1>1, <1>2
<1> QED BY <1>3 DEF P

\* Where the octets of a word go
LEMMA Places ==
    ASSUME NEW w \in 4..16, NEW i \in Nat, i % w = 0, NEW j \in Nat
    PROVE  /\ j \in i..(i + w - 1) => Pos(j, w) = w + 2 * i + (j - i)
           /\ j < i => Pos(j, w) + w < w + 2 * i
           /\ Pos(j, w) \in Nat
<1> DEFINE q == j \div w
           r == j % w
           k == i \div w
<1>1. j = w * q + r /\ q \in Nat /\ r \in Nat /\ r < w
  BY DivMod
<1>2. i = w * k /\ k \in Nat
  BY DivMod
<1>3. Pos(j, w) = w + (2 * w * q + r)
  <2>1. 2 * w * q \in Nat
    BY <1>1
  <2> QED BY <1>1, <2>1 DEF Pos
<1> HIDE DEF q, r, k
<1>4. /\ w * k <= w * q + r /\ w * q + r < w * k + w => q = k
      /\ w * q + r < w * k => 2 * w * q + r + w < 2 * w * k
      /\ 2 * w * q + r \in Nat
  BY <1>1, <1>2, WordOrder
<1>5. 2 * w * k = 2 * i /\ w * q \in Nat /\ w * k \in Nat /\ 2 * w * q = 2 * (w * q)
  BY <1>1, <1>2
<1>6. ASSUME j \in i..(i + w - 1) PROVE Pos(j, w) = w + 2 * i + (j - i)
  <2>1. q = k
    BY <1>1, <1>2, <1>4, <1>6
  <2> QED BY <1>1, <1>2, <1>3, <1>5, <2>1
<1>7. ASSUME j < i PROVE Pos(j, w) + w < w + 2 * i
  BY <1>1, <1>2, <1>3, <1>4, <1>5, <1>7
<1> QED BY <1>3, <1>4, <1>6, <1>7

-----------------------------------------------------------------------------
(* The inductive invariant *)

SendTypes ==
    /\ pc \in {"down", "idle", "copy", "xfer", "undefined"}
    /\ wordSize \in 4..16
    /\ nCalls \in Nat /\ bits \in Nat /\ idx \in Nat /\ wp \in Nat

\* The loop over the words goes through the vectors and the buffer in step
CopyInv ==
    pc = "copy" =>
        /\ idx % wordSize = 0 /\ idx <= wholeWordBytes /\ wp = wordSize + 2 * idx

\* An octet of the vectors is in both of its places
InPlace(buf, j) ==
    /\ {Pos(j, wordSize), Pos(j, wordSize) + wordSize} \subseteq DOMAIN buf
    /\ buf[Pos(j, wordSize)] = Octet(nCalls, "tms", j)
    /\ buf[Pos(j, wordSize) + wordSize] = Octet(nCalls, "tdi", j)
FilledInv == pc = "copy" => \A j \in 0..(idx - 1) : InPlace(txBuf, j)

LayoutInv == SendTypes /\ CopyInv
SendInv == LayoutInv /\ FilledInv /\ PairsInOrder

-----------------------------------------------------------------------------
(* What the steps of the drivers do to the message *)

\* The process ends during xfer()
Abort == pc = "xfer" /\ pc' = "down" /\ UNCHANGED <<parVars, bufSz, txBuf, nCalls, bits, idx, wp, message>>

SendStep ==
    \/ Construct
    \/ \E t \in Targets \cup {RegTarget} : Connect(t)
    \/ Sending
    \/ Return
    \/ Abort
    \/ UNCHANGED sendVars

\* Every step of a driver or of the hardware is one of sendVectors or leaves it alone
LEMMA StepsOfSend ==
    ASSUME [Next]_vars
    PROVE  SendStep
<1>1. CASE Start
  BY <1>1 DEF Start, SendStep
<1>2. CASE DoConnect
  <2>1. \E t \in Targets \cup {RegTarget} : Connect(t)
    BY <1>2 DEF DoConnect
  <2> QED BY <2>1 DEF SendStep
<1>3. CASE Kill
  <2>1. Abort
    BY <1>3 DEF Kill, Abort
  <2> QED BY <2>1 DEF SendStep
<1>4. CASE DoSend \/ StreamXfer
  BY <1>4 DEF DoSend, StreamXfer, SendStep
<1>5. CASE ResetDone \/ Xfer \/ Load \/ BbLow \/ Engine
  BY <1>5 DEF ResetDone, Xfer, Load, BbLow, Engine, EngineBit, EngineDone, SendStep
<1>6. CASE Poll
  <2>1. UNCHANGED sendVars \/ Return
    BY <1>6 DEF Poll, Store
  <2> QED BY <2>1 DEF SendStep
<1>7. CASE BbHigh
  <2>1. UNCHANGED sendVars \/ Return
    BY <1>7 DEF BbHigh, Store
  <2> QED BY <2>1 DEF SendStep
<1>8. CASE UNCHANGED vars
  BY <1>8 DEF vars, SendStep
<1> QED BY <1>1, <1>2, <1>3, <1>4, <1>5, <1>6, <1>7, <1>8 DEF Next, Driver

\* The target that a register driver makes up
LEMMA RegTargetIs == RegTarget.wordSize = 4 /\ RegTarget.memDepth = 0 /\ RegTarget.maxVec = RegMaxVec
  BY DEF RegTarget, mkQueryReply

\* The sizes that sendVectors computes from the bits, in terms of words
LEMMA MessageSizes ==
    ASSUME LayoutInv
    PROVE  /\ bytesCeil \in Nat /\ wholeWordBytes \in Nat /\ wholeWordBytes <= bytesCeil
           /\ bytesLeft = bytesCeil - wholeWordBytes /\ bytesLeft \in Nat /\ bytesLeft < wordSize
           /\ wordCeilBytes = WordCeil(bytesCeil, wordSize) /\ wordCeilBytes \in Nat
           /\ wholeWordBytes <= wordCeilBytes /\ bytesCeil <= wordCeilBytes
           /\ bytesLeft # 0 => wordCeilBytes = wholeWordBytes + wordSize
           /\ wholeWordBytes % wordSize = 0
           /\ bytesTot = wordSize + 2 * wordCeilBytes
<1>1. wordSize \in 4..16 /\ bits \in Nat
  BY DEF LayoutInv, SendTypes
<1>2. bytesCeil \in Nat
  BY <1>1 DEF bytesCeil
<1> DEFINE b == bytesCeil
<1> HIDE DEF b
<1>3. /\ (b \div wordSize) * wordSize \in Nat /\ (b \div wordSize) * wordSize <= b
      /\ b < (b \div wordSize) * wordSize + wordSize
      /\ (b \div wordSize) * wordSize <= WordCeil(b, wordSize)
      /\ b # (b \div wordSize) * wordSize => WordCeil(b, wordSize) = (b \div wordSize) * wordSize + wordSize
      /\ ((b \div wordSize) * wordSize) % wordSize = 0
  BY <1>1, <1>2, WholeWords DEF b
<1>4. WordCeil(b, wordSize) \in Nat /\ b <= WordCeil(b, wordSize)
  <2>1. b \in Nat /\ b <= b
    BY <1>2 DEF b
  <2> QED BY <1>1, <2>1, CeilMono
<1>5. wholeWordBytes = (b \div wordSize) * wordSize /\ wordCeilBytes = WordCeil(b, wordSize)
  BY DEF wholeWordBytes, wordCeilBytes, WordCeil, b
<1>6. bytesLeft = b - wholeWordBytes /\ bytesTot = wordSize + 2 * wordCeilBytes
  BY DEF bytesLeft, bytesTot, b
<1>7. b \in Nat
  BY <1>2 DEF b
<1> QED BY <1>1, <1>3, <1>4, <1>5, <1>6, <1>7 DEF b

\* What a connection finds out about the target
LEMMA ConnectLayout ==
    ASSUME LayoutInv, NEW t \in Targets \cup {RegTarget}, Connect(t)
    PROVE  LayoutInv'
<1>1. t.wordSize \in 4..16
  <2>1. CASE t \in Targets
    <3>1. t \in [wordSize : 4..16, memDepth : Nat, maxVec : Nat]
      BY <2>1, SendVectorsAssumption
    <3> QED BY <3>1
  <2>2. CASE t = RegTarget
    BY <2>2, RegTargetIs
  <2> QED BY <2>1, <2>2
<1>2. /\ pc = "idle" /\ pc' = "idle" /\ wordSize' = t.wordSize
      /\ nCalls' = nCalls /\ bits' = bits /\ idx' = idx /\ wp' = wp
  BY DEF Connect
<1> QED BY <1>1, <1>2 DEF LayoutInv, SendTypes, CopyInv

\* sendVectors goes from word to word
LEMMA SendLayout ==
    ASSUME LayoutInv, Sending
    PROVE  LayoutInv'
<1>1. SendTypes /\ CopyInv
  BY DEF LayoutInv
<1>2. CASE \E n \in Bits : Begin(n)
  <2>1. PICK n \in Bits : Begin(n)
    BY <1>2
  <2>2. n \in Nat
    <3>1. Bits \subseteq Nat \ {0}
      BY SendVectorsAssumption
    <3> QED BY <3>1
  <2>3. /\ pc' = "copy" /\ wordSize' = wordSize
        /\ nCalls' = nCalls + 1 /\ bits' = n /\ idx' = 0 /\ wp' = wordSize
    BY <2>1 DEF Begin, parVars
  <2>4. SendTypes'
    BY <1>1, <2>2, <2>3 DEF SendTypes
  <2>5. wholeWordBytes' \in Nat
    <3>1. (bits' + 7) \div 8 \in Nat /\ wordSize' \in 4..16
      BY <1>1, <2>2, <2>3 DEF SendTypes
    <3> DEFINE b == (bits' + 7) \div 8
    <3> HIDE DEF b
    <3>2. (b \div wordSize') * wordSize' \in Nat
      BY <3>1, WholeWords DEF b
    <3> QED BY <3>2 DEF wholeWordBytes, bytesCeil, b
  <2>6. 0 % wordSize = 0 /\ wordSize = wordSize + 2 * 0
    <3>1. wordSize \in 4..16
      BY <1>1 DEF SendTypes
    <3>2. WordCeil(0, wordSize) = 0
      BY <3>1, CeilWhole
    <3> QED BY <3>1
  <2>7. CopyInv'
    BY <1>1, <2>3, <2>5, <2>6 DEF CopyInv, SendTypes
  <2> QED BY <2>4, <2>7 DEF LayoutInv
<1>3. CASE CopyWord
  <2>1. /\ pc = "copy" /\ idx < wholeWordBytes /\ pc' = pc /\ wordSize' = wordSize
        /\ nCalls' = nCalls /\ bits' = bits /\ idx' = idx + wordSize /\ wp' = wp + 2 * wordSize
    BY <1>3 DEF CopyWord, parVars
  <2>2. SendTypes'
    BY <1>1, <2>1 DEF SendTypes
  <2>3. idx + wordSize <= wholeWordBytes /\ (idx + wordSize) % wordSize = 0
    BY <1>1, <2>1, MessageSizes, NextWord DEF CopyInv, SendTypes
  <2>4. wholeWordBytes' = wholeWordBytes
    BY <2>1 DEF wholeWordBytes, bytesCeil
  <2>5. wp' = wordSize + 2 * (idx + wordSize)
    BY <1>1, <2>1 DEF CopyInv, SendTypes
  <2>6. CopyInv'
    BY <1>1, <2>1, <2>3, <2>4, <2>5 DEF CopyInv
  <2> QED BY <2>2, <2>6 DEF LayoutInv
<1>4. CASE CopyRest \/ Overrun
  <2>1. /\ pc' \in {"xfer", "undefined"} /\ wordSize' = wordSize
        /\ nCalls' = nCalls /\ bits' = bits /\ idx' = idx /\ wp' = wp
    BY <1>4 DEF CopyRest, Overrun, parVars
  <2> QED BY <1>1, <2>1 DEF LayoutInv, SendTypes, CopyInv
<1> QED BY <1>2, <1>3, <1>4 DEF Sending

\* In the first state and in every step
LEMMA LayoutInductive ==
           /\ Init => LayoutInv
           /\ LayoutInv /\ [Next]_vars => LayoutInv'
<1>1. ASSUME Init PROVE LayoutInv
  BY <1>1 DEF Init, SendInit, LayoutInv, SendTypes, CopyInv
<1>2. ASSUME LayoutInv, [Next]_vars PROVE LayoutInv'
  <2>1. SendStep
    BY <1>2, StepsOfSend
  <2>2. CASE Construct
    <3>1. /\ pc' = "idle" /\ wordSize' = 4
          /\ nCalls' = nCalls /\ bits' = bits /\ idx' = idx /\ wp' = wp
      BY <2>2 DEF Construct
    <3> QED BY <1>2, <3>1 DEF LayoutInv, SendTypes, CopyInv
  <2>3. CASE \E t \in Targets \cup {RegTarget} : Connect(t)
    BY <1>2, <2>3, ConnectLayout
  <2>4. CASE Sending
    BY <1>2, <2>4, SendLayout
  <2>5. CASE Return \/ Abort
    BY <1>2, <2>5 DEF Return, Abort, parVars, LayoutInv, SendTypes, CopyInv
  <2>6. CASE UNCHANGED sendVars
    BY <1>2, <2>6 DEF sendVars, parVars, LayoutInv, SendTypes, CopyInv, wholeWordBytes, bytesCeil
  <2> QED BY <2>1, <2>2, <2>3, <2>4, <2>5, <2>6 DEF SendStep
<1> QED BY <1>1, <1>2

-----------------------------------------------------------------------------
(* The order of the words *)

\* The words that the firmware expects: their number, and where it looks for an octet
LEMMA FirmwareWords ==
    ASSUME NEW w \in 4..16, NEW n \in Nat, NEW j \in Nat
    PROVE  LET c == WordCeil((n + 7) \div 8, w)
               p == ((w + 2 * c) - w) \div (2 * w)
           IN  /\ w + 2 * c = w * (1 + 2 * p)
               /\ p = (n + 8 * w - 1) \div (8 * w)
               /\ c % w = 0
               /\ (2 * (j \div w) + 1) * w + (j % w) = Pos(j, w)
               /\ (2 * (j \div w) + 2) * w + (j % w) = Pos(j, w) + w
<1> DEFINE C(x) == ((((n + 7) \div 8) + x - 1) \div x) * x
           Q(x) == ((x + 2 * C(x)) - x) \div (2 * x)
           P(x) == /\ x + 2 * C(x) = x * (1 + 2 * Q(x))
                   /\ Q(x) = (n + 8 * x - 1) \div (8 * x)
                   /\ C(x) % x = 0
                   /\ (2 * (j \div x) + 1) * x + (j % x) = x + 2 * x * (j \div x) + (j % x)
                   /\ (2 * (j \div x) + 2) * x + (j % x) = x + 2 * x * (j \div x) + (j % x) + x
<1>1. P(4) /\ P(5) /\ P(6) /\ P(7) /\ P(8) /\ P(9) /\ P(10) /\ P(11) /\ P(12) /\ P(13) /\ P(14) /\ P(15) /\ P(16)
  OBVIOUS
<1>2. w \in {4, 5, 6, 7, 8, 9, 10, 11, 12, 13, 14, 15, 16}
  OBVIOUS
<1> HIDE DEF P
<1>3. P(w)
  BY <1>1, <1>2
<1> QED BY <1>3, Zenon DEF P, WordCeil, Pos

\* Words of n octets at wp: what was in place stays there, and n octets more are
LEMMA Copied ==
    ASSUME LayoutInv, FilledInv, pc = "copy", NEW n \in 0..wordSize,
           NEW buf, buf = Copy(Copy(txBuf, wp, "tms", n), wp + wordSize, "tdi", n)
    PROVE  \A j \in 0..(idx + n - 1) : InPlace(buf, j)
<1>1. /\ wordSize \in 4..16 /\ idx \in Nat /\ wp \in Nat
      /\ idx % wordSize = 0 /\ wp = wordSize + 2 * idx
  BY DEF LayoutInv, SendTypes, CopyInv
<1> DEFINE tms == wp..(wp + n - 1)
           tdi == (wp + wordSize)..(wp + wordSize + n - 1)
           one == Copy(txBuf, wp, "tms", n)
<1>a. /\ DOMAIN one = DOMAIN txBuf \cup tms
      /\ \A p \in DOMAIN one :
           one[p] = IF p \in tms THEN Octet(nCalls, "tms", idx + p - wp) ELSE txBuf[p]
  BY DEF Copy
<1> HIDE DEF one
<1>b. /\ DOMAIN buf = DOMAIN one \cup tdi
      /\ \A p \in DOMAIN buf :
           buf[p] = IF p \in tdi THEN Octet(nCalls, "tdi", idx + p - (wp + wordSize)) ELSE one[p]
  <2>1. buf = Copy(one, wp + wordSize, "tdi", n)
    BY DEF one
  <2> QED BY <2>1 DEF Copy
<1>c. \A p : p \in tms => p \notin tdi
  BY <1>1
<1>d. \A p \in Int : p < wp => p \notin tms /\ p \notin tdi
  BY <1>1
<1> HIDE DEF tms, tdi
<1>2. /\ \A p \in DOMAIN txBuf : p \in Int /\ p < wp => p \in DOMAIN buf /\ buf[p] = txBuf[p]
      /\ \A p \in tms : p \in DOMAIN buf /\ buf[p] = Octet(nCalls, "tms", idx + p - wp)
      /\ \A p \in tdi : p \in DOMAIN buf /\ buf[p] = Octet(nCalls, "tdi", idx + p - (wp + wordSize))
  BY <1>a, <1>b, <1>c, <1>d
<1>3. ASSUME NEW j \in 0..(idx + n - 1)
      PROVE  InPlace(buf, j)
  <2>1. j \in Nat
    BY <1>1
  <2>2. /\ j \in idx..(idx + wordSize - 1) => Pos(j, wordSize) = wordSize + 2 * idx + (j - idx)
        /\ j < idx => Pos(j, wordSize) + wordSize < wordSize + 2 * idx
        /\ Pos(j, wordSize) \in Nat
    BY <1>1, <2>1, Places
  <2> DEFINE p == Pos(j, wordSize)
             q == Pos(j, wordSize) + wordSize
  <2>3. CASE j < idx
    <3>1. p \in Int /\ q \in Int /\ p < wp /\ q < wp
      BY <1>1, <2>2, <2>3
    <3>2. InPlace(txBuf, j)
      BY <1>1, <2>1, <2>3 DEF FilledInv
    <3>3. p \in DOMAIN txBuf /\ q \in DOMAIN txBuf
      BY <3>2 DEF InPlace
    <3>4. p \in DOMAIN buf /\ q \in DOMAIN buf /\ buf[p] = txBuf[p] /\ buf[q] = txBuf[q]
      <4> HIDE DEF p, q
      <4> QED BY <1>2, <3>1, <3>3
    <3> QED BY <3>2, <3>4 DEF InPlace
  <2>4. CASE j >= idx
    <3>1. j \in idx..(idx + wordSize - 1) /\ n # 0
      BY <1>1, <2>4
    <3>2. p = wp + (j - idx) /\ q = wp + wordSize + (j - idx)
      BY <1>1, <2>2, <3>1
    <3>3. /\ p \in tms /\ q \in tdi
          /\ idx + p - wp = j /\ idx + q - (wp + wordSize) = j
      <4> HIDE DEF p, q
      <4> QED BY <1>1, <2>1, <2>4, <3>1, <3>2 DEF tms, tdi
    <3>4. p \in DOMAIN buf /\ q \in DOMAIN buf /\ buf[p] = Octet(nCalls, "tms", j) /\ buf[q] = Octet(nCalls, "tdi", j)
      <4> HIDE DEF p, q
      <4> QED BY <1>2, <3>3
    <3> QED BY <3>4 DEF InPlace
  <2> QED BY <1>1, <2>1, <2>3, <2>4
<1> QED BY <1>3

\* A message that the firmware can take apart: n bits of call c in words of w octets
WellFormed(msg, w, n, c) ==
    LET pairs == (Len(msg) - w) \div (2 * w)
    IN  /\ Len(msg) = w * (1 + 2 * pairs)
        /\ pairs = (n + 8 * w - 1) \div (8 * w)
        /\ \A j \in 0..(((n + 7) \div 8) - 1) :
             /\ [k \in 0..(w - 1) |-> msg[(2 * (j \div w) + 1) * w + k + 1]][j % w] = Octet(c, "tms", j)
             /\ [k \in 0..(w - 1) |-> msg[(2 * (j \div w) + 2) * w + k + 1]][j % w] = Octet(c, "tdi", j)

\* With every octet in its place in the buffer the message is well-formed
LEMMA MessageFormed ==
    ASSUME NEW w \in 4..16, NEW n \in Nat, NEW c, NEW buf, NEW tot,
           tot = w + 2 * WordCeil((n + 7) \div 8, w), tot \in Nat,
           \A j \in 0..(((n + 7) \div 8) - 1) : /\ {Pos(j, w), Pos(j, w) + w} \subseteq DOMAIN buf
                                                /\ buf[Pos(j, w)] = Octet(c, "tms", j)
                                                /\ buf[Pos(j, w) + w] = Octet(c, "tdi", j)
    PROVE  WellFormed([i \in 1..tot |-> IF i - 1 \in DOMAIN buf THEN buf[i - 1] ELSE Unset], w, n, c)
<1> DEFINE msg == [i \in 1..tot |-> IF i - 1 \in DOMAIN buf THEN buf[i - 1] ELSE Unset]
           b == (n + 7) \div 8
           ceil == WordCeil(b, w)
           pairs == ((w + 2 * ceil) - w) \div (2 * w)
<1>1. Len(msg) = tot
  OBVIOUS
<1>2. \A x \in Nat : x + 1 \in 1..tot /\ x \in DOMAIN buf => msg[x + 1] = buf[x]
  OBVIOUS
<1>3. b \in Nat /\ ceil \in Nat /\ b <= ceil /\ tot = w + 2 * ceil
  <2>1. b \in Nat /\ b <= b
    OBVIOUS
  <2> HIDE DEF b
  <2>2. WordCeil(b, w) \in Nat /\ b <= WordCeil(b, w)
    BY <2>1, CeilMono
  <2> QED BY <2>1, <2>2 DEF b
<1>4. /\ w + 2 * ceil = w * (1 + 2 * pairs)
      /\ pairs = (n + 8 * w - 1) \div (8 * w)
      /\ ceil % w = 0
  <2>1. 0 \in Nat
    OBVIOUS
  <2> QED BY <2>1, FirmwareWords
<1>5. ASSUME NEW j \in 0..(b - 1)
      PROVE  /\ [k \in 0..(w - 1) |-> msg[(2 * (j \div w) + 1) * w + k + 1]][j % w] = Octet(c, "tms", j)
             /\ [k \in 0..(w - 1) |-> msg[(2 * (j \div w) + 2) * w + k + 1]][j % w] = Octet(c, "tdi", j)
  <2> HIDE DEF msg, b, ceil, pairs
  <2>1. j \in Nat /\ j < ceil
    BY <1>3
  <2>2. j % w \in 0..(w - 1)
    BY <2>1, DivMod
  <2>3. /\ (2 * (j \div w) + 1) * w + (j % w) = Pos(j, w)
        /\ (2 * (j \div w) + 2) * w + (j % w) = Pos(j, w) + w
    <3>1. 0 \in Nat
      OBVIOUS
    <3> QED BY <2>1, <3>1, FirmwareWords
  <2>4. Pos(j, w) + w < w + 2 * ceil /\ Pos(j, w) \in Nat
    BY <1>3, <1>4, <2>1, Places
  <2> DEFINE p == Pos(j, w)
             q == Pos(j, w) + w
  <2>5. p \in Nat /\ q \in Nat /\ p + 1 \in 1..tot /\ q + 1 \in 1..tot
    BY <1>3, <2>4
  <2>7. p \in DOMAIN buf /\ q \in DOMAIN buf /\ buf[p] = Octet(c, "tms", j) /\ buf[q] = Octet(c, "tdi", j)
    BY DEF b
  <2>6. msg[p + 1] = buf[p] /\ msg[q + 1] = buf[q]
    BY <1>2, <2>5, <2>7, Zenon
  <2>8. /\ [k \in 0..(w - 1) |-> msg[(2 * (j \div w) + 1) * w + k + 1]][j % w]
             = msg[(2 * (j \div w) + 1) * w + (j % w) + 1]
        /\ [k \in 0..(w - 1) |-> msg[(2 * (j \div w) + 2) * w + k + 1]][j % w]
             = msg[(2 * (j \div w) + 2) * w + (j % w) + 1]
    BY <2>2, Zenon
  <2>9. /\ msg[(2 * (j \div w) + 1) * w + (j % w) + 1] = msg[p + 1]
        /\ msg[(2 * (j \div w) + 2) * w + (j % w) + 1] = msg[q + 1]
    BY <2>3, Zenon
  <2> QED BY <2>6, <2>7, <2>8, <2>9, Zenon
<1>6. Len(msg) = w + 2 * ceil
  BY <1>1, <1>3
<1>7. WellFormed(msg, w, n, c)
  <2> HIDE DEF msg, ceil
  <2>1. (Len(msg) - w) \div (2 * w) = pairs
    <3>1. Len(msg) - w = (w + 2 * ceil) - w
      BY <1>6, Zenon
    <3> QED BY <3>1, Zenon
  <2>2. /\ Len(msg) = w * (1 + 2 * ((Len(msg) - w) \div (2 * w)))
        /\ (Len(msg) - w) \div (2 * w) = (n + 8 * w - 1) \div (8 * w)
    BY <1>4, <1>6, <2>1, Zenon
  <2> QED BY <1>5, <2>2, Zenon DEF WellFormed
<1> QED BY <1>7

\* The buffer is filled word by word, and the message is well-formed when it is sent
LEMMA SendInductive ==
           /\ Init => SendInv
           /\ SendInv /\ [Next]_vars => SendInv'
<1>1. ASSUME Init PROVE SendInv
  <2>1. LayoutInv
    BY <1>1, LayoutInductive
  <2> QED BY <1>1, <2>1 DEF Init, SendInit, SendInv, FilledInv, PairsInOrder
<1>2. ASSUME SendInv, [Next]_vars PROVE SendInv'
  <2>1. LayoutInv /\ LayoutInv' /\ FilledInv /\ PairsInOrder
    BY <1>2, LayoutInductive DEF SendInv
  <2>2. SendStep
    BY <1>2, StepsOfSend
  <2>3. ASSUME pc' \in {"down", "idle"} PROVE FilledInv' /\ PairsInOrder'
    BY <2>3 DEF FilledInv, PairsInOrder
  <2>4. CASE Construct \/ Return \/ Abort \/ \E t \in Targets \cup {RegTarget} : Connect(t)
    <3>1. pc' \in {"down", "idle"}
      BY <2>4 DEF Construct, Return, Abort, Connect
    <3> QED BY <2>1, <2>3, <3>1 DEF SendInv
  <2>5. CASE \E n \in Bits : Begin(n)
    <3>1. pc' = "copy" /\ idx' = 0
      BY <2>5 DEF Begin
    <3> QED BY <2>1, <3>1 DEF SendInv, FilledInv, PairsInOrder
  <2>6. CASE CopyWord
    <3>1. /\ pc = "copy" /\ idx < wholeWordBytes /\ pc' = "copy" /\ idx' = idx + wordSize
          /\ wordSize' = wordSize /\ nCalls' = nCalls
          /\ txBuf' = Copy(Copy(txBuf, wp, "tms", wordSize), wp + wordSize, "tdi", wordSize)
      BY <2>6 DEF CopyWord, parVars
    <3>2. wordSize \in 0..wordSize
      BY <2>1 DEF LayoutInv, SendTypes
    <3>3. \A j \in 0..(idx + wordSize - 1) : InPlace(txBuf', j)
      BY <2>1, <3>1, <3>2, Copied
    <3>4. FilledInv'
      <4>1. ASSUME NEW j \in 0..(idx' - 1) PROVE InPlace(txBuf, j)'
        <5>1. InPlace(txBuf', j)
          <6>1. j \in 0..(idx + wordSize - 1)
            BY <2>1, <3>1, <4>1 DEF LayoutInv, SendTypes
          <6> QED BY <3>3, <6>1, Zenon
        <5> QED BY <3>1, <5>1, Zenon DEF InPlace
      <4> QED BY <4>1, Zenon DEF FilledInv
    <3> QED BY <2>1, <3>1, <3>4 DEF SendInv, PairsInOrder
  <2>7. CASE CopyRest
    <3>1. /\ pc = "copy" /\ idx >= wholeWordBytes /\ pc' = "xfer"
          /\ wordSize' = wordSize /\ nCalls' = nCalls /\ bits' = bits
          /\ txBuf' = Copy(Copy(txBuf, wp, "tms", bytesLeft), wp + wordSize, "tdi", bytesLeft)
          /\ message' = [i \in 1..bytesTot |-> IF i - 1 \in DOMAIN txBuf' THEN txBuf'[i - 1] ELSE Unset]
      BY <2>7 DEF CopyRest, parVars
    <3>3. /\ wordSize \in 4..16 /\ bits \in Nat /\ wp \in Nat
          /\ idx \in Nat /\ idx <= wholeWordBytes
      BY <2>1, <3>1 DEF LayoutInv, SendTypes, CopyInv
    <3>4. /\ bytesLeft = bytesCeil - wholeWordBytes /\ bytesLeft \in Nat /\ bytesLeft < wordSize
          /\ wholeWordBytes \in Nat /\ bytesCeil \in Nat
          /\ bytesTot = wordSize + 2 * WordCeil(bytesCeil, wordSize) /\ WordCeil(bytesCeil, wordSize) \in Nat
      BY <2>1, MessageSizes
    <3>2. bytesTot \in Nat
      BY <3>3, <3>4
    <3>5. bytesLeft \in 0..wordSize /\ idx + bytesLeft - 1 = bytesCeil - 1
      BY <3>1, <3>3, <3>4
    <3>6. \A j \in 0..(idx + bytesLeft - 1) : InPlace(txBuf', j)
      BY <2>1, <3>1, <3>5, Copied
    <3>7. \A j \in 0..(((bits + 7) \div 8) - 1) :
             /\ {Pos(j, wordSize), Pos(j, wordSize) + wordSize} \subseteq DOMAIN txBuf'
             /\ txBuf'[Pos(j, wordSize)] = Octet(nCalls, "tms", j)
             /\ txBuf'[Pos(j, wordSize) + wordSize] = Octet(nCalls, "tdi", j)
      BY <3>5, <3>6 DEF InPlace, bytesCeil
    <3>8. bytesTot = wordSize + 2 * WordCeil((bits + 7) \div 8, wordSize)
      BY <3>4 DEF bytesCeil
    <3>9. WellFormed([i \in 1..bytesTot |-> IF i - 1 \in DOMAIN txBuf' THEN txBuf'[i - 1] ELSE Unset], wordSize, bits, nCalls)
      BY <3>2, <3>3, <3>7, <3>8, MessageFormed
    <3>10. WellFormed(message', wordSize', bits', nCalls')
      BY <3>1, <3>9
    <3>11. PairsInOrder'
      BY <3>10 DEF PairsInOrder, WellFormed, bytesCeil
    <3> QED BY <2>1, <3>1, <3>11 DEF SendInv, FilledInv
  <2>9. CASE Overrun
    BY <2>1, <2>9 DEF Overrun, SendInv, FilledInv, PairsInOrder
  <2>8. CASE UNCHANGED sendVars
    BY <2>1, <2>8 DEF sendVars, parVars, SendInv, FilledInv, PairsInOrder, InPlace, bytesCeil
  <2> QED BY <2>2, <2>4, <2>5, <2>6, <2>7, <2>8, <2>9 DEF SendStep, Sending
<1> QED BY <1>1, <1>2

\* The firmware, and xfer() of a register driver, find every octet of TMS and TDI in
\* the word where they look for it, none from an earlier call, in every message
THEOREM MessageInOrder ==
    Spec => []PairsInOrder
<1>1. SendInv => PairsInOrder
  BY DEF SendInv
<1>2. Init => SendInv
  BY SendInductive
<1>3. SendInv /\ [Next]_vars => SendInv'
  BY SendInductive
<1> QED BY <1>1, <1>2, <1>3, PTL DEF Spec

-----------------------------------------------------------------------------
(* The bits of a call.  The invariant: what TCK has done so far, and what it is *)
(* about to do, for every place in xfer() and in reset().                      *)

IsRecord(r, fields) == r = [f \in fields |-> r[f]]
EngFields == {"tms", "tdi", "len", "run", "cnt", "tdo"}
PinFields == {"tck", "tms", "tdi", "tdo"}
LocFields == {"at", "pi", "po", "nbits", "l", "resets"}
IsSequence(s) == \E S : s \in Seq(S)

EngTypes(e) ==
    /\ IsRecord(e, EngFields)
    /\ e.run \in BOOLEAN /\ e.len \in Nat /\ e.cnt \in Nat /\ e.tdo \in [0..31 -> Nat]
PinTypes(p, n) ==
    /\ IsRecord(p, PinFields)
    /\ p.tck \in BOOLEAN /\ p.tdo \in Nat
    /\ p.tck = FALSE => p.tdo = n + 1
LocTypes(c) ==
    /\ IsRecord(c, LocFields)
    /\ c.at \in {"idle", "reset", "load", "poll", "low", "high"}
    /\ c.pi \in Nat /\ c.po \in Nat /\ c.nbits \in Nat /\ c.l \in Nat /\ c.resets \in Nat

BitTypes ==
    /\ EngTypes(eng) /\ PinTypes(pins, edges) /\ LocTypes(loc)
    /\ edges \in Nat /\ start \in Nat /\ IsSequence(jtag)

\* Which steps are possible where
InXfer == loc.at \in {"load", "poll", "low", "high"}
PlaceInv ==
    /\ mode # "stream" => wordSize = 4
    /\ mode = "stream" => loc.at = "idle" /\ eng.run = FALSE
    /\ pc \in {"copy", "xfer"} => nCalls > 0 /\ bits > 0
    /\ pc = "xfer" => message # <<>>
    /\ pc = "copy" => message = <<>>
    /\ InXfer => pc = "xfer"
    /\ loc.at = "reset" => pc = "idle" /\ message = <<>> /\ Sdes
    /\ loc.at = "poll" => ~Bb
    /\ loc.at \in {"low", "high"} => Bb
    /\ eng.run = TRUE => loc.at \in {"reset", "poll"} \/ pc = "down"

\* Bit k of the vectors of call c; of the words of reset()
VecBit(c, k) ==
    LET bit(what) == [octet |-> Octet(c, what, (k - 1) \div 8), bit |-> (k - 1) % 8]
    IN  [tms |-> bit("tms"), tdi |-> bit("tdi")]
ResetBit(k) == [tms |-> BitOf(Ones, (k - 1) % 8), tdi |-> BitOf(Zeros, (k - 1) % 8)]

\* The edges of TCK in j are the first n bits of call c, or of reset()
Driven(j, n, c) == Len(j) = n /\ \A k \in 1..n : j[k] = VecBit(c, k)
DrivenReset(j, n) == Len(j) = n /\ \A k \in 1..n : j[k] = ResetBit(k)

\* n bits behind bit o of t are TDO from edge s + 1 on
Samples(t, o, n, s) == \A k \in 0..(n - 1) : t[o + k] = s + k + 1

\* The word at octet p of the vectors of call c
WordAt(w, what, p, octets, c) == \A k \in 0..3 : p + k < octets => w[k] = Octet(c, what, p + k)

ResetInv ==
    loc.at = "reset" =>
        /\ loc.resets \in 1..2 /\ eng.len = 8 /\ eng.cnt <= 8
        /\ eng.run = FALSE => eng.cnt = 8
        /\ eng.tms = Ones /\ eng.tdi = Zeros
        /\ DrivenReset(jtag, 8 * (loc.resets - 1) + eng.cnt)

\* Between words, and within one
LoadInv ==
    loc.at = "load" =>
        /\ loc.pi = 4 + 2 * loc.po /\ loc.l = 32
        /\ mode = "bridge" => eng.len = 32
        /\ Driven(jtag, 8 * loc.po, nCalls) /\ edges = start + 8 * loc.po
WordInv ==
    loc.at \in {"poll", "low", "high"} =>
        /\ loc.pi = 12 + 2 * loc.po
        /\ loc.l = IF loc.nbits < 32 THEN loc.nbits ELSE 32
        /\ eng.cnt <= loc.l
        /\ WordAt(eng.tms, "tms", loc.po, bytesCeil, nCalls)
        /\ WordAt(eng.tdi, "tdi", loc.po, bytesCeil, nCalls)
        /\ Driven(jtag, 8 * loc.po + eng.cnt, nCalls) /\ edges = start + 8 * loc.po + eng.cnt
XferInv ==
    InXfer =>
        /\ 8 * loc.po + loc.nbits = bits /\ loc.nbits > 0 /\ loc.po % 4 = 0
        /\ DOMAIN rxb = 0..(8 * bytesCeil - 1) /\ Samples(rxb, 0, 8 * loc.po, start)

\* The engine, and bit-banging, within a word
PollInv ==
    loc.at = "poll" =>
        /\ eng.len = loc.l
        /\ eng.run = FALSE => eng.cnt = loc.l
        /\ Samples(eng.tdo, IF mode = "bridge" THEN 0 ELSE 32 - eng.cnt, eng.cnt, start + 8 * loc.po)
LowInv ==
    loc.at = "low" =>
        /\ eng.cnt < loc.l /\ pins.tck = TRUE
        /\ Samples(eng.tdo, 0, eng.cnt, start + 8 * loc.po)
HighInv ==
    loc.at = "high" =>
        /\ eng.cnt < loc.l /\ pins.tck = FALSE
        /\ pins.tms = BitOf(eng.tms, eng.cnt) /\ pins.tdi = BitOf(eng.tdi, eng.cnt)
        /\ Samples(eng.tdo, 0, eng.cnt + 1, start + 8 * loc.po)

\* Behind xfer(), and before there was any
DoneInv ==
    pc = "idle" /\ message # <<>> /\ mode # "stream" =>
        Driven(jtag, bits, nCalls) /\ Samples(rxb, 0, bits, start)
FreshInv ==
    nCalls = 0 /\ pc = "idle" /\ loc.at = "idle" /\ mode # "stream" =>
        Len(jtag) = IF Sdes THEN 16 ELSE 0

BitsInv ==
    /\ BitTypes /\ PlaceInv /\ ResetInv
    /\ LoadInv /\ WordInv /\ XferInv /\ PollInv /\ LowInv /\ HighInv
    /\ DoneInv /\ FreshInv

-----------------------------------------------------------------------------
\* The pins when TCK falls or stays low, with new TMS and TDI: TDO belongs to the next edge
FallPins(p, m, t, d) ==
    [[p EXCEPT !.tck = FALSE, !.tdo = IF p.tck THEN m + 1 ELSE p.tdo] EXCEPT !.tms = t, !.tdi = d]

Fallen(p, m, t, d) ==
    PinTypes(p, m) /\ p.tck = FALSE /\ p.tdo = m + 1 /\ p.tms = t /\ p.tdi = d

LEMMA PinsFall ==
    ASSUME NEW m \in Nat, NEW p, PinTypes(p, m), NEW t, NEW d, NEW n, n = FallPins(p, m, t, d)
    PROVE  Fallen(n, m, t, d)
<1>1. IsRecord(p, PinFields) /\ p.tck \in BOOLEAN /\ (p.tck = FALSE => p.tdo = m + 1)
  BY DEF PinTypes
<1>2. (IF p.tck THEN m + 1 ELSE p.tdo) = m + 1
  BY <1>1, Zenon
<1>3. n = [[p EXCEPT !.tck = FALSE, !.tdo = m + 1] EXCEPT !.tms = t, !.tdi = d]
  BY <1>2, Zenon DEF FallPins
<1>4. IsRecord(n, PinFields) /\ n.tck = FALSE /\ n.tdo = m + 1 /\ n.tms = t /\ n.tdi = d
  BY <1>1, <1>3 DEF FallPins, IsRecord, PinFields
<1>5. n.tck \in BOOLEAN
  BY <1>4, Zenon
<1>6. n.tdo \in Nat
  BY <1>4
<1> QED BY <1>4, <1>5, <1>6, Zenon DEF PinTypes, Fallen

\* A bit more on JTAG
LEMMA DrivenNext ==
    ASSUME NEW j, IsSequence(j), NEW n \in Nat, NEW c, NEW x
    PROVE  /\ IsSequence(Append(j, x))
           /\ Driven(j, n, c) /\ x = VecBit(c, n + 1) => Driven(Append(j, x), n + 1, c)
           /\ DrivenReset(j, n) /\ x = ResetBit(n + 1) => DrivenReset(Append(j, x), n + 1)
<1>1. PICK S : j \in Seq(S)
  BY DEF IsSequence
<1> DEFINE t == Append(j, x)
<1>2. /\ t \in Seq(S \cup {x}) /\ Len(j) \in Nat /\ Len(t) = Len(j) + 1 /\ t[Len(j) + 1] = x
      /\ \A i \in 1..Len(j) : t[i] = j[i]
  BY <1>1
<1> HIDE DEF t
<1>3. IsSequence(t)
  BY <1>2 DEF IsSequence
<1>4. ASSUME Driven(j, n, c), x = VecBit(c, n + 1) PROVE Driven(t, n + 1, c)
  BY <1>2, <1>4 DEF Driven
<1>5. ASSUME DrivenReset(j, n), x = ResetBit(n + 1) PROVE DrivenReset(t, n + 1)
  BY <1>2, <1>5 DEF DrivenReset
<1> QED BY <1>3, <1>4, <1>5 DEF t

LEMMA NothingDriven ==
    IsSequence(<<>>) /\ Len(<<>>) = 0 /\ DrivenReset(<<>>, 0) /\ \A c : Driven(<<>>, 0, c)
<1>1. <<>> \in Seq({}) /\ Len(<<>>) = 0
  OBVIOUS
<1> QED BY <1>1 DEF IsSequence, DrivenReset, Driven

\* Bit i of a word of the vectors is a bit of the vectors
BitsAt(t, d, i) == [tms |-> BitOf(t, i), tdi |-> BitOf(d, i)]
IsVecBit(x, c, k) == x = VecBit(c, k)

LEMMA WordBit ==
    ASSUME NEW t, NEW d, NEW p \in Nat, NEW c, NEW i \in 0..31, NEW o \in Nat, p + (i \div 8) < o,
           WordAt(t, "tms", p, o, c), WordAt(d, "tdi", p, o, c), NEW k, k = 8 * p + i + 1
    PROVE  IsVecBit(BitsAt(t, d, i), c, k)
<1>1. /\ i \div 8 \in 0..3 /\ p + (i \div 8) < o
      /\ (k - 1) \div 8 = p + (i \div 8) /\ (k - 1) % 8 = i % 8
  OBVIOUS
<1>2. t[i \div 8] = Octet(c, "tms", p + (i \div 8)) /\ d[i \div 8] = Octet(c, "tdi", p + (i \div 8))
  BY <1>1, Zenon DEF WordAt
<1> QED BY <1>1, <1>2, Zenon DEF IsVecBit, BitsAt, BitOf, VecBit

\* and a bit of the words of reset() one of reset()
LEMMA ResetWordBit ==
    ASSUME NEW r \in 1..2, NEW i \in 0..7
    PROVE  [tms |-> BitOf(Ones, i), tdi |-> BitOf(Zeros, i)] = ResetBit(8 * (r - 1) + i + 1)
<1>1. ((8 * (r - 1) + i + 1) - 1) % 8 = i
  OBVIOUS
<1> QED BY <1>1, Zenon DEF ResetBit

\* xfer() takes the words from where sendVectors has put them
LEMMA MessageWord ==
    ASSUME SendInv, pc = "xfer", wordSize = 4, NEW p \in Nat, p % 4 = 0
    PROVE  /\ WordAt(Word(4 + 2 * p), "tms", p, bytesCeil, nCalls)
           /\ WordAt(Word(4 + 2 * p + 4), "tdi", p, bytesCeil, nCalls)
<1>1. WellFormed(message, 4, bits, nCalls)
  BY DEF SendInv, PairsInOrder, WellFormed, bytesCeil
<1>2. ASSUME NEW k \in 0..3, p + k < bytesCeil
      PROVE  /\ message[4 + 2 * p + k + 1] = Octet(nCalls, "tms", p + k)
             /\ message[4 + 2 * p + 4 + k + 1] = Octet(nCalls, "tdi", p + k)
  <2> DEFINE j == p + k
  <2>1. bytesCeil \in Nat
    BY DEF bytesCeil, SendInv, LayoutInv, SendTypes
  <2>2. j \in 0..(((bits + 7) \div 8) - 1)
    BY <1>2, <2>1 DEF bytesCeil
  <2>3. /\ j % 4 \in 0..(4 - 1)
        /\ (2 * (j \div 4) + 1) * 4 + (j % 4) + 1 = 4 + 2 * p + k + 1
        /\ (2 * (j \div 4) + 2) * 4 + (j % 4) + 1 = 4 + 2 * p + 4 + k + 1
    OBVIOUS
  <2> HIDE DEF j
  <2>4. /\ [i \in 0..(4 - 1) |-> message[(2 * (j \div 4) + 1) * 4 + i + 1]][j % 4] = Octet(nCalls, "tms", j)
        /\ [i \in 0..(4 - 1) |-> message[(2 * (j \div 4) + 2) * 4 + i + 1]][j % 4] = Octet(nCalls, "tdi", j)
    BY <1>1, <2>2, Zenon DEF WellFormed
  <2>5. /\ message[(2 * (j \div 4) + 1) * 4 + (j % 4) + 1] = Octet(nCalls, "tms", j)
        /\ message[(2 * (j \div 4) + 2) * 4 + (j % 4) + 1] = Octet(nCalls, "tdi", j)
    BY <2>3, <2>4, Zenon
  <2>6. /\ message[4 + 2 * p + k + 1] = Octet(nCalls, "tms", j)
        /\ message[4 + 2 * p + 4 + k + 1] = Octet(nCalls, "tdi", j)
    BY <2>3, <2>5, Zenon
  <2> QED BY <2>6 DEF j
<1>3. ASSUME NEW k \in 0..3
      PROVE  /\ Word(4 + 2 * p)[k] = message[4 + 2 * p + k + 1]
             /\ Word(4 + 2 * p + 4)[k] = message[4 + 2 * p + 4 + k + 1]
  BY <1>3, Zenon DEF Word
<1> QED BY <1>2, <1>3, Zenon DEF WordAt

-----------------------------------------------------------------------------
(* Every step keeps the invariant *)

LEMMA InitBits == Init => BitsInv
<1> SUFFICES ASSUME Init PROVE BitsInv
  OBVIOUS
<1>1. /\ loc = [at |-> "idle", pi |-> 0, po |-> 0, nbits |-> 0, l |-> 32, resets |-> 0]
      /\ eng.run = FALSE /\ eng.len = 0 /\ eng.cnt = 0 /\ eng.tdo = [j \in 0..31 |-> 0]
      /\ pins.tck = FALSE /\ pins.tdo = 1
      /\ jtag = <<>> /\ edges = 0 /\ start = 0 /\ pc = "down" /\ message = <<>> /\ wordSize = 4
  BY DEF Init, SendInit, W, Zero
<1>2. IsRecord(eng, EngFields)
  BY DEF Init, IsRecord, EngFields
<1>3. IsRecord(pins, PinFields)
  BY DEF Init, IsRecord, PinFields
<1>4. IsRecord(loc, LocFields)
  BY <1>1 DEF IsRecord, LocFields
<1>5. eng.run \in BOOLEAN /\ pins.tck \in BOOLEAN
  BY <1>1, Zenon
<1>6. eng.len \in Nat /\ eng.cnt \in Nat /\ eng.tdo \in [0..31 -> Nat] /\ pins.tdo \in Nat /\ pins.tdo = 0 + 1
  BY <1>1
<1>7. EngTypes(eng)
  BY <1>2, <1>5, <1>6, Zenon DEF EngTypes
<1>8. PinTypes(pins, edges)
  BY <1>1, <1>3, <1>5, <1>6, Zenon DEF PinTypes
<1>9. LocTypes(loc)
  BY <1>1, <1>4 DEF LocTypes
<1>10. BitTypes
  BY <1>1, <1>7, <1>8, <1>9, NothingDriven DEF BitTypes
<1>11. PlaceInv
  <2>1. eng.run # TRUE
    BY <1>1, Zenon
  <2> QED BY <1>1, <2>1 DEF PlaceInv, InXfer
<1> QED BY <1>1, <1>10, <1>11 DEF BitsInv, ResetInv, LoadInv, WordInv, XferInv, InXfer, PollInv, LowInv, HighInv,
                                 DoneInv, FreshInv

\* While nothing is under way: what a step has to keep
LEMMA IdleBits ==
    ASSUME BitTypes', PlaceInv', loc'.at = "idle", DoneInv', FreshInv'
    PROVE  BitsInv'
  BY DEF BitsInv, ResetInv, LoadInv, WordInv, XferInv, InXfer, PollInv, LowInv, HighInv

LEMMA StartBits ==
    ASSUME BitsInv, Start
    PROVE  BitsInv'
<1>1. EngTypes(eng) /\ PinTypes(pins, edges) /\ LocTypes(loc) /\ edges \in Nat
  BY DEF BitsInv, BitTypes
<1>r. IsRecord(eng, EngFields) /\ IsRecord(loc, LocFields) /\ eng.tdo \in [0..31 -> Nat]
  BY <1>1 DEF EngTypes, LocTypes
<1>2. /\ pc = "down" /\ pc' = "idle" /\ wordSize' = 4 /\ message' = <<>> /\ nCalls' = nCalls
      /\ jtag' = <<>> /\ start' = edges /\ edges' = edges /\ mode' = mode
  BY DEF Start, Construct
<1>3. eng.run = FALSE
  <2>1. ~eng.run /\ eng.run \in BOOLEAN
    BY <1>1, Zenon DEF Start, EngTypes
  <2> QED BY <1>1, <2>1, Zenon
<1>4. PinTypes(pins', edges)
  <2>1. CASE Sdes \/ Bb
    <3>1. pins' = FallPins(pins, edges, BitOf(Ones, 0), BitOf(Zeros, 0))
      BY <2>1, Zenon DEF Start, Fall, FallPins
    <3> QED BY <1>1, <3>1, PinsFall DEF Fallen
  <2>2. CASE ~(Sdes \/ Bb)
    BY <1>1, <2>2 DEF Start
  <2> QED BY <2>1, <2>2
<1>5. CASE Sdes
  <2>1. /\ loc' = [loc EXCEPT !.at = "reset", !.resets = 1]
        /\ eng' = [eng EXCEPT !.tms = Ones, !.tdi = Zeros, !.len = 8, !.run = TRUE, !.cnt = 0]
    BY <1>5, Zenon DEF Start, Run
  <2>a. /\ IsRecord(loc', LocFields) /\ loc'.at = "reset" /\ loc'.resets = 1
        /\ loc'.pi = loc.pi /\ loc'.po = loc.po /\ loc'.nbits = loc.nbits /\ loc'.l = loc.l
    BY <1>r, <2>1 DEF IsRecord, LocFields
  <2>2. LocTypes(loc')
    BY <1>1, <2>a DEF LocTypes
  <2>b. /\ IsRecord(eng', EngFields) /\ eng'.tms = Ones /\ eng'.tdi = Zeros
        /\ eng'.len = 8 /\ eng'.run = TRUE /\ eng'.cnt = 0 /\ eng'.tdo = eng.tdo
    BY <1>r, <2>1 DEF IsRecord, EngFields
  <2>3. EngTypes(eng')
    <3>1. eng'.run \in BOOLEAN
      BY <2>b, Zenon
    <3>2. eng'.len \in Nat /\ eng'.cnt \in Nat /\ eng'.tdo \in [0..31 -> Nat]
      BY <1>r, <2>b
    <3> QED BY <2>b, <3>1, <3>2, Zenon DEF EngTypes
  <2>4. BitTypes'
    BY <1>1, <1>2, <1>4, <2>2, <2>3, NothingDriven DEF BitTypes
  <2>5. mode # "stream" /\ Sdes'
    BY <1>2, <1>5 DEF Sdes
  <2>6. PlaceInv'
    BY <1>2, <2>a, <2>5 DEF PlaceInv, InXfer
  <2>7. ResetInv'
    <3>1. 8 * (1 - 1) + 0 = 0 /\ 1 \in 1..2 /\ 0 <= 8
      OBVIOUS
    <3>2. eng'.run # FALSE
      BY <2>b, Zenon
    <3>3. DrivenReset(jtag', 8 * (loc'.resets - 1) + eng'.cnt)
      BY <1>2, <2>a, <2>b, <3>1, NothingDriven
    <3> QED BY <2>a, <2>b, <3>1, <3>2, <3>3 DEF ResetInv
  <2> QED BY <1>2, <2>a, <2>4, <2>6, <2>7 DEF BitsInv, LoadInv, WordInv, XferInv, InXfer, PollInv, LowInv, HighInv,
                                              DoneInv, FreshInv
<1>6. CASE ~Sdes
  <2>1. loc' = [loc EXCEPT !.at = "idle"] /\ eng' = eng
    BY <1>6, Zenon DEF Start
  <2>a. /\ IsRecord(loc', LocFields) /\ loc'.at = "idle" /\ loc'.resets = loc.resets
        /\ loc'.pi = loc.pi /\ loc'.po = loc.po /\ loc'.nbits = loc.nbits /\ loc'.l = loc.l
    BY <1>r, <2>1 DEF IsRecord, LocFields
  <2>2. LocTypes(loc') /\ loc'.at = "idle"
    BY <1>1, <2>a DEF LocTypes
  <2>3. BitTypes'
    BY <1>1, <1>2, <1>4, <2>1, <2>2, NothingDriven DEF BitTypes
  <2>4. eng'.run = FALSE /\ eng'.run # TRUE
    BY <1>3, <2>1, Zenon
  <2>5. PlaceInv'
    BY <1>2, <2>2, <2>4 DEF PlaceInv, InXfer
  <2>6. ~Sdes'
    BY <1>2, <1>6 DEF Sdes
  <2>7. DoneInv' /\ FreshInv'
    BY <1>2, <2>6, NothingDriven DEF DoneInv, FreshInv
  <2> QED BY <2>2, <2>3, <2>5, <2>7, IdleBits
<1> QED BY <1>5, <1>6

LEMMA ResetBits ==
    ASSUME BitsInv, ResetDone
    PROVE  BitsInv'
<1>1. EngTypes(eng) /\ PinTypes(pins, edges) /\ LocTypes(loc) /\ edges \in Nat /\ start \in Nat /\ IsSequence(jtag)
  BY DEF BitsInv, BitTypes
<1>r. IsRecord(eng, EngFields) /\ IsRecord(loc, LocFields) /\ eng.tdo \in [0..31 -> Nat]
  BY <1>1 DEF EngTypes, LocTypes
<1>2. /\ loc.at = "reset" /\ pc' = pc /\ wordSize' = wordSize /\ message' = message /\ nCalls' = nCalls
      /\ bits' = bits /\ jtag' = jtag /\ start' = start /\ edges' = edges /\ mode' = mode /\ pins' = pins
  BY DEF ResetDone, sendVars, parVars
<1>3. eng.run = FALSE
  <2>1. ~eng.run /\ eng.run \in BOOLEAN
    BY <1>1, Zenon DEF ResetDone, EngTypes
  <2> QED BY <2>1, Zenon
<1>4. pc = "idle" /\ message = <<>> /\ Sdes /\ (mode # "stream" => wordSize = 4) /\ mode # "stream"
  BY <1>2 DEF BitsInv, PlaceInv, Sdes
<1>5. /\ loc.resets \in 1..2
      /\ DrivenReset(jtag, 8 * (loc.resets - 1) + 8)
  BY <1>2, <1>3 DEF BitsInv, ResetInv
<1>6. CASE loc.resets < 2
  <2>1. /\ loc' = [loc EXCEPT !.resets = @ + 1]
        /\ eng' = [eng EXCEPT !.tms = Ones, !.tdi = Zeros, !.len = 8, !.run = TRUE, !.cnt = 0]
    BY <1>6, Zenon DEF ResetDone, Run
  <2>2. /\ IsRecord(loc', LocFields) /\ loc'.at = loc.at /\ loc'.resets = loc.resets + 1
        /\ loc'.pi = loc.pi /\ loc'.po = loc.po /\ loc'.nbits = loc.nbits /\ loc'.l = loc.l
    BY <1>r, <2>1 DEF IsRecord, LocFields
  <2>3. /\ IsRecord(eng', EngFields) /\ eng'.tms = Ones /\ eng'.tdi = Zeros
        /\ eng'.len = 8 /\ eng'.run = TRUE /\ eng'.cnt = 0 /\ eng'.tdo = eng.tdo
    BY <1>r, <2>1 DEF IsRecord, EngFields
  <2>4. loc.resets = 1 /\ loc'.resets = 2
    BY <1>5, <1>6, <2>2
  <2>5. LocTypes(loc')
    BY <1>1, <2>2 DEF LocTypes
  <2>6. EngTypes(eng') /\ eng'.run # FALSE
    <3>1. eng'.run \in BOOLEAN /\ eng'.run # FALSE
      BY <2>3, Zenon
    <3>2. eng'.len \in Nat /\ eng'.cnt \in Nat /\ eng'.tdo \in [0..31 -> Nat]
      BY <1>r, <2>3
    <3> QED BY <2>3, <3>1, <3>2, Zenon DEF EngTypes
  <2>7. BitTypes'
    BY <1>1, <1>2, <2>5, <2>6 DEF BitTypes
  <2>8. PlaceInv'
    BY <1>2, <1>4, <2>2 DEF PlaceInv, InXfer, Sdes
  <2>9. ResetInv'
    <3>1. 8 * (loc'.resets - 1) + eng'.cnt = 8 * (loc.resets - 1) + 8
      BY <2>3, <2>4
    <3>2. DrivenReset(jtag', 8 * (loc'.resets - 1) + eng'.cnt)
      BY <1>2, <1>5, <3>1
    <3> QED BY <2>3, <2>4, <2>6, <3>2 DEF ResetInv
  <2> QED BY <1>2, <1>4, <2>2, <2>7, <2>8, <2>9
          DEF BitsInv, LoadInv, WordInv, XferInv, InXfer, PollInv, LowInv, HighInv, DoneInv, FreshInv
<1>7. CASE ~(loc.resets < 2)
  <2>1. loc' = [loc EXCEPT !.at = "idle"] /\ eng' = eng
    BY <1>7, Zenon DEF ResetDone
  <2>2. /\ IsRecord(loc', LocFields) /\ loc'.at = "idle" /\ loc'.resets = loc.resets
        /\ loc'.pi = loc.pi /\ loc'.po = loc.po /\ loc'.nbits = loc.nbits /\ loc'.l = loc.l
    BY <1>r, <2>1 DEF IsRecord, LocFields
  <2>3. LocTypes(loc')
    BY <1>1, <2>2 DEF LocTypes
  <2>4. BitTypes'
    BY <1>1, <1>2, <2>1, <2>3 DEF BitTypes
  <2>5. eng'.run = FALSE /\ eng'.run # TRUE
    BY <1>3, <2>1, Zenon
  <2>6. PlaceInv'
    BY <1>2, <1>4, <2>2, <2>5 DEF PlaceInv, InXfer
  <2>7. Len(jtag') = 16
    BY <1>2, <1>5, <1>7 DEF DrivenReset
  <2>8. FreshInv' /\ DoneInv'
    BY <1>2, <1>4, <2>7 DEF FreshInv, DoneInv, Sdes
  <2> QED BY <2>2, <2>4, <2>6, <2>8, IdleBits
<1> QED BY <1>6, <1>7

LEMMA ConnectBits ==
    ASSUME BitsInv, DoConnect
    PROVE  BitsInv'
<1>1. BitTypes /\ PlaceInv /\ FreshInv
  BY DEF BitsInv
<1>2. /\ loc.at = "idle" /\ loc' = loc /\ eng' = eng /\ pins' = pins /\ jtag' = jtag /\ edges' = edges
      /\ start' = start /\ mode' = mode
  BY DEF DoConnect, hwVars
<1>3. /\ pc = "idle" /\ pc' = "idle" /\ message' = <<>> /\ nCalls' = nCalls
      /\ mode # "stream" => wordSize' = 4
  <2>1. CASE mode = "stream"
    <3>1. PICK t \in Targets : Connect(t)
      BY <2>1 DEF DoConnect
    <3> QED BY <2>1, <3>1 DEF Connect
  <2>2. CASE mode # "stream"
    <3>1. Connect(RegTarget)
      BY <2>2 DEF DoConnect
    <3>2. pc = "idle" /\ pc' = pc /\ message' = <<>> /\ nCalls' = nCalls /\ wordSize' = RegTarget.wordSize
      BY <3>1 DEF Connect
    <3> QED BY <3>2, RegTargetIs
  <2> QED BY <2>1, <2>2
<1>4. BitTypes'
  BY <1>1, <1>2 DEF BitTypes
<1>5. PlaceInv'
  BY <1>1, <1>2, <1>3 DEF PlaceInv, InXfer
<1>6. DoneInv' /\ FreshInv'
  BY <1>1, <1>2, <1>3 DEF DoneInv, FreshInv, Sdes
<1> QED BY <1>2, <1>4, <1>5, <1>6, IdleBits

LEMMA SendBits ==
    ASSUME LayoutInv, BitsInv, DoSend
    PROVE  BitsInv'
<1>1. BitTypes /\ PlaceInv /\ FreshInv
  BY DEF BitsInv
<1>2. /\ loc.at = "idle" /\ loc' = loc /\ eng' = eng /\ pins' = pins /\ jtag' = jtag /\ edges' = edges
      /\ start' = start /\ mode' = mode
  BY DEF DoSend, hwVars
<1>3. /\ pc # "down" /\ pc' \in {"copy", "xfer", "undefined"} /\ wordSize' = wordSize /\ nCalls' > 0 /\ bits' > 0
      /\ pc' \in {"copy", "undefined"} => message' = <<>>
      /\ pc' = "xfer" => message' # <<>>
  <2>1. CASE \E n \in Bits : Begin(n)
    <3>1. PICK n \in Bits : Begin(n)
      BY <2>1
    <3>2. n > 0
      <4>1. Bits \subseteq Nat \ {0}
        BY SendVectorsAssumption
      <4> QED BY <4>1
    <3>3. nCalls \in Nat
      BY DEF LayoutInv, SendTypes
    <3> QED BY <3>1, <3>2, <3>3 DEF Begin, parVars
  <2>2. CASE CopyWord \/ Overrun
    BY <1>1, <2>2 DEF CopyWord, Overrun, parVars, PlaceInv
  <2>3. CASE CopyRest
    <3>1. /\ pc = "copy" /\ pc' = "xfer" /\ wordSize' = wordSize /\ nCalls' = nCalls /\ bits' = bits
          /\ message' = [i \in 1..bytesTot |-> IF i - 1 \in DOMAIN txBuf' THEN txBuf'[i - 1] ELSE Unset]
      BY <2>3 DEF CopyRest, parVars
    <3>2. bytesTot \in Nat /\ bytesTot > 0
      <4>1. bytesTot = wordSize + 2 * wordCeilBytes /\ wordCeilBytes \in Nat
        BY MessageSizes
      <4>2. wordSize \in 4..16
        BY DEF LayoutInv, SendTypes
      <4> QED BY <4>1, <4>2
    <3>3. Len(message') = bytesTot
      BY <3>1, <3>2
    <3>4. message' # <<>>
      BY <3>2, <3>3, NothingDriven
    <3> QED BY <1>1, <3>1, <3>4 DEF PlaceInv
  <2> QED BY <2>1, <2>2, <2>3 DEF DoSend, Sending
<1>4. BitTypes'
  BY <1>1, <1>2 DEF BitTypes
<1>5. PlaceInv'
  BY <1>1, <1>2, <1>3 DEF PlaceInv, InXfer
<1>6. DoneInv' /\ FreshInv'
  BY <1>3 DEF DoneInv, FreshInv
<1> QED BY <1>2, <1>4, <1>5, <1>6, IdleBits

LEMMA StreamBits ==
    ASSUME BitsInv, StreamXfer
    PROVE  BitsInv'
<1>1. BitTypes /\ PlaceInv
  BY DEF BitsInv
<1>2. /\ loc' = loc /\ eng' = eng /\ pins' = pins /\ jtag' = jtag /\ edges' = edges
      /\ start' = start /\ mode' = mode /\ mode = "stream" /\ pc' = "idle"
  BY DEF StreamXfer, hwVars, Return
<1>3. loc.at = "idle" /\ eng.run = FALSE
  BY <1>1, <1>2 DEF PlaceInv
<1>4. BitTypes'
  BY <1>1, <1>2 DEF BitTypes
<1>5. PlaceInv'
  <2>1. eng'.run = FALSE /\ eng'.run # TRUE
    BY <1>2, <1>3, Zenon
  <2> QED BY <1>2, <1>3, <2>1 DEF PlaceInv, InXfer
<1>6. DoneInv' /\ FreshInv'
  BY <1>2 DEF DoneInv, FreshInv
<1> QED BY <1>2, <1>3, <1>4, <1>5, <1>6, IdleBits

LEMMA KillBits ==
    ASSUME BitsInv, Kill
    PROVE  BitsInv'
<1>1. BitTypes /\ PlaceInv /\ LocTypes(loc) /\ IsRecord(loc, LocFields)
  BY DEF BitsInv, BitTypes, LocTypes
<1>2. /\ loc' = [loc EXCEPT !.at = "idle"] /\ eng' = eng /\ pins' = pins /\ jtag' = jtag /\ edges' = edges
      /\ start' = start /\ mode' = mode /\ mode # "stream" /\ pc' = "down" /\ wordSize' = wordSize
  BY DEF Kill, hwVars, parVars
<1>3. /\ IsRecord(loc', LocFields) /\ loc'.at = "idle" /\ loc'.resets = loc.resets
      /\ loc'.pi = loc.pi /\ loc'.po = loc.po /\ loc'.nbits = loc.nbits /\ loc'.l = loc.l
  BY <1>1, <1>2 DEF IsRecord, LocFields
<1>4. LocTypes(loc')
  BY <1>1, <1>3 DEF LocTypes
<1>5. BitTypes'
  BY <1>1, <1>2, <1>4 DEF BitTypes
<1>6. PlaceInv'
  BY <1>1, <1>2, <1>3 DEF PlaceInv, InXfer
<1>7. DoneInv' /\ FreshInv'
  BY <1>2 DEF DoneInv, FreshInv
<1> QED BY <1>3, <1>5, <1>6, <1>7, IdleBits

LEMMA EngineDoneBits ==
    ASSUME BitsInv, EngineDone
    PROVE  BitsInv'
<1>1. EngTypes(eng) /\ PinTypes(pins, edges) /\ LocTypes(loc) /\ edges \in Nat /\ start \in Nat /\ IsSequence(jtag)
  BY DEF BitsInv, BitTypes
<1>2. IsRecord(eng, EngFields) /\ eng.tdo \in [0..31 -> Nat] /\ eng.len \in Nat /\ eng.cnt \in Nat
  BY <1>1 DEF EngTypes
<1>e. eng' = [eng EXCEPT !.run = FALSE]
  BY DEF EngineDone
<1>3. /\ eng.cnt = eng.len
      /\ pc' = pc /\ wordSize' = wordSize /\ message' = message /\ nCalls' = nCalls /\ bits' = bits
      /\ jtag' = jtag /\ start' = start /\ edges' = edges /\ mode' = mode /\ pins' = pins
      /\ loc' = loc /\ rxb' = rxb
  BY DEF EngineDone, sendVars, parVars
<1>4. /\ IsRecord(eng', EngFields) /\ eng'.tms = eng.tms /\ eng'.tdi = eng.tdi
      /\ eng'.len = eng.len /\ eng'.run = FALSE /\ eng'.cnt = eng.cnt /\ eng'.tdo = eng.tdo
  BY <1>2, <1>e DEF IsRecord, EngFields
<1>5. EngTypes(eng') /\ eng'.run # TRUE
  <2>1. eng'.run \in BOOLEAN /\ eng'.run # TRUE
    BY <1>4, Zenon
  <2>2. eng'.len \in Nat /\ eng'.cnt \in Nat /\ eng'.tdo \in [0..31 -> Nat]
    BY <1>2, <1>4
  <2> QED BY <1>4, <2>1, <2>2, Zenon DEF EngTypes
<1>6. BitTypes'
  BY <1>1, <1>3, <1>5 DEF BitTypes
<1>7. PlaceInv'
  BY <1>3, <1>4, <1>5 DEF BitsInv, PlaceInv, InXfer, Sdes, Bb
<1>8. ResetInv' /\ PollInv'
  BY <1>3, <1>4 DEF BitsInv, ResetInv, PollInv
<1>9. bytesCeil' = bytesCeil
  BY <1>3 DEF bytesCeil
<1>10. LoadInv' /\ WordInv' /\ XferInv' /\ LowInv' /\ HighInv'
  BY <1>3, <1>4, <1>9 DEF BitsInv, LoadInv, WordInv, XferInv, InXfer, LowInv, HighInv
<1>11. DoneInv' /\ FreshInv'
  BY <1>3 DEF BitsInv, DoneInv, FreshInv, Sdes
<1> QED BY <1>6, <1>7, <1>8, <1>10, <1>11 DEF BitsInv

\* A bit more in the TDO register, whichever way the engine puts it there
LEMMA SampledNext ==
    ASSUME EngTypes(eng), edges \in Nat, eng.cnt < 32, NEW s \in Nat, edges = s + eng.cnt,
           Samples(eng.tdo, IF mode = "bridge" THEN 0 ELSE 32 - eng.cnt, eng.cnt, s)
    PROVE  Samples(Sampled(eng.tdo), IF mode = "bridge" THEN 0 ELSE 32 - (eng.cnt + 1), eng.cnt + 1, s)
<1>1. eng.tdo \in [0..31 -> Nat] /\ eng.cnt \in Nat
  BY DEF EngTypes
<1> DEFINE t == eng.tdo
           c == eng.cnt
<1> HIDE DEF t, c
<1>2. t \in [0..31 -> Nat] /\ c \in Nat /\ c < 32 /\ edges = s + c
  BY <1>1 DEF t, c
<1>3. CASE mode = "bridge"
  <2>1. \A k \in 0..(c - 1) : t[0 + k] = s + k + 1
    BY <1>3 DEF Samples, t, c
  <2>2. Sampled(t) = [t EXCEPT ![c] = edges + 1]
    BY <1>3 DEF Sampled, c
  <2>3. \A k \in 0..((c + 1) - 1) : Sampled(t)[0 + k] = s + k + 1
    BY <1>2, <2>1, <2>2
  <2> QED BY <1>3, <2>3 DEF Samples, t, c
<1>4. CASE mode # "bridge"
  <2>1. \A k \in 0..(c - 1) : t[32 - c + k] = s + k + 1
    BY <1>4 DEF Samples, t, c
  <2>2. Sampled(t) = [j \in 0..31 |-> IF j = 31 THEN edges + 1 ELSE t[j + 1]]
    BY <1>4 DEF Sampled, W
  <2>3. ASSUME NEW k \in 0..((c + 1) - 1) PROVE Sampled(t)[32 - (c + 1) + k] = s + k + 1
    <3>1. CASE k = c
      BY <1>2, <2>2, <3>1
    <3>2. CASE k # c
      <4>1. k \in 0..(c - 1) /\ 32 - (c + 1) + k \in 0..30 /\ 32 - (c + 1) + k + 1 = 32 - c + k
        BY <1>2, <2>3, <3>2
      <4>2. Sampled(t)[32 - (c + 1) + k] = t[32 - (c + 1) + k + 1]
        BY <2>2, <4>1
      <4> QED BY <2>1, <4>1, <4>2
    <3> QED BY <3>1, <3>2
  <2> QED BY <1>4, <2>3 DEF Samples, t, c
<1> QED BY <1>3, <1>4

LEMMA EngineBitBits ==
    ASSUME LayoutInv, BitsInv, EngineBit
    PROVE  BitsInv'
<1>1. EngTypes(eng) /\ PinTypes(pins, edges) /\ LocTypes(loc) /\ edges \in Nat /\ start \in Nat /\ IsSequence(jtag)
  BY DEF BitsInv, BitTypes
<1>2. IsRecord(eng, EngFields) /\ eng.tdo \in [0..31 -> Nat] /\ eng.len \in Nat /\ eng.cnt \in Nat
  BY <1>1 DEF EngTypes
<1> DEFINE x == [tms |-> BitOf(eng.tms, eng.cnt), tdi |-> BitOf(eng.tdi, eng.cnt)]
<1>e. /\ eng' = [eng EXCEPT !.tdo = Sampled(eng.tdo), !.cnt = @ + 1]
      /\ pins' = [pins EXCEPT !.tdo = edges' + 1]
  BY DEF EngineBit
<1>n. eng.len \in Nat /\ eng.cnt \in Nat /\ eng.cnt < eng.len
  BY <1>2 DEF EngineBit
<1>3. /\ eng.cnt < eng.len
      /\ pc' = pc /\ wordSize' = wordSize /\ message' = message /\ nCalls' = nCalls /\ bits' = bits
      /\ jtag' = Append(jtag, x) /\ start' = start /\ edges' = edges + 1 /\ mode' = mode
      /\ loc' = loc /\ rxb' = rxb
  BY DEF EngineBit, Rise, sendVars, parVars
<1> HIDE DEF x
<1>4. /\ IsRecord(eng', EngFields) /\ eng'.tms = eng.tms /\ eng'.tdi = eng.tdi
      /\ eng'.len = eng.len /\ eng'.run = eng.run /\ eng'.cnt = eng.cnt + 1 /\ eng'.tdo = Sampled(eng.tdo)
  BY <1>2, <1>e DEF IsRecord, EngFields
<1>5. Sampled(eng.tdo) \in [0..31 -> Nat]
  <2>1. CASE mode = "bridge"
    <3>1. Sampled(eng.tdo) = [eng.tdo EXCEPT ![eng.cnt] = edges + 1]
      BY <2>1 DEF Sampled
    <3>2. edges + 1 \in Nat
      BY <1>1
    <3> QED BY <1>2, <3>1, <3>2
  <2>2. CASE mode # "bridge"
    <3>1. Sampled(eng.tdo) = [j \in 0..31 |-> IF j = 31 THEN edges + 1 ELSE eng.tdo[j + 1]]
      BY <2>2 DEF Sampled, W
    <3> QED BY <1>1, <1>2, <3>1
  <2> QED BY <2>1, <2>2
<1>6. EngTypes(eng')
  <2>1. eng'.run \in BOOLEAN
    BY <1>1, <1>4, Zenon DEF EngTypes
  <2>2. eng'.len \in Nat /\ eng'.cnt \in Nat /\ eng'.tdo \in [0..31 -> Nat]
    BY <1>2, <1>4, <1>5
  <2> QED BY <1>4, <2>1, <2>2, Zenon DEF EngTypes
<1>7. PinTypes(pins', edges')
  <2>1. IsRecord(pins, PinFields)
    BY <1>1 DEF PinTypes
  <2>2. IsRecord(pins', PinFields) /\ pins'.tck = pins.tck /\ pins'.tdo = edges' + 1
    BY <1>e, <2>1 DEF IsRecord, PinFields
  <2>3. pins'.tck \in BOOLEAN
    BY <1>1, <2>2, Zenon DEF PinTypes
  <2>4. pins'.tdo \in Nat
    BY <1>1, <1>3, <2>2
  <2> QED BY <2>2, <2>3, <2>4, Zenon DEF PinTypes
<1>8. BitTypes'
  <2>1. IsSequence(jtag')
    BY <1>1, <1>2, <1>3, DrivenNext
  <2> QED BY <1>1, <1>3, <1>6, <1>7, <2>1 DEF BitTypes
<1>9. /\ loc.at \in {"reset", "poll"} \/ pc = "down"
      /\ pc = "down" => loc.at = "idle"
      /\ loc.at = "reset" => pc = "idle" /\ message = <<>>
      /\ loc.at = "poll" => pc = "xfer"
  <2>1. eng.run = TRUE
    <3>1. eng.run /\ eng.run \in BOOLEAN
      BY <1>1, Zenon DEF EngineBit, EngTypes
    <3> QED BY <3>1, Zenon
  <2> QED BY <1>1, <2>1 DEF BitsInv, PlaceInv, InXfer, LocTypes
<1>10. PlaceInv'
  BY <1>3, <1>4 DEF BitsInv, PlaceInv, InXfer, Sdes, Bb
<1>11. DoneInv' /\ FreshInv'
  BY <1>3, <1>9 DEF DoneInv, FreshInv
<1>12. CASE pc = "down"
  BY <1>3, <1>8, <1>9, <1>10, <1>11, <1>12, IdleBits
<1>13. CASE loc.at = "reset"
  <2>1. /\ loc.resets \in 1..2 /\ eng.len = 8 /\ eng.tms = Ones /\ eng.tdi = Zeros
        /\ DrivenReset(jtag, 8 * (loc.resets - 1) + eng.cnt)
    BY <1>13 DEF BitsInv, ResetInv
  <2>a. loc.resets \in 1..2 /\ eng.len = 8
    BY <2>1
  <2>2. eng.cnt \in 0..7
    BY <1>n, <2>a
  <2>3. x = ResetBit(8 * (loc.resets - 1) + eng.cnt + 1)
    BY <2>1, <2>2, ResetWordBit DEF x
  <2>4. DrivenReset(jtag', 8 * (loc.resets - 1) + eng.cnt + 1)
    <3> DEFINE n == 8 * (loc.resets - 1) + eng.cnt
    <3>1. n \in Nat /\ DrivenReset(jtag, n) /\ x = ResetBit(n + 1)
      BY <1>2, <2>1, <2>3
    <3> HIDE DEF n
    <3>2. DrivenReset(Append(jtag, x), n + 1)
      BY <1>1, <3>1, DrivenNext
    <3>3. DrivenReset(jtag', n + 1)
      BY <1>3, <3>2
    <3> QED BY <3>3 DEF n
  <2>5. ResetInv'
    <3>1. 8 * (loc'.resets - 1) + eng'.cnt = 8 * (loc.resets - 1) + eng.cnt + 1 /\ eng'.cnt <= 8
      <4>1. loc'.resets = loc.resets /\ eng'.cnt = eng.cnt + 1
        BY <1>3, <1>4
      <4> QED BY <1>n, <2>a, <4>1
    <3>2. eng'.run # FALSE
      BY <1>1, <1>4, Zenon DEF EngineBit, EngTypes
    <3> QED BY <1>3, <1>4, <2>1, <2>4, <3>1, <3>2 DEF ResetInv
  <2> QED BY <1>3, <1>8, <1>10, <1>11, <1>13, <2>5
          DEF BitsInv, LoadInv, WordInv, XferInv, InXfer, PollInv, LowInv, HighInv
<1>14. CASE loc.at = "poll"
  <2>1. /\ loc.po \in Nat /\ loc.nbits \in Nat /\ loc.l \in Nat
        /\ 8 * loc.po + loc.nbits = bits /\ bits \in Nat
        /\ loc.l = IF loc.nbits < 32 THEN loc.nbits ELSE 32
        /\ eng.len = loc.l
        /\ WordAt(eng.tms, "tms", loc.po, bytesCeil, nCalls) /\ WordAt(eng.tdi, "tdi", loc.po, bytesCeil, nCalls)
        /\ Driven(jtag, 8 * loc.po + eng.cnt, nCalls) /\ edges = start + 8 * loc.po + eng.cnt
        /\ Samples(eng.tdo, IF mode = "bridge" THEN 0 ELSE 32 - eng.cnt, eng.cnt, start + 8 * loc.po)
    BY <1>1, <1>14 DEF BitsInv, WordInv, XferInv, InXfer, PollInv, LocTypes, LayoutInv, SendTypes
  <2>a. /\ loc.po \in Nat /\ loc.nbits \in Nat /\ loc.l \in Nat
        /\ 8 * loc.po + loc.nbits = bits /\ bits \in Nat
        /\ loc.l = IF loc.nbits < 32 THEN loc.nbits ELSE 32
        /\ eng.len = loc.l
    BY <2>1
  <2>2. eng.cnt \in 0..31 /\ 8 * loc.po + eng.cnt < bits /\ 8 * loc.po + eng.cnt \in Nat
    BY <1>n, <2>a
  <2>3. x = VecBit(nCalls, 8 * loc.po + eng.cnt + 1)
    <3>2. [tms |-> BitOf(eng.tms, eng.cnt), tdi |-> BitOf(eng.tdi, eng.cnt)]
            = VecBit(nCalls, 8 * loc.po + eng.cnt + 1)
      <4> DEFINE t == eng.tms
                 d == eng.tdi
                 p == loc.po
                 i == eng.cnt
                 k == 8 * loc.po + eng.cnt + 1
      <4>1. bytesCeil \in Nat /\ p \in Nat /\ i \in 0..31 /\ k = 8 * p + i + 1 /\ p + (i \div 8) < bytesCeil
        BY <2>a, <2>2 DEF bytesCeil
      <4>2. WordAt(t, "tms", p, bytesCeil, nCalls) /\ WordAt(d, "tdi", p, bytesCeil, nCalls)
        BY <2>1
      <4> HIDE DEF t, d, p, i, k
      <4>4. IsVecBit(BitsAt(t, d, i), nCalls, k)
        BY <4>1, <4>2, WordBit
      <4> QED BY <4>4 DEF t, d, p, i, k, BitsAt, IsVecBit
    <3> QED BY <3>2 DEF x
  <2>4. Driven(jtag', 8 * loc.po + eng.cnt + 1, nCalls)
    <3> DEFINE n == 8 * loc.po + eng.cnt
    <3>1. n \in Nat /\ Driven(jtag, n, nCalls) /\ x = VecBit(nCalls, n + 1)
      BY <2>1, <2>2, <2>3
    <3> HIDE DEF n
    <3>2. Driven(Append(jtag, x), n + 1, nCalls)
      BY <1>1, <3>1, DrivenNext
    <3>3. Driven(jtag', n + 1, nCalls)
      BY <1>3, <3>2
    <3> QED BY <3>3 DEF n
  <2>5. bytesCeil' = bytesCeil
    BY <1>3 DEF bytesCeil
  <2>6. WordInv'
    <3>1. /\ 8 * loc.po + eng'.cnt = 8 * loc.po + eng.cnt + 1 /\ eng'.cnt <= loc.l
          /\ edges' = start + 8 * loc.po + eng'.cnt
      <4>1. eng'.cnt = eng.cnt + 1 /\ edges' = edges + 1 /\ edges = start + 8 * loc.po + eng.cnt /\ start \in Nat
        BY <1>1, <1>3, <1>4, <2>1
      <4> QED BY <1>n, <2>a, <4>1
    <3>2. loc.pi = 12 + 2 * loc.po
      BY <1>14 DEF BitsInv, WordInv
    <3>3. Driven(jtag', 8 * loc.po + eng'.cnt, nCalls)
      BY <2>4, <3>1
    <3> QED BY <1>3, <1>4, <2>1, <2>5, <3>1, <3>2, <3>3 DEF WordInv
  <2>7. PollInv'
    <3>1. Samples(eng'.tdo, IF mode = "bridge" THEN 0 ELSE 32 - eng'.cnt, eng'.cnt, start + 8 * loc.po)
      <4> DEFINE s == start + 8 * loc.po
      <4>1. /\ s \in Nat /\ edges = s + eng.cnt /\ eng.cnt < 32
            /\ Samples(eng.tdo, IF mode = "bridge" THEN 0 ELSE 32 - eng.cnt, eng.cnt, s)
        BY <1>1, <2>1, <2>2
      <4> HIDE DEF s
      <4>2. Samples(Sampled(eng.tdo), IF mode = "bridge" THEN 0 ELSE 32 - (eng.cnt + 1), eng.cnt + 1, s)
        BY <1>1, <4>1, SampledNext
      <4>3. Samples(eng'.tdo, IF mode = "bridge" THEN 0 ELSE 32 - eng'.cnt, eng'.cnt, s)
        BY <1>4, <4>2
      <4> QED BY <4>3 DEF s
    <3>2. eng'.run # FALSE
      BY <1>1, <1>4, Zenon DEF EngineBit, EngTypes
    <3> QED BY <1>3, <1>4, <2>1, <3>1, <3>2 DEF PollInv
  <2>8. XferInv'
    BY <1>3, <2>5 DEF BitsInv, XferInv, InXfer
  <2> QED BY <1>3, <1>8, <1>10, <1>11, <1>14, <2>6, <2>7, <2>8 DEF BitsInv, ResetInv, LoadInv, LowInv, HighInv
<1> QED BY <1>9, <1>12, <1>13, <1>14

LEMMA XferBits ==
    ASSUME LayoutInv, BitsInv, Xfer
    PROVE  BitsInv'
<1>1. EngTypes(eng) /\ PinTypes(pins, edges) /\ LocTypes(loc) /\ edges \in Nat
  BY DEF BitsInv, BitTypes
<1>r. /\ IsRecord(eng, EngFields) /\ IsRecord(loc, LocFields)
      /\ eng.tdo \in [0..31 -> Nat] /\ eng.len \in Nat /\ eng.cnt \in Nat
  BY <1>1 DEF EngTypes, LocTypes
<1>e. /\ loc' = [loc EXCEPT !.at = "load", !.pi = wordSize, !.po = 0, !.nbits = bits, !.l = 32]
      /\ mode = "bridge" => eng' = [eng EXCEPT !.len = 32]
      /\ mode # "bridge" => eng' = eng
  BY DEF Xfer, W
<1>2. /\ mode # "stream" /\ pc = "xfer" /\ pc' = pc /\ wordSize' = wordSize /\ message' = message
      /\ nCalls' = nCalls /\ bits' = bits /\ jtag' = <<>> /\ start' = edges /\ edges' = edges
      /\ mode' = mode /\ pins' = pins /\ loc.at = "idle" /\ rxb' = [k \in 0..(8 * bytesCeil - 1) |-> 0]
  BY DEF Xfer, sendVars, parVars, Zero
<1>3. wordSize = 4 /\ nCalls > 0 /\ bits > 0 /\ message # <<>> /\ eng.run # TRUE
  BY <1>2 DEF BitsInv, PlaceInv
<1>4. bits \in Nat
  BY DEF LayoutInv, SendTypes
<1>5. /\ IsRecord(loc', LocFields) /\ loc'.at = "load" /\ loc'.pi = wordSize /\ loc'.po = 0
      /\ loc'.nbits = bits /\ loc'.l = 32 /\ loc'.resets = loc.resets
  BY <1>r, <1>e DEF IsRecord, LocFields
<1>6. LocTypes(loc')
  BY <1>1, <1>3, <1>4, <1>5 DEF LocTypes
<1>7. /\ IsRecord(eng', EngFields) /\ eng'.tms = eng.tms /\ eng'.tdi = eng.tdi
      /\ eng'.run = eng.run /\ eng'.cnt = eng.cnt /\ eng'.tdo = eng.tdo
      /\ (mode = "bridge" => eng'.len = 32) /\ eng'.len \in Nat
  <2>1. CASE mode = "bridge"
    <3>1. IsRecord(eng, EngFields) /\ eng' = [eng EXCEPT !.len = 32]
      BY <1>r, <1>e, <2>1
    <3> QED BY <3>1 DEF IsRecord, EngFields
  <2>2. CASE mode # "bridge"
    BY <1>r, <1>e, <2>2
  <2> QED BY <2>1, <2>2
<1>8. EngTypes(eng') /\ eng'.run # TRUE
  <2>1. eng'.run \in BOOLEAN /\ eng'.run # TRUE
    BY <1>1, <1>3, <1>7, Zenon DEF EngTypes
  <2>2. eng'.len \in Nat /\ eng'.cnt \in Nat /\ eng'.tdo \in [0..31 -> Nat]
    BY <1>r, <1>7
  <2> QED BY <1>7, <2>1, <2>2, Zenon DEF EngTypes
<1>9. BitTypes'
  BY <1>1, <1>2, <1>6, <1>8, NothingDriven DEF BitTypes
<1>10. PlaceInv'
  BY <1>2, <1>3, <1>5, <1>8 DEF PlaceInv, InXfer
<1>11. LoadInv'
  <2>1. 8 * loc'.po = 0 /\ loc'.pi = 4 + 2 * loc'.po
    BY <1>3, <1>5
  <2>2. Driven(jtag', 8 * loc'.po, nCalls')
    BY <1>2, <2>1, NothingDriven
  <2>3. edges' = start' + 8 * loc'.po
    BY <1>1, <1>2, <2>1
  <2> QED BY <1>2, <1>5, <1>7, <2>1, <2>2, <2>3 DEF LoadInv
<1>12. XferInv'
  <2>1. bytesCeil' = bytesCeil
    BY <1>2 DEF bytesCeil
  <2>2. DOMAIN rxb' = 0..(8 * bytesCeil - 1) /\ Samples(rxb', 0, 8 * loc'.po, start')
    BY <1>2, <1>5 DEF Samples
  <2>3. 8 * loc'.po + loc'.nbits = bits' /\ loc'.nbits > 0 /\ loc'.po % 4 = 0
    BY <1>2, <1>3, <1>4, <1>5
  <2> QED BY <2>1, <2>2, <2>3 DEF XferInv
<1> QED BY <1>2, <1>5, <1>9, <1>10, <1>11, <1>12
        DEF BitsInv, ResetInv, WordInv, PollInv, LowInv, HighInv, DoneInv, FreshInv

\* Within a word: what WordInv needs when a word is begun
LEMMA WordLength ==
    ASSUME LayoutInv, BitsInv, loc.at \in {"load", "low"}
    PROVE  WordBits = (IF loc.nbits < 32 THEN loc.nbits ELSE 32) /\ WordBits \in 1..32
<1>1. /\ loc.nbits \in Nat /\ loc.nbits > 0
      /\ loc.at = "load" => loc.l = 32
      /\ loc.at = "low" => loc.l = IF loc.nbits < 32 THEN loc.nbits ELSE 32
  BY DEF BitsInv, BitTypes, LocTypes, LoadInv, WordInv, XferInv, InXfer
<1> QED BY <1>1 DEF WordBits, W

\* The words that are taken at a load, and where the call is then
LEMMA LoadFacts ==
    ASSUME SendInv, BitsInv, loc.at = "load"
    PROVE  /\ WordAt(Word(loc.pi), "tms", loc.po, bytesCeil, nCalls)
           /\ WordAt(Word(loc.pi + 4), "tdi", loc.po, bytesCeil, nCalls)
           /\ loc.pi + 8 = 12 + 2 * loc.po
           /\ Driven(jtag, 8 * loc.po + 0, nCalls) /\ edges = start + 8 * loc.po + 0
<1>1. /\ loc.pi = 4 + 2 * loc.po /\ loc.po % 4 = 0 /\ loc.po \in Nat
      /\ Driven(jtag, 8 * loc.po, nCalls) /\ edges = start + 8 * loc.po
      /\ start \in Nat /\ wordSize = 4 /\ pc = "xfer"
  BY DEF BitsInv, BitTypes, LocTypes, PlaceInv, LoadInv, XferInv, InXfer
<1> DEFINE p == loc.po
<1>2. p \in Nat /\ p % 4 = 0 /\ wordSize = 4 /\ pc = "xfer" /\ loc.pi = 4 + 2 * p
  BY <1>1
<1> HIDE DEF p
<1>3. /\ WordAt(Word(4 + 2 * p), "tms", p, bytesCeil, nCalls)
      /\ WordAt(Word(4 + 2 * p + 4), "tdi", p, bytesCeil, nCalls)
  BY <1>2, MessageWord
<1>4. WordAt(Word(loc.pi), "tms", p, bytesCeil, nCalls) /\ WordAt(Word(loc.pi + 4), "tdi", p, bytesCeil, nCalls)
  BY <1>2, <1>3
<1>5. 8 * loc.po + 0 = 8 * loc.po /\ start + 8 * loc.po + 0 = start + 8 * loc.po /\ loc.pi + 8 = 12 + 2 * loc.po
  BY <1>1
<1> QED BY <1>1, <1>4, <1>5 DEF p

LEMMA LoadBits ==
    ASSUME SendInv, BitsInv, Load
    PROVE  BitsInv'
<1>1. EngTypes(eng) /\ PinTypes(pins, edges) /\ LocTypes(loc) /\ edges \in Nat /\ start \in Nat /\ IsSequence(jtag)
  BY DEF BitsInv, BitTypes
<1>r. /\ IsRecord(eng, EngFields) /\ IsRecord(loc, LocFields)
      /\ eng.tdo \in [0..31 -> Nat] /\ eng.len \in Nat /\ eng.cnt \in Nat
  BY <1>1 DEF EngTypes, LocTypes
<1>e. /\ loc' = [loc EXCEPT !.at = "poll", !.pi = loc.pi + 8, !.l = WordBits]
      /\ eng' = [eng EXCEPT !.tms = Word(loc.pi), !.tdi = Word(loc.pi + 4), !.len = EngineLen,
                            !.run = TRUE, !.cnt = 0]
  BY DEF Load, Run
<1>2. /\ loc.at = "load" /\ ~Bb /\ pc' = pc /\ wordSize' = wordSize /\ message' = message
      /\ nCalls' = nCalls /\ bits' = bits /\ jtag' = jtag /\ start' = start /\ edges' = edges
      /\ mode' = mode /\ pins' = pins /\ rxb' = rxb
  BY DEF Load, sendVars, parVars
<1>3. WordBits = (IF loc.nbits < 32 THEN loc.nbits ELSE 32) /\ WordBits \in 1..32
  BY <1>2, WordLength DEF SendInv
<1>4. EngineLen = WordBits
  <2>1. (mode = "bridge" => eng.len = 32) /\ loc.nbits \in Nat
    BY <1>1, <1>2 DEF BitsInv, LoadInv, LocTypes
  <2> QED BY <1>3, <2>1 DEF EngineLen, W
<1>5. /\ IsRecord(loc', LocFields) /\ loc'.at = "poll" /\ loc'.pi = loc.pi + 8 /\ loc'.po = loc.po
      /\ loc'.nbits = loc.nbits /\ loc'.l = WordBits /\ loc'.resets = loc.resets
  BY <1>r, <1>e DEF IsRecord, LocFields
<1>6. LocTypes(loc')
  BY <1>1, <1>3, <1>5 DEF LocTypes
<1>7. /\ IsRecord(eng', EngFields) /\ eng'.tms = Word(loc.pi) /\ eng'.tdi = Word(loc.pi + 4)
      /\ eng'.run = TRUE /\ eng'.cnt = 0 /\ eng'.tdo = eng.tdo /\ eng'.len = EngineLen
  BY <1>r, <1>e DEF IsRecord, EngFields
<1>8. EngTypes(eng') /\ eng'.run # FALSE
  <2>1. eng'.run \in BOOLEAN /\ eng'.run # FALSE
    BY <1>7, Zenon
  <2>2. eng'.len \in Nat /\ eng'.cnt \in Nat /\ eng'.tdo \in [0..31 -> Nat]
    BY <1>r, <1>3, <1>4, <1>7
  <2> QED BY <1>7, <2>1, <2>2, Zenon DEF EngTypes
<1>9. BitTypes'
  BY <1>1, <1>2, <1>6, <1>8 DEF BitTypes
<1>10. PlaceInv'
  BY <1>2, <1>5 DEF BitsInv, PlaceInv, InXfer, Bb
<1>11. bytesCeil' = bytesCeil
  BY <1>2 DEF bytesCeil
<1>12. WordInv'
  <2>1. /\ WordAt(eng'.tms, "tms", loc'.po, bytesCeil', nCalls') /\ WordAt(eng'.tdi, "tdi", loc'.po, bytesCeil', nCalls')
        /\ loc'.pi = 12 + 2 * loc'.po
        /\ Driven(jtag', 8 * loc'.po + eng'.cnt, nCalls') /\ edges' = start' + 8 * loc'.po + eng'.cnt
    BY <1>2, <1>5, <1>7, <1>11, LoadFacts
  <2>2. loc'.l = (IF loc'.nbits < 32 THEN loc'.nbits ELSE 32) /\ eng'.cnt <= loc'.l
    BY <1>3, <1>5, <1>7
  <2> QED BY <2>1, <2>2 DEF WordInv
<1>13. XferInv'
  BY <1>2, <1>5, <1>11 DEF BitsInv, XferInv, InXfer
<1>14. PollInv'
  <2>1. Samples(eng'.tdo, IF mode' = "bridge" THEN 0 ELSE 32 - eng'.cnt, eng'.cnt, start' + 8 * loc'.po)
    BY <1>7 DEF Samples
  <2>2. eng'.len = loc'.l
    BY <1>4, <1>5, <1>7
  <2> QED BY <1>8, <2>1, <2>2 DEF PollInv
<1>15. pc = "xfer"
  BY <1>2 DEF BitsInv, PlaceInv, InXfer
<1> QED BY <1>2, <1>5, <1>9, <1>10, <1>12, <1>13, <1>14, <1>15
        DEF BitsInv, ResetInv, LoadInv, LowInv, HighInv, DoneInv, FreshInv

\* setw32: the word's bits are behind those of the words before it
StoredAt(r, p, l, t) ==
    [k \in DOMAIN r |-> IF k \in (8 * p)..(8 * (p + ((l + 7) \div 8)) - 1) THEN t[k - 8 * p] ELSE r[k]]

LEMMA WordStored ==
    ASSUME NEW r, NEW B \in Nat, DOMAIN r = 0..(8 * B - 1), NEW p \in Nat, NEW l \in 1..32, NEW s \in Nat,
           8 * p + l <= 8 * B, Samples(r, 0, 8 * p, s), NEW t, Samples(t, 0, l, s + 8 * p),
           NEW q, q = StoredAt(r, p, l, t)
    PROVE  Samples(q, 0, 8 * p + l, s)
<1>0. q = [k \in 0..(8 * B - 1) |->
             IF k \in (8 * p)..(8 * (p + ((l + 7) \div 8)) - 1) THEN t[k - 8 * p] ELSE r[k]]
  BY DEF StoredAt
<1>1. ASSUME NEW k \in 0..((8 * p + l) - 1) PROVE q[0 + k] = s + k + 1
  <2>1. k \in 0..(8 * B - 1) /\ 0 + k = k
    OBVIOUS
  <2>2. CASE k < 8 * p
    <3>1. q[k] = r[k]
      BY <1>0, <2>1, <2>2
    <3>2. k \in 0..(8 * p - 1)
      BY <2>2
    <3>3. r[0 + k] = s + k + 1
      BY <3>2 DEF Samples
    <3> QED BY <2>1, <3>1, <3>3
  <2>3. CASE ~(k < 8 * p)
    <3>1. k \in (8 * p)..(8 * (p + ((l + 7) \div 8)) - 1)
      BY <2>3
    <3>2. q[k] = t[k - 8 * p]
      BY <1>0, <2>1, <3>1
    <3> DEFINE j == k - 8 * p
    <3>3. j \in 0..(l - 1) /\ 0 + j = j /\ (s + 8 * p) + j + 1 = s + k + 1
      BY <2>3
    <3> HIDE DEF j
    <3>4. t[0 + j] = (s + 8 * p) + j + 1
      BY <3>3, Zenon DEF Samples
    <3>5. t[j] = s + k + 1
      BY <3>3, <3>4
    <3> QED BY <2>1, <3>2, <3>5 DEF j
  <2> QED BY <2>2, <2>3
<1> QED BY <1>1 DEF Samples

\* The end of a word: TCK has done all of its bits, and t is its TDO
WordDone ==
    /\ \E t : Store(t) /\ Samples(t, 0, loc.l, start + 8 * loc.po)
    /\ BitTypes' /\ mode' = mode /\ start' = start
    /\ Driven(jtag', 8 * loc.po + loc.l, nCalls) /\ edges' = start + 8 * loc.po + loc.l
    /\ eng'.run # TRUE /\ (mode = "bridge" => eng'.len = loc.l)

\* What Store does to the locals and to the call
LEMMA StoreSteps ==
    ASSUME IsRecord(loc, LocFields), NEW t, Store(t)
    PROVE  /\ loc'.po = loc.po + lb /\ loc'.pi = loc.pi /\ loc'.l = loc.l
           /\ loc.nbits > loc.l => loc'.at = "load" /\ loc'.nbits = loc.nbits - loc.l /\ pc' = pc
           /\ ~(loc.nbits > loc.l) => loc'.at = "idle" /\ pc' = "idle"
           /\ wordSize' = wordSize /\ nCalls' = nCalls /\ bits' = bits /\ message' = message
           /\ rxb' = StoredAt(rxb, loc.po, loc.l, t)
<1>1. CASE loc.nbits > loc.l
  <2>1. loc' = [loc EXCEPT !.at = "load", !.po = loc.po + lb, !.nbits = loc.nbits - loc.l] /\ UNCHANGED sendVars
    BY <1>1 DEF Store
  <2>2. /\ loc'.po = loc.po + lb /\ loc'.pi = loc.pi /\ loc'.l = loc.l
        /\ loc'.at = "load" /\ loc'.nbits = loc.nbits - loc.l
    BY <2>1 DEF IsRecord, LocFields
  <2> QED BY <1>1, <2>1, <2>2 DEF Store, sendVars, parVars, lb, StoredAt
<1>2. CASE ~(loc.nbits > loc.l)
  <2>1. loc' = [loc EXCEPT !.at = "idle", !.po = loc.po + lb, !.nbits = 0] /\ Return
    BY <1>2 DEF Store
  <2>2. loc'.po = loc.po + lb /\ loc'.pi = loc.pi /\ loc'.l = loc.l /\ loc'.at = "idle"
    BY <2>1 DEF IsRecord, LocFields
  <2> QED BY <1>2, <2>1, <2>2 DEF Store, Return, parVars, lb, StoredAt
<1> QED BY <1>1, <1>2

LEMMA StoreLocals ==
    ASSUME LocTypes(loc), NEW t, Store(t)
    PROVE  LocTypes(loc')
<1>1. /\ IsRecord(loc, LocFields) /\ loc.po \in Nat /\ loc.nbits \in Nat /\ loc.l \in Nat
      /\ loc.pi \in Nat /\ loc.resets \in Nat
  BY DEF LocTypes
<1>2. lb \in Nat
  BY <1>1 DEF lb
<1>3. CASE loc.nbits > loc.l
  <2>1. loc' = [loc EXCEPT !.at = "load", !.po = loc.po + lb, !.nbits = loc.nbits - loc.l]
    BY <1>3 DEF Store
  <2>2. /\ IsRecord(loc', LocFields) /\ loc'.at = "load" /\ loc'.po = loc.po + lb /\ loc'.nbits = loc.nbits - loc.l
        /\ loc'.pi = loc.pi /\ loc'.l = loc.l /\ loc'.resets = loc.resets
    BY <1>1, <2>1 DEF IsRecord, LocFields
  <2> QED BY <1>1, <1>2, <1>3, <2>2 DEF LocTypes
<1>4. CASE ~(loc.nbits > loc.l)
  <2>1. loc' = [loc EXCEPT !.at = "idle", !.po = loc.po + lb, !.nbits = 0]
    BY <1>4 DEF Store
  <2>2. /\ IsRecord(loc', LocFields) /\ loc'.at = "idle" /\ loc'.po = loc.po + lb /\ loc'.nbits = 0
        /\ loc'.pi = loc.pi /\ loc'.l = loc.l /\ loc'.resets = loc.resets
    BY <1>1, <2>1 DEF IsRecord, LocFields
  <2> QED BY <1>1, <1>2, <2>2 DEF LocTypes
<1> QED BY <1>3, <1>4

LEMMA WordDoneBits ==
    ASSUME LayoutInv, BitsInv, loc.at \in {"poll", "high"}, WordDone
    PROVE  BitsInv'
<1>1. /\ LocTypes(loc) /\ IsRecord(loc, LocFields) /\ start \in Nat
      /\ 8 * loc.po + loc.nbits = bits /\ loc.nbits > 0 /\ loc.po % 4 = 0
      /\ DOMAIN rxb = 0..(8 * bytesCeil - 1) /\ Samples(rxb, 0, 8 * loc.po, start)
      /\ loc.pi = 12 + 2 * loc.po /\ loc.l = IF loc.nbits < 32 THEN loc.nbits ELSE 32
  BY DEF BitsInv, BitTypes, LocTypes, XferInv, InXfer, WordInv
<1>n. /\ loc.po \in Nat /\ loc.nbits \in Nat /\ loc.pi \in Nat /\ bits \in Nat /\ start \in Nat
      /\ 8 * loc.po + loc.nbits = bits /\ loc.nbits > 0 /\ loc.po % 4 = 0
      /\ loc.pi = 12 + 2 * loc.po /\ loc.l = IF loc.nbits < 32 THEN loc.nbits ELSE 32
  BY <1>1 DEF LocTypes, LayoutInv, SendTypes
<1>2. /\ pc = "xfer" /\ nCalls > 0 /\ bits > 0 /\ message # <<>> /\ (mode # "stream" => wordSize = 4) /\ mode # "stream"
  BY DEF BitsInv, PlaceInv, InXfer
<1>3. PICK t : Store(t) /\ Samples(t, 0, loc.l, start + 8 * loc.po)
  BY DEF WordDone
<1>4. /\ loc'.po = loc.po + lb /\ loc'.pi = loc.pi /\ loc'.l = loc.l
      /\ loc.nbits > loc.l => loc'.at = "load" /\ loc'.nbits = loc.nbits - loc.l /\ pc' = pc
      /\ ~(loc.nbits > loc.l) => loc'.at = "idle" /\ pc' = "idle"
      /\ wordSize' = wordSize /\ nCalls' = nCalls /\ bits' = bits /\ message' = message
  BY <1>1, <1>3, StoreSteps
<1>5. /\ BitTypes' /\ mode' = mode /\ start' = start
      /\ Driven(jtag', 8 * loc.po + loc.l, nCalls) /\ edges' = start + 8 * loc.po + loc.l
      /\ eng'.run # TRUE /\ (mode = "bridge" => eng'.len = loc.l)
  BY DEF WordDone
<1>6. bytesCeil' = bytesCeil /\ bytesCeil \in Nat /\ 8 * loc.po + loc.l <= 8 * bytesCeil /\ loc.l \in 1..32
  <2>1. bytesCeil' = bytesCeil
    BY <1>4 DEF bytesCeil
  <2>2. bytesCeil \in Nat /\ 8 * loc.po + loc.l <= 8 * bytesCeil /\ loc.l \in 1..32
    <3>1. loc.l \in 1..32 /\ 8 * loc.po + loc.l <= bits
      <4>1. /\ loc.po \in Nat /\ loc.nbits \in Nat /\ loc.nbits > 0 /\ 8 * loc.po + loc.nbits = bits
            /\ loc.l = IF loc.nbits < 32 THEN loc.nbits ELSE 32
        BY <1>n
      <4>2. loc.l \in 1..32 /\ loc.l <= loc.nbits
        BY <4>1
      <4> QED BY <4>1, <4>2
    <3>2. bits \in Nat /\ loc.po \in Nat
      BY <1>n
    <3>3. bytesCeil = (bits + 7) \div 8
      BY DEF bytesCeil
    <3> QED BY <3>1, <3>2, <3>3
  <2> QED BY <2>1, <2>2
<1>7. DOMAIN rxb' = 0..(8 * bytesCeil - 1) /\ Samples(rxb', 0, 8 * loc.po + loc.l, start)
  <2> DEFINE r == rxb
             B == bytesCeil
             p == loc.po
             l == loc.l
             q == rxb'
  <2>1. q = StoredAt(r, p, l, t)
    BY <1>1, <1>3, StoreSteps
  <2>2. /\ B \in Nat /\ DOMAIN r = 0..(8 * B - 1) /\ p \in Nat /\ l \in 1..32 /\ start \in Nat
        /\ 8 * p + l <= 8 * B /\ Samples(r, 0, 8 * p, start) /\ Samples(t, 0, l, start + 8 * p)
    BY <1>1, <1>n, <1>3, <1>6
  <2> HIDE DEF r, B, p, l, q
  <2>3. Samples(q, 0, 8 * p + l, start)
    BY <2>1, <2>2, WordStored
  <2>4. DOMAIN q = 0..(8 * B - 1)
    BY <2>1, <2>2 DEF StoredAt
  <2> QED BY <2>3, <2>4 DEF r, B, p, l, q
<1>8. PlaceInv'
  BY <1>2, <1>4, <1>5 DEF PlaceInv, InXfer
<1>9. CASE loc.nbits > loc.l
  <2>1. loc'.at = "load" /\ pc' = "xfer"
    BY <1>2, <1>4, <1>9
  <2>2. loc.l = 32 /\ lb = 4
    BY <1>n, <1>9 DEF lb
  <2>3. /\ loc'.po = loc.po + 4 /\ loc'.nbits = loc.nbits - 32 /\ loc'.pi = loc.pi /\ loc'.l = 32
    BY <1>4, <1>9, <2>2
  <2>4. /\ 8 * loc'.po = 8 * loc.po + loc.l /\ loc'.pi = 4 + 2 * loc'.po
        /\ start + 8 * loc.po + loc.l = start + 8 * loc'.po
        /\ 8 * loc'.po + loc'.nbits = bits /\ loc'.nbits > 0 /\ loc'.po % 4 = 0
    BY <1>n, <1>9, <2>2, <2>3
  <2>5. LoadInv'
    BY <1>4, <1>5, <2>2, <2>3, <2>4 DEF LoadInv
  <2>6. XferInv'
    <3>1. Samples(rxb', 0, 8 * loc'.po, start') /\ DOMAIN rxb' = 0..(8 * bytesCeil' - 1)
      BY <1>5, <1>6, <1>7, <2>4
    <3>2. 8 * loc'.po + loc'.nbits = bits' /\ loc'.nbits > 0 /\ loc'.po % 4 = 0
      BY <1>4, <2>4
    <3> QED BY <3>1, <3>2 DEF XferInv
  <2> QED BY <1>5, <1>8, <2>1, <2>5, <2>6
          DEF BitsInv, ResetInv, WordInv, PollInv, LowInv, HighInv, DoneInv, FreshInv
<1>10. CASE ~(loc.nbits > loc.l)
  <2>1. loc'.at = "idle" /\ pc' = "idle"
    BY <1>4, <1>10
  <2>2. 8 * loc.po + loc.l = bits
    BY <1>n, <1>10
  <2>3. Driven(jtag', bits', nCalls') /\ Samples(rxb', 0, bits', start')
    BY <1>4, <1>5, <1>7, <2>2
  <2>4. DoneInv' /\ FreshInv'
    <3>1. nCalls' # 0
      BY <1>2, <1>4
    <3> QED BY <2>3, <3>1 DEF DoneInv, FreshInv
  <2> QED BY <1>5, <1>8, <2>1, <2>4, IdleBits
<1> QED BY <1>9, <1>10

LEMMA PollBits ==
    ASSUME LayoutInv, BitsInv, Poll
    PROVE  BitsInv'
<1>1. /\ EngTypes(eng) /\ PinTypes(pins, edges) /\ LocTypes(loc) /\ edges \in Nat /\ start \in Nat /\ IsSequence(jtag)
      /\ eng.tdo \in [0..31 -> Nat]
  BY DEF BitsInv, BitTypes, EngTypes
<1>2. /\ loc.at = "poll" /\ mode' = mode /\ start' = start /\ jtag' = jtag /\ edges' = edges /\ eng' = eng /\ pins' = pins
      /\ Store(Aligned(eng.tdo))
  BY DEF Poll, hwVars
<1>3. eng.run = FALSE /\ eng.run # TRUE
  BY <1>1, Zenon DEF Poll, NotBusy, EngTypes
<1>4. /\ eng.len = loc.l /\ eng.cnt = loc.l
      /\ Samples(eng.tdo, IF mode = "bridge" THEN 0 ELSE 32 - loc.l, loc.l, start + 8 * loc.po)
      /\ Driven(jtag, 8 * loc.po + loc.l, nCalls) /\ edges = start + 8 * loc.po + loc.l
      /\ loc.l = IF loc.nbits < 32 THEN loc.nbits ELSE 32
  BY <1>2, <1>3 DEF BitsInv, PollInv, WordInv
<1>5. Samples(Aligned(eng.tdo), 0, loc.l, start + 8 * loc.po)
  <2> DEFINE t == eng.tdo
             l == loc.l
             s == start + 8 * loc.po
  <2> SUFFICES Samples(Aligned(t), 0, l, s)
    OBVIOUS
  <2>1. l \in 0..32 /\ Samples(t, IF mode = "bridge" THEN 0 ELSE 32 - l, l, s)
    <3>1. loc.nbits \in Nat
      BY <1>1 DEF LocTypes
    <3> QED BY <1>4, <3>1
  <2>2. mode # "bridge" => Aligned(t) = [j \in 0..31 |-> IF j < l THEN t[j + 32 - l] ELSE 0]
    BY DEF Aligned, W, Zero
  <2>3. mode = "bridge" => Aligned(t) = t
    BY DEF Aligned
  <2> HIDE DEF t, l, s
  <2>4. CASE mode = "bridge"
    BY <2>1, <2>3, <2>4
  <2>5. CASE mode # "bridge"
    <3>1. ASSUME NEW k \in 0..(l - 1) PROVE Aligned(t)[0 + k] = s + k + 1
      <4>1. k \in 0..31 /\ k < l /\ 0 + k = k /\ k + 32 - l = 32 - l + k
        BY <2>1
      <4>2. Aligned(t)[k] = t[k + 32 - l]
        BY <2>2, <2>5, <4>1
      <4>3. t[32 - l + k] = s + k + 1
        BY <2>1, <2>5 DEF Samples
      <4> QED BY <4>1, <4>2, <4>3
    <3> QED BY <3>1 DEF Samples
  <2> QED BY <2>4, <2>5
<1>6. LocTypes(loc')
  <2>1. \E t : Store(t)
    BY <1>2, Zenon
  <2> QED BY <1>1, <2>1, StoreLocals
<1>7. BitTypes'
  BY <1>1, <1>2, <1>6 DEF BitTypes
<1>8. WordDone
  BY <1>2, <1>3, <1>4, <1>5, <1>7 DEF WordDone
<1> QED BY <1>2, <1>8, WordDoneBits

LEMMA BbLowBits ==
    ASSUME SendInv, BitsInv, BbLow
    PROVE  BitsInv'
<1>1. /\ EngTypes(eng) /\ PinTypes(pins, edges) /\ LocTypes(loc) /\ edges \in Nat /\ start \in Nat /\ IsSequence(jtag)
  BY DEF BitsInv, BitTypes
<1>r. /\ IsRecord(eng, EngFields) /\ IsRecord(loc, LocFields)
      /\ eng.tdo \in [0..31 -> Nat] /\ eng.len \in Nat /\ eng.cnt \in Nat
  BY <1>1 DEF EngTypes, LocTypes
<1>2. /\ loc.at \in {"load", "low"} /\ Bb /\ pc' = pc /\ wordSize' = wordSize /\ message' = message
      /\ nCalls' = nCalls /\ bits' = bits /\ jtag' = jtag /\ start' = start /\ edges' = edges
      /\ mode' = mode /\ rxb' = rxb
  BY DEF BbLow, sendVars, parVars
<1>3. WordBits = (IF loc.nbits < 32 THEN loc.nbits ELSE 32) /\ WordBits \in 1..32
  BY <1>2, WordLength DEF SendInv
<1>4. pc = "xfer"
  BY <1>2 DEF BitsInv, PlaceInv, InXfer
<1> DEFINE new == loc.at = "load"
           i == IF new THEN 0 ELSE eng.cnt
           tms == IF new THEN Word(loc.pi) ELSE eng.tms
           tdi == IF new THEN Word(loc.pi + 4) ELSE eng.tdi
           old == IF new THEN [j \in 0..31 |-> 0] ELSE eng.tdo
           pi == IF new THEN loc.pi + 8 ELSE loc.pi
           s == start + 8 * loc.po
<1>5. /\ pins' = FallPins(pins, edges, BitOf(tms, i), BitOf(tdi, i))
      /\ eng' = [eng EXCEPT !.tms = tms, !.tdi = tdi, !.cnt = i, !.tdo = [old EXCEPT ![i] = pins'.tdo]]
      /\ loc' = [loc EXCEPT !.at = "high", !.pi = pi, !.l = WordBits]
  BY DEF BbLow, FallPins, Fall, W, Zero
\* The word, its bits so far, and the place in the message
<1>6. /\ WordAt(tms, "tms", loc.po, bytesCeil, nCalls) /\ WordAt(tdi, "tdi", loc.po, bytesCeil, nCalls)
      /\ pi = 12 + 2 * loc.po /\ i \in Nat /\ i < WordBits
      /\ Driven(jtag, 8 * loc.po + i, nCalls) /\ edges = start + 8 * loc.po + i
      /\ Samples(old, 0, i, s) /\ old \in [0..31 -> Nat]
  <2>1. CASE loc.at = "load"
    <3>1. i = 0 /\ tms = Word(loc.pi) /\ tdi = Word(loc.pi + 4) /\ old = [j \in 0..31 |-> 0] /\ pi = loc.pi + 8
      BY <2>1
    <3>2. Samples(old, 0, i, s) /\ old \in [0..31 -> Nat]
      BY <3>1 DEF Samples
    <3>3. i \in Nat /\ i < WordBits
      BY <1>3, <3>1
    <3> HIDE DEF i, tms, tdi, old, pi, s
    <3> QED BY <2>1, <3>1, <3>2, <3>3, LoadFacts
  <2>2. CASE loc.at = "low"
    <3>1. i = eng.cnt /\ tms = eng.tms /\ tdi = eng.tdi /\ old = eng.tdo /\ pi = loc.pi
      BY <2>2
    <3>2. /\ loc.pi = 12 + 2 * loc.po
          /\ loc.l = (IF loc.nbits < 32 THEN loc.nbits ELSE 32) /\ eng.cnt < loc.l
          /\ WordAt(eng.tms, "tms", loc.po, bytesCeil, nCalls) /\ WordAt(eng.tdi, "tdi", loc.po, bytesCeil, nCalls)
          /\ Driven(jtag, 8 * loc.po + eng.cnt, nCalls) /\ edges = start + 8 * loc.po + eng.cnt
          /\ Samples(eng.tdo, 0, eng.cnt, s)
      BY <2>2 DEF BitsInv, WordInv, LowInv
    <3>3. eng.cnt \in Nat /\ eng.cnt < WordBits
      BY <1>r, <1>3, <3>2
    <3> HIDE DEF i, tms, tdi, old, pi, s
    <3> QED BY <1>r, <3>1, <3>2, <3>3
  <2> QED BY <1>2, <2>1, <2>2
<1>n. i \in 0..31 /\ edges = s + i /\ s \in Nat
  <2>1. i \in Nat /\ i < WordBits /\ edges = start + 8 * loc.po + i /\ WordBits \in 1..32 /\ loc.po \in Nat /\ start \in Nat
    BY <1>1, <1>3, <1>6 DEF LocTypes
  <2> HIDE DEF i
  <2> QED BY <2>1
<1> HIDE DEF i, tms, tdi, old, pi, s, new
<1>7. /\ PinTypes(pins', edges) /\ pins'.tck = FALSE /\ pins'.tdo = edges + 1
      /\ pins'.tms = BitOf(tms, i) /\ pins'.tdi = BitOf(tdi, i)
  <2> DEFINE t == BitOf(tms, i)
             d == BitOf(tdi, i)
             n == pins'
  <2>1. n = FallPins(pins, edges, t, d) /\ edges \in Nat /\ PinTypes(pins, edges)
    BY <1>1, <1>5
  <2> HIDE DEF t, d, n
  <2>2. Fallen(n, edges, t, d)
    BY <2>1, PinsFall
  <2> QED BY <2>2, Zenon DEF t, d, n, Fallen
<1>8. /\ IsRecord(loc', LocFields) /\ loc'.at = "high" /\ loc'.pi = pi /\ loc'.po = loc.po
      /\ loc'.nbits = loc.nbits /\ loc'.l = WordBits /\ loc'.resets = loc.resets
  BY <1>r, <1>5 DEF IsRecord, LocFields
<1>9. LocTypes(loc')
  <2>1. pi \in Nat /\ WordBits \in Nat
    BY <1>1, <1>3, <1>6 DEF LocTypes
  <2> QED BY <1>1, <1>8, <2>1 DEF LocTypes
<1>10. /\ IsRecord(eng', EngFields) /\ eng'.tms = tms /\ eng'.tdi = tdi
       /\ eng'.run = eng.run /\ eng'.cnt = i /\ eng'.tdo = [old EXCEPT ![i] = pins'.tdo] /\ eng'.len = eng.len
  BY <1>r, <1>5 DEF IsRecord, EngFields
<1>11. eng'.tdo \in [0..31 -> Nat] /\ Samples(eng'.tdo, 0, i + 1, s)
  <2>1. eng'.tdo = [old EXCEPT ![i] = s + i + 1]
    BY <1>7, <1>10, <1>n
  <2>2. eng'.tdo \in [0..31 -> Nat]
    BY <1>6, <1>n, <2>1
  <2>3. ASSUME NEW k \in 0..((i + 1) - 1) PROVE eng'.tdo[0 + k] = s + k + 1
    <3>1. k \in 0..31 /\ 0 + k = k
      BY <1>n
    <3>2. CASE k = i
      BY <1>6, <2>1, <3>1, <3>2
    <3>3. CASE k # i
      <4>1. k \in 0..(i - 1)
        BY <1>n, <3>3
      <4>2. old[0 + k] = s + k + 1
        BY <1>6, <4>1, Zenon DEF Samples
      <4> QED BY <1>6, <2>1, <3>1, <3>3, <4>2
    <3> QED BY <3>2, <3>3
  <2> QED BY <2>2, <2>3 DEF Samples
<1>12. EngTypes(eng')
  <2>1. eng'.run \in BOOLEAN
    BY <1>1, <1>10, Zenon DEF EngTypes
  <2>2. eng'.len \in Nat /\ eng'.cnt \in Nat
    BY <1>r, <1>n, <1>10
  <2> QED BY <1>10, <1>11, <2>1, <2>2, Zenon DEF EngTypes
<1>13. BitTypes'
  BY <1>1, <1>2, <1>7, <1>9, <1>12 DEF BitTypes
<1>14. PlaceInv'
  BY <1>2, <1>8, <1>10 DEF BitsInv, PlaceInv, InXfer, Bb
<1>15. bytesCeil' = bytesCeil
  BY <1>2 DEF bytesCeil
<1>16. WordInv'
  <2>1. loc'.l = (IF loc'.nbits < 32 THEN loc'.nbits ELSE 32) /\ eng'.cnt <= loc'.l
    BY <1>3, <1>6, <1>8, <1>10
  <2>2. /\ WordAt(eng'.tms, "tms", loc'.po, bytesCeil', nCalls') /\ WordAt(eng'.tdi, "tdi", loc'.po, bytesCeil', nCalls')
        /\ loc'.pi = 12 + 2 * loc'.po
        /\ Driven(jtag', 8 * loc'.po + eng'.cnt, nCalls') /\ edges' = start' + 8 * loc'.po + eng'.cnt
    BY <1>2, <1>6, <1>8, <1>10, <1>15
  <2> QED BY <2>1, <2>2 DEF WordInv
<1>17. XferInv'
  BY <1>2, <1>8, <1>15 DEF BitsInv, XferInv, InXfer
<1>18. HighInv'
  <2>1. eng'.cnt < loc'.l
    BY <1>6, <1>8, <1>10
  <2>2. Samples(eng'.tdo, 0, eng'.cnt + 1, start' + 8 * loc'.po)
    BY <1>2, <1>8, <1>10, <1>11 DEF s
  <2>3. pins'.tms = BitOf(eng'.tms, eng'.cnt) /\ pins'.tdi = BitOf(eng'.tdi, eng'.cnt)
    BY <1>7, <1>10
  <2> QED BY <1>7, <2>1, <2>2, <2>3 DEF HighInv
<1> QED BY <1>2, <1>4, <1>8, <1>13, <1>14, <1>16, <1>17, <1>18
        DEF BitsInv, ResetInv, LoadInv, PollInv, LowInv, DoneInv, FreshInv

LEMMA BbHighBits ==
    ASSUME LayoutInv, BitsInv, BbHigh
    PROVE  BitsInv'
<1>1. /\ EngTypes(eng) /\ PinTypes(pins, edges) /\ LocTypes(loc) /\ edges \in Nat /\ start \in Nat /\ IsSequence(jtag)
  BY DEF BitsInv, BitTypes
<1>r. /\ IsRecord(eng, EngFields) /\ IsRecord(loc, LocFields) /\ IsRecord(pins, PinFields)
      /\ eng.tdo \in [0..31 -> Nat] /\ eng.len \in Nat /\ eng.cnt \in Nat
  BY <1>1 DEF EngTypes, LocTypes, PinTypes
<1> DEFINE x == [tms |-> pins.tms, tdi |-> pins.tdi]
<1>e. eng' = [eng EXCEPT !.cnt = eng.cnt + 1] /\ pins' = [pins EXCEPT !.tck = TRUE]
  BY DEF BbHigh
<1>2. loc.at = "high" /\ mode' = mode /\ start' = start /\ jtag' = Append(jtag, x) /\ edges' = edges + 1
  BY DEF BbHigh, Rise
<1>3. /\ eng.cnt < loc.l
      /\ pins.tms = BitOf(eng.tms, eng.cnt) /\ pins.tdi = BitOf(eng.tdi, eng.cnt)
      /\ Samples(eng.tdo, 0, eng.cnt + 1, start + 8 * loc.po)
      /\ loc.l = (IF loc.nbits < 32 THEN loc.nbits ELSE 32) /\ loc.pi = 12 + 2 * loc.po
      /\ WordAt(eng.tms, "tms", loc.po, bytesCeil, nCalls) /\ WordAt(eng.tdi, "tdi", loc.po, bytesCeil, nCalls)
      /\ Driven(jtag, 8 * loc.po + eng.cnt, nCalls) /\ edges = start + 8 * loc.po + eng.cnt
      /\ 8 * loc.po + loc.nbits = bits
  BY <1>2 DEF BitsInv, WordInv, HighInv, XferInv, InXfer
<1>n. /\ loc.po \in Nat /\ loc.nbits \in Nat /\ loc.l \in Nat /\ bits \in Nat /\ eng.cnt \in Nat
      /\ eng.cnt < loc.l /\ loc.l = (IF loc.nbits < 32 THEN loc.nbits ELSE 32) /\ 8 * loc.po + loc.nbits = bits
  BY <1>1, <1>r, <1>3 DEF LocTypes, LayoutInv, SendTypes
<1>4. /\ pc = "xfer" /\ Bb /\ eng.run # TRUE
  BY <1>2 DEF BitsInv, PlaceInv, InXfer
<1>5. x = VecBit(nCalls, 8 * loc.po + eng.cnt + 1)
  <2> DEFINE p == loc.po
             i == eng.cnt
             k == 8 * loc.po + eng.cnt + 1
  <2>1. p \in Nat /\ i \in 0..31 /\ k = 8 * p + i + 1
    BY <1>n
  <2>2. bytesCeil \in Nat /\ p + (i \div 8) < bytesCeil
    <3>1. 8 * p + i < bits /\ bits \in Nat
      BY <1>n
    <3>2. bytesCeil = (bits + 7) \div 8
      BY DEF bytesCeil
    <3> HIDE DEF p, i
    <3> QED BY <2>1, <3>1, <3>2
  <2>3. WordAt(eng.tms, "tms", p, bytesCeil, nCalls) /\ WordAt(eng.tdi, "tdi", p, bytesCeil, nCalls)
    BY <1>3
  <2>4. x = BitsAt(eng.tms, eng.tdi, i)
    BY <1>3 DEF BitsAt
  <2> HIDE DEF p, i, k, x
  <2>5. IsVecBit(BitsAt(eng.tms, eng.tdi, i), nCalls, k)
    BY <2>1, <2>2, <2>3, WordBit
  <2>6. x = VecBit(nCalls, k)
    BY <2>4, <2>5 DEF IsVecBit
  <2> QED BY <2>6 DEF k
<1> HIDE DEF x
<1>6. IsSequence(jtag') /\ Driven(jtag', 8 * loc.po + eng.cnt + 1, nCalls)
  <2> DEFINE n == 8 * loc.po + eng.cnt
  <2>1. n \in Nat /\ Driven(jtag, n, nCalls) /\ x = VecBit(nCalls, n + 1)
    BY <1>n, <1>3, <1>5
  <2> HIDE DEF n
  <2>2. IsSequence(Append(jtag, x)) /\ Driven(Append(jtag, x), n + 1, nCalls)
    BY <1>1, <2>1, DrivenNext
  <2>3. IsSequence(jtag') /\ Driven(jtag', n + 1, nCalls)
    BY <1>2, <2>2
  <2> QED BY <2>3 DEF n
<1>7. /\ IsRecord(eng', EngFields) /\ eng'.tms = eng.tms /\ eng'.tdi = eng.tdi /\ eng'.len = eng.len
      /\ eng'.run = eng.run /\ eng'.cnt = eng.cnt + 1 /\ eng'.tdo = eng.tdo
  BY <1>r, <1>e DEF IsRecord, EngFields
<1>8. EngTypes(eng') /\ eng'.run # TRUE
  <2>1. eng'.run \in BOOLEAN /\ eng'.run # TRUE
    BY <1>1, <1>4, <1>7, Zenon DEF EngTypes
  <2>2. eng'.len \in Nat /\ eng'.cnt \in Nat /\ eng'.tdo \in [0..31 -> Nat]
    BY <1>r, <1>7
  <2> QED BY <1>7, <2>1, <2>2, Zenon DEF EngTypes
<1>9. PinTypes(pins', edges') /\ pins'.tck = TRUE
  <2>1. IsRecord(pins', PinFields) /\ pins'.tck = TRUE /\ pins'.tdo = pins.tdo
    BY <1>r, <1>e DEF IsRecord, PinFields
  <2>2. pins'.tck \in BOOLEAN /\ pins'.tck # FALSE
    BY <2>1, Zenon
  <2> QED BY <1>1, <2>1, <2>2, Zenon DEF PinTypes
<1>10. edges' = start + 8 * loc.po + (eng.cnt + 1) /\ edges' \in Nat
  <2>1. edges' = edges + 1 /\ edges = start + 8 * loc.po + eng.cnt
    BY <1>2, <1>3
  <2>2. start \in Nat /\ loc.po \in Nat /\ eng.cnt \in Nat
    BY <1>1, <1>n
  <2> QED BY <2>1, <2>2
<1>11. CASE eng.cnt + 1 < loc.l
  <2>e. loc' = [loc EXCEPT !.at = "low"]
    BY <1>11 DEF BbHigh
  <2>1. /\ pc' = pc /\ wordSize' = wordSize /\ message' = message /\ nCalls' = nCalls /\ bits' = bits /\ rxb' = rxb
    BY <1>11 DEF BbHigh, sendVars, parVars
  <2>2. /\ IsRecord(loc', LocFields) /\ loc'.at = "low" /\ loc'.pi = loc.pi /\ loc'.po = loc.po
        /\ loc'.nbits = loc.nbits /\ loc'.l = loc.l /\ loc'.resets = loc.resets
    BY <1>r, <2>e DEF IsRecord, LocFields
  <2>3. LocTypes(loc')
    BY <1>1, <2>2 DEF LocTypes
  <2>4. BitTypes'
    BY <1>1, <1>2, <1>6, <1>8, <1>9, <1>10, <2>3 DEF BitTypes
  <2>5. PlaceInv'
    BY <1>2, <1>4, <1>8, <2>1, <2>2 DEF BitsInv, PlaceInv, InXfer, Bb
  <2>6. bytesCeil' = bytesCeil
    BY <2>1 DEF bytesCeil
  <2>7. WordInv'
    <3>1. 8 * loc.po + (eng.cnt + 1) = 8 * loc.po + eng.cnt + 1 /\ eng.cnt + 1 <= loc.l
      BY <1>n
    <3>2. Driven(jtag', 8 * loc'.po + eng'.cnt, nCalls')
      BY <1>6, <1>7, <2>1, <2>2, <3>1
    <3>3. edges' = start' + 8 * loc'.po + eng'.cnt
      BY <1>2, <1>7, <1>10, <2>2
    <3> QED BY <1>3, <1>7, <2>1, <2>2, <2>6, <3>1, <3>2, <3>3 DEF WordInv
  <2>8. XferInv'
    BY <1>2, <2>1, <2>2, <2>6 DEF BitsInv, XferInv, InXfer
  <2>9. LowInv'
    BY <1>2, <1>3, <1>7, <1>9, <1>11, <2>2 DEF LowInv
  <2> QED BY <1>4, <2>1, <2>2, <2>4, <2>5, <2>7, <2>8, <2>9
          DEF BitsInv, ResetInv, LoadInv, PollInv, HighInv, DoneInv, FreshInv
<1>12. CASE ~(eng.cnt + 1 < loc.l)
  <2>1. Store(eng.tdo)
    BY <1>12 DEF BbHigh
  <2>2. eng.cnt + 1 = loc.l /\ 8 * loc.po + eng.cnt + 1 = 8 * loc.po + loc.l
    BY <1>n, <1>12
  <2>3. LocTypes(loc')
    <3>1. \E t : Store(t)
      BY <2>1, Zenon
    <3> QED BY <1>1, <3>1, StoreLocals
  <2>4. BitTypes'
    BY <1>1, <1>2, <1>6, <1>8, <1>9, <1>10, <2>3 DEF BitTypes
  <2>5. Samples(eng.tdo, 0, loc.l, start + 8 * loc.po)
    BY <1>3, <2>2
  <2>6. \E t : Store(t) /\ Samples(t, 0, loc.l, start + 8 * loc.po)
    BY <2>1, <2>5, Zenon
  <2>7. Driven(jtag', 8 * loc.po + loc.l, nCalls) /\ edges' = start + 8 * loc.po + loc.l /\ mode # "bridge"
    BY <1>4, <1>6, <1>10, <2>2 DEF Bb
  <2>8. WordDone
    BY <1>2, <1>8, <2>4, <2>6, <2>7 DEF WordDone
  <2> QED BY <1>2, <2>8, WordDoneBits
<1> QED BY <1>11, <1>12

LEMMA BitsUnchanged ==
    ASSUME BitsInv, UNCHANGED vars
    PROVE  BitsInv'
<1>1. /\ pc' = pc /\ wordSize' = wordSize /\ message' = message /\ nCalls' = nCalls /\ bits' = bits
      /\ jtag' = jtag /\ start' = start /\ edges' = edges /\ mode' = mode /\ pins' = pins
      /\ loc' = loc /\ rxb' = rxb /\ eng' = eng
  BY DEF vars, sendVars, parVars, hwVars
<1>2. bytesCeil' = bytesCeil
  BY <1>1 DEF bytesCeil
<1> QED BY <1>1, <1>2 DEF BitsInv, BitTypes, PlaceInv, ResetInv, LoadInv, WordInv, XferInv, InXfer, PollInv, LowInv,
                          HighInv, DoneInv, FreshInv, Sdes, Bb

LEMMA BitsInductive ==
    ASSUME SendInv, BitsInv, [Next]_vars
    PROVE  BitsInv'
<1>1. LayoutInv
  BY DEF SendInv
<1>2. CASE Start
  BY <1>2, StartBits
<1>3. CASE DoConnect
  BY <1>3, ConnectBits
<1>4. CASE Kill
  BY <1>4, KillBits
<1>5. CASE Driver
  <2>1. CASE ResetDone
    BY <2>1, ResetBits
  <2>2. CASE DoSend
    BY <1>1, <2>2, SendBits
  <2>3. CASE StreamXfer
    BY <2>3, StreamBits
  <2>4. CASE Xfer
    BY <1>1, <2>4, XferBits
  <2>5. CASE Load
    BY <2>5, LoadBits
  <2>6. CASE Poll
    BY <1>1, <2>6, PollBits
  <2>7. CASE BbLow
    BY <2>7, BbLowBits
  <2>8. CASE BbHigh
    BY <1>1, <2>8, BbHighBits
  <2> QED BY <1>5, <2>1, <2>2, <2>3, <2>4, <2>5, <2>6, <2>7, <2>8 DEF Driver
<1>6. CASE Engine
  BY <1>1, <1>6, EngineBitBits, EngineDoneBits DEF Engine
<1>7. CASE UNCHANGED vars
  BY <1>7, BitsUnchanged
<1> QED BY <1>2, <1>3, <1>4, <1>5, <1>6, <1>7 DEF Next

\* The places where BitsInOrder says something, and what the invariant has for each
LEMMA BitsFollow ==
    ASSUME LayoutInv, BitsInv
    PROVE  BitsInOrder
<1>1. ASSUME NEW n \in Nat, Driven(jtag, n, nCalls), message # <<>>
      PROVE  \A k \in 1..Len(jtag) : jtag[k] = Expected(k)
  <2>1. ASSUME NEW k \in 1..Len(jtag) PROVE jtag[k] = Expected(k)
    <3>1. jtag[k] = VecBit(nCalls, k)
      BY <1>1, <2>1 DEF Driven
    <3>2. Expected(k) = VecBit(nCalls, k)
      BY <1>1, Zenon DEF Expected, VecBit
    <3> QED BY <3>1, <3>2
  <2> QED BY <2>1
<1>2. ASSUME NEW n \in Nat, DrivenReset(jtag, n), message = <<>>
      PROVE  \A k \in 1..Len(jtag) : jtag[k] = Expected(k)
  <2>1. ASSUME NEW k \in 1..Len(jtag) PROVE jtag[k] = Expected(k)
    <3>1. jtag[k] = ResetBit(k)
      BY <1>2, <2>1 DEF DrivenReset
    <3>2. Expected(k) = ResetBit(k)
      BY <1>2, Zenon DEF Expected, ResetBit
    <3> QED BY <3>1, <3>2
  <2> QED BY <2>1
<1>3. CASE loc.at = "reset"
  <2>1. /\ pc = "idle" /\ message = <<>> /\ loc.resets \in 1..2 /\ eng.cnt \in Nat
        /\ DrivenReset(jtag, 8 * (loc.resets - 1) + eng.cnt)
    BY <1>3 DEF BitsInv, BitTypes, EngTypes, PlaceInv, ResetInv
  <2>2. 8 * (loc.resets - 1) + eng.cnt \in Nat
    BY <2>1
  <2>3. \A k \in 1..Len(jtag) : jtag[k] = Expected(k)
    BY <1>2, <2>1, <2>2
  <2> QED BY <1>3, <2>1, <2>3 DEF BitsInOrder, Returned
<1>4. CASE InXfer
  <2>1. pc = "xfer" /\ message # <<>>
    BY <1>4 DEF BitsInv, PlaceInv
  <2>2. \E n \in Nat : n <= bits /\ Driven(jtag, n, nCalls)
    <3>1. /\ loc.po \in Nat /\ loc.nbits \in Nat /\ eng.cnt \in Nat /\ bits \in Nat
          /\ 8 * loc.po + loc.nbits = bits
      BY <1>4 DEF BitsInv, BitTypes, LocTypes, EngTypes, XferInv, LayoutInv, SendTypes
    <3>2. CASE loc.at = "load"
      <4>1. Driven(jtag, 8 * loc.po, nCalls)
        BY <3>2 DEF BitsInv, LoadInv
      <4>2. 8 * loc.po \in Nat /\ 8 * loc.po <= bits
        BY <3>1
      <4> QED BY <4>1, <4>2
    <3>3. CASE loc.at \in {"poll", "low", "high"}
      <4>1. /\ Driven(jtag, 8 * loc.po + eng.cnt, nCalls) /\ eng.cnt <= loc.l
            /\ loc.l = IF loc.nbits < 32 THEN loc.nbits ELSE 32
        BY <3>3 DEF BitsInv, WordInv
      <4>2. eng.cnt <= loc.nbits
        BY <3>1, <4>1
      <4>3. 8 * loc.po + eng.cnt \in Nat /\ 8 * loc.po + eng.cnt <= bits
        BY <3>1, <4>2
      <4> QED BY <4>1, <4>3
    <3> QED BY <1>4, <3>2, <3>3 DEF InXfer
  <2>3. PICK n \in Nat : n <= bits /\ Driven(jtag, n, nCalls)
    BY <2>2
  <2>4. \A k \in 1..Len(jtag) : jtag[k] = Expected(k)
    BY <1>1, <2>1, <2>3
  <2>5. Len(jtag) <= bits
    BY <2>3 DEF Driven
  <2> QED BY <1>4, <2>1, <2>4, <2>5 DEF BitsInOrder, Returned, InXfer
<1>5. CASE loc.at = "idle"
  <2>1. Returned => Driven(jtag, bits, nCalls) /\ message # <<>> /\ bits \in Nat
    BY DEF BitsInv, DoneInv, Returned, LayoutInv, SendTypes
  <2>2. Returned => Len(jtag) = bits /\ \A k \in 1..Len(jtag) : jtag[k] = Expected(k)
    <3>1. Driven(jtag, bits, nCalls) => Len(jtag) = bits
      BY DEF Driven
    <3> QED BY <1>1, <2>1, <3>1
  <2>3. message = <<>> /\ pc = "idle" /\ loc.at = "idle" /\ nCalls = 0 /\ mode # "stream" =>
           Len(jtag) = IF Sdes THEN 16 ELSE 0
    BY DEF BitsInv, FreshInv
  <2> QED BY <1>5, <2>2, <2>3 DEF BitsInOrder
<1>6. loc.at \in {"idle", "reset", "load", "poll", "low", "high"}
  BY DEF BitsInv, BitTypes, LocTypes
<1> QED BY <1>3, <1>4, <1>5, <1>6 DEF InXfer

LEMMA TdoFollows ==
    ASSUME LayoutInv, BitsInv
    PROVE  TdoInPlace
<1>1. ASSUME loc.at \in {"poll", "low", "high"} PROVE loc.po + lb <= bytesCeil
  <2>1. /\ loc.po \in Nat /\ loc.nbits \in Nat /\ bits \in Nat /\ 8 * loc.po + loc.nbits = bits
        /\ loc.l = IF loc.nbits < 32 THEN loc.nbits ELSE 32
    BY <1>1 DEF BitsInv, BitTypes, LocTypes, XferInv, InXfer, WordInv, LayoutInv, SendTypes
  <2>2. loc.l \in Nat /\ loc.l <= loc.nbits
    BY <2>1
  <2>3. 8 * loc.po + loc.l <= bits
    BY <2>1, <2>2
  <2>4. loc.po + ((loc.l + 7) \div 8) <= (bits + 7) \div 8
    <3>1. loc.po \in Nat /\ bits \in Nat
      BY <2>1
    <3> QED BY <2>2, <2>3, <3>1
  <2> QED BY <2>4 DEF lb, bytesCeil
<1>2. ASSUME Returned PROVE \A k \in 0..(bits - 1) : rxb[k] = start + k + 1
  <2>1. Samples(rxb, 0, bits, start) /\ bits \in Nat
    BY <1>2 DEF BitsInv, DoneInv, Returned, LayoutInv, SendTypes
  <2> QED BY <2>1 DEF Samples
<1> QED BY <1>1, <1>2 DEF TdoInPlace

LEMMA BitsInvariant ==
    Spec => [](SendInv /\ BitsInv)
<1>1. Init => SendInv /\ BitsInv
  BY SendInductive, InitBits
<1>2. SendInv /\ BitsInv /\ [Next]_vars => (SendInv /\ BitsInv)'
  BY SendInductive, BitsInductive
<1> QED BY <1>1, <1>2, PTL DEF Spec

\* The bridge, the serialiser and bit-banging drive the same bits: one rising edge
\* of TCK for each bit of the caller's vectors, in order, and none besides, whatever
\* the lengths of vectors and the ends of processes are.
THEOREM BitsDriven ==
    Spec => []BitsInOrder
<1>1. SendInv /\ BitsInv => BitsInOrder
  BY BitsFollow DEF SendInv
<1> QED BY <1>1, BitsInvariant, PTL

\* and the caller gets TDO as it was before each of these edges, in its place.
THEOREM TdoStored ==
    Spec => []TdoInPlace
<1>1. SendInv /\ BitsInv => TdoInPlace
  BY TdoFollows DEF SendInv
<1> QED BY <1>1, BitsInvariant, PTL

=============================================================================
