--------------------------- MODULE FifoDriversProofs ---------------------------
(***************************************************************************)
(* Theorems about FifoDrivers, for every value of its constants: the       *)
(* frames that the target sees, the replies that xfer() returns and the    *)
(* FIFOs between two transfers, for both drivers, however often the        *)
(* process is ended and started again.  The inductive invariant is FifoInv.*)
(***************************************************************************)
EXTENDS FifoDrivers, TLAPS

-----------------------------------------------------------------------------
(* The invariant *)

\* The messages that are sent fit the FIFO.
FramesFit == \A size \in Sizes : 1 + 2 * ((size + 3) \div 4) <= Depth

\* Words of a request or a reply, messages, and what the target may have of them
Words == [m : Nat, k : Nat, n : Nat]
Msgs == [m : Nat, n : Nat, size : Nat]
Targets == [frame : Seq(Words), ended : BOOLEAN, sent : Nat]

\* Word k of the message, or the reply, p; and s holds consecutive ones
WordOf(p, k) == [m |-> p.m, k |-> k, n |-> p.n]
Run(s, p, from) == s \in Seq(Words) /\ \A k \in 1..Len(s) : s[k] = WordOf(p, from + (k - 1))

\* On its way to the target t message p is in register r and FIFO o, and the reply
\* so far is a
Flow(t, r, o, a, p) ==
    /\ Run(t.frame, p, 0) /\ Run(r, p, Len(t.frame)) /\ Run(o, p, Len(t.frame) + Len(r))
    /\ Len(t.frame) + (Len(r) + Len(o)) = 1 + 2 * p.n
    /\ Len(r) + Len(o) = 0 => t.ended
    /\ t.ended => Len(r) + Len(o) = 0
    /\ t.sent <= p.n /\ Run(a, p, 0) /\ Len(a) = t.sent

\* The same with a register for one word, of a FIFO that the streams own as long as
\* they have not taken the last word of p
Moving(t, r, o, a, w, p) ==
    /\ Flow(t, r, o, a, p) /\ Len(r) <= 1 /\ (w \/ t.ended) /\ ~(w /\ t.ended)
    /\ Len(r) = 0 => Len(t.frame) = 0 \/ Len(o) = 0

\* What is left of message p behind the first l words: in register r and FIFO o,
\* which belongs to the streams (w) until it has been sent.  Once the first word has
\* been taken the register is empty only when the FIFO is.
Left(l, r, o, w, p) ==
    /\ l \in Nat /\ Run(r, p, l) /\ Run(o, p, l + Len(r)) /\ l + (Len(r) + Len(o)) = 1 + 2 * p.n
    /\ Len(r) <= 1 /\ w \in BOOLEAN
    /\ w => Len(r) + Len(o) # 0
    /\ Len(r) + Len(o) # 0 => w
    /\ Len(r) = 0 => l = 0 \/ Len(o) = 0

\* The reply to p, out of the memory m, has overtaken the request: the target has given
\* it all and has the rest of the request to take
Overtaken(t, p) ==
    /\ t \in Targets /\ Run(t.frame, p, 0) /\ t.frame # <<>> /\ Len(t.frame) < 1 + 2 * p.n
    /\ t.ended = FALSE /\ t.sent = p.n + 1
Draining(t, r, o, w, m, p) == Overtaken(t, p) /\ Left(Len(t.frame), r, o, w, p) /\ m = p.m

\* The whole reply to p
Whole(a, p) == Run(a, p, 0) /\ Len(a) = p.n + 1

\* Where the driver waits for the reply, where a request may still be under way, where
\* it uses FIFOs that were reset, and where it resets them
Waiting == {"poll", "arm", "sleep"}
Reading == Waiting \cup {"hdr", "data", "down"}
Ready == {"idle", "tx", "rmw", "eof", "end", "clear", "cnt", "hdr", "data", "done"} \cup Waiting
ZResetting == {"zrx", "ztx", "zset", "zarm", "zsleep"}
Resetting == {"magic", "vers", "rst", "unrst", "ien", "zrst"} \cup ZResetting

\* The message has as many words as its octets need, and they fit the FIFO
MsgInv ==
    /\ msg \in Msgs /\ nCalls \in Nat
    /\ msg.n = (msg.size + 3) \div 4 /\ 1 + 2 * msg.n <= Depth

\* What xfer() has read of the reply
XferInv ==
    /\ pc \in Ready \cup Resetting \cup {"down"}
    /\ i \in Nat /\ got \in Nat
    /\ pc \in Resetting => msg = NoMsg
    /\ pc \in {"tx", "rmw", "eof", "end", "clear", "cnt", "hdr"} \cup Waiting => rx = <<>> /\ stored = 0
    /\ pc = "tx" => i <= 2 * msg.n
    /\ pc \in {"rmw", "eof", "end"} => i = 1 + 2 * msg.n
    /\ pc = "hdr" => got = 4 * (msg.n + 1)
    /\ pc = "data" => /\ Run(rx, msg, 0) /\ Len(rx) \in 1..msg.n
                      /\ got = 4 * msg.n /\ i + 4 = 4 * Len(rx)
    /\ pc = "done" \/ (pc = "idle" /\ msg # NoMsg) => Whole(rx, msg) /\ stored = msg.size

-----------------------------------------------------------------------------
(* JtagDriverTmemFifo *)

\* The types of the hardware; the counter of words agrees with the FIFO
HwType ==
    /\ usrRst \in BOOLEAN /\ owner \in BOOLEAN /\ ien \in BOOLEAN
    /\ seq \in 0..7 /\ quiet \in 0..Gap /\ wcntReg \in Nat
    /\ out \in Seq(Words) /\ outReg \in Seq(Words) /\ inp \in Seq(Words) /\ wcntCnt = Len(inp)
    /\ tgt \in Targets
    /\ zf.rst = {} /\ zf.go = <<>>

\* Once it is asked for no more, a reset is over within Gap clocks
HwReset == (~usrRst => seq = 0 \/ seq > quiet) /\ (ien => ~usrRst /\ seq = 0)

\* A message is under way from the moment the FIFO is handed over until the last
\* word of the reply is stored and the last one of the request is taken.  While it is,
\* nobody but the streams moves a word of the request.
Sending == owner \/ tgt # Fresh

HwSending ==
    IF Sending
    THEN /\ pc \in Reading /\ ~usrRst /\ seq = 0
         /\ wcntReg = 0 => pc \notin {"hdr", "data"} /\ Moving(tgt, outReg, out, inp, owner, msg)
         /\ wcntReg # 0 => Draining(tgt, outReg, out, owner, mem, msg)
    ELSE outReg = <<>>

\* Nothing in the FIFOs
Empty == out = <<>> /\ inp = <<>> /\ wcntReg = 0

\* The reply has come, and nothing of the request is left unless its rest is under way
Replied == Whole(inp, msg) /\ wcntReg = msg.n + 1 /\ (~Sending => out = <<>>)

\* A request of n pairs that is absorbed, a word a clock, while the reply is read: h
\* words of it so far, the last one q clocks ago.  It is gone before the last is read.
Slack(q) == IF q < 2 THEN q ELSE 2
Behind(r, o, q, h, n) == (Len(r) + Len(o)) + (Slack(q) + 2 * h) <= 2 + 2 * n

\* What the FIFOs hold, by where the driver is.  In "unrst" the reset has cleared them
\* or is so young that an access cannot come before it does.
HwPc ==
    /\ pc = "unrst" => usrRst /\ (Empty \/ (seq <= 5 /\ quiet <= seq))
    /\ pc = "ien" => Empty /\ ~usrRst /\ useIrq
    /\ pc \in Ready => ~usrRst /\ ien = useIrq /\ (seq = 0 \/ Empty)
    /\ pc \in {"idle", "done"} => Empty
    /\ pc \in {"tx", "rmw", "eof"} => Run(out, msg, 0) /\ Len(out) = i /\ inp = <<>> /\ wcntReg = 0
    /\ pc = "eof" => csr.rst = FALSE /\ csr.ien = useIrq
    /\ (pc \in Waiting /\ (~Sending \/ wcntReg # 0)) \/ pc = "hdr" => Replied
    /\ pc = "data" =>
          /\ Run(inp, msg, Len(rx)) /\ Len(inp) = wcntReg /\ wcntReg + Len(rx) = msg.n + 1
          /\ IF Sending THEN Behind(outReg, out, quiet, Len(rx), msg.n) ELSE out = <<>>
    /\ pc \notin {"zrst", "end", "clear", "cnt"} \cup ZResetting

TmemInv == HwType /\ HwReset /\ HwSending /\ HwPc

-----------------------------------------------------------------------------
(* JtagDriverZynqFifo *)

\* The two sides of the vendor's FIFO, that are reset one by one
Sides == {"rx", "tx"}

ZType ==
    /\ zf \in [rst : SUBSET Sides, sta : SUBSET (Sides \cup {"rdy"}), ien : SUBSET (Sides \cup {"rdy"}),
               tx : Seq(Words), go : Seq(Words), rx : Seq(Words), cnt : Nat]
    /\ tgt \in Targets
    /\ set \subseteq Sides

\* A message is under way, as above
ZSending == zf.go # <<>> \/ tgt # Fresh

ZFlow ==
    ZSending => /\ pc \in Waiting \cup {"down"} /\ zf.rst = {} /\ zf.sta = {} /\ zf.tx = <<>>
                /\ Flow(tgt, <<>>, zf.go, zf.rx, msg)

\* A side that is reset: not yet, or its bit is set, or the driver has seen that
ZSide(z, s, x) ==
    \/ x \in z.rst /\ x \notin z.sta /\ x \notin s
    \/ x \notin z.rst /\ z[x] = <<>> /\ x \in z.sta /\ x \notin s
    \/ x \notin z.rst /\ z[x] = <<>> /\ x \notin z.sta /\ x \in s

\* What the FIFO holds, by where the driver is
ZPc ==
    /\ pc = "zrst" => set = {}
    /\ pc \in ZResetting => ZSide(zf, set, "rx") /\ ZSide(zf, set, "tx") /\ "rdy" \notin zf.sta
    /\ pc \in Ready => zf.rst = {}
    /\ pc \in {"idle", "done"} => zf.tx = <<>> /\ zf.rx = <<>> /\ zf.sta = {}
    /\ pc \in {"tx", "end"} => Run(zf.tx, msg, 0) /\ Len(zf.tx) = i /\ zf.rx = <<>> /\ zf.sta = {}
    /\ (pc \in Waiting /\ ~ZSending) \/ pc \in {"clear", "cnt", "hdr"} =>
          zf.tx = <<>> /\ Whole(zf.rx, msg) /\ zf.cnt = msg.n + 1
    /\ pc = "clear" \/ (pc \in Waiting /\ ~ZSending) => zf.sta = {"rdy"}
    /\ pc \in {"cnt", "hdr", "data"} => zf.sta = {}
    /\ pc = "data" => zf.tx = <<>> /\ Run(zf.rx, msg, Len(rx)) /\ Len(zf.rx) + Len(rx) = msg.n + 1
    /\ pc \notin {"magic", "vers", "rst", "unrst", "ien", "rmw", "eof"}

ZynqInv == ZType /\ ZFlow /\ ZPc

FifoInv ==
    /\ kind \in {"tmem", "zynq"} /\ useIrq \in BOOLEAN
    /\ MsgInv /\ XferInv
    /\ kind = "tmem" => TmemInv
    /\ kind = "zynq" => ZynqInv

-----------------------------------------------------------------------------
(* Consecutive words *)

\* A word of a message is a word.
LEMMA WordOfTypes == \A p \in Msgs, k \in Nat : WordOf(p, k) \in Words /\ WordOf(p, k).n = p.n
  BY DEF Msgs, Words, WordOf

\* No words are consecutive ones, wherever they begin.
LEMMA RunEmpty == \A p, f : Run(<<>>, p, f)
  BY DEF Run

\* Another word at the end.
LEMMA RunAppend ==
    ASSUME NEW p \in Msgs, NEW f \in Nat, NEW s, Run(s, p, f), NEW w, w = WordOf(p, f + Len(s))
    PROVE  Run(Append(s, w), p, f) /\ Len(Append(s, w)) = Len(s) + 1
  <1>1. s \in Seq(Words) /\ Len(s) \in Nat /\ \A k \in 1..Len(s) : s[k] = WordOf(p, f + (k - 1))
    BY DEF Run
  <1>2. w \in Words
    <2>1. f + Len(s) \in Nat
      BY <1>1
    <2>2. QED
      BY <2>1, WordOfTypes
  <1>3. /\ Append(s, w) \in Seq(Words) /\ Len(Append(s, w)) = Len(s) + 1
        /\ \A k \in 1..(Len(s) + 1) : Append(s, w)[k] = IF k = Len(s) + 1 THEN w ELSE s[k]
    BY <1>1, <1>2
  <1>4. ASSUME NEW k \in 1..(Len(s) + 1) PROVE Append(s, w)[k] = WordOf(p, f + (k - 1))
    <2>1. CASE k = Len(s) + 1
      <3>1. f + (k - 1) = f + Len(s)
        BY <1>1, <2>1
      <3>2. QED
        BY <1>3, <2>1, <3>1
    <2>2. CASE k # Len(s) + 1
      <3>1. k \in 1..Len(s)
        BY <1>1, <2>2
      <3>2. QED
        BY <1>1, <1>3, <2>2, <3>1
    <2>3. QED
      BY <2>1, <2>2
  <1>5. QED
    BY <1>3, <1>4 DEF Run

\* The first word is taken.
LEMMA RunTail ==
    ASSUME NEW p \in Msgs, NEW f \in Nat, NEW s, Run(s, p, f), s # <<>>
    PROVE  /\ Head(s) = WordOf(p, f) /\ Head(s) \in Words
           /\ Run(Tail(s), p, f + 1) /\ Len(s) = Len(Tail(s)) + 1 /\ Len(Tail(s)) \in Nat
  <1>1. s \in Seq(Words) /\ Len(s) \in Nat \ {0} /\ \A k \in 1..Len(s) : s[k] = WordOf(p, f + (k - 1))
    BY DEF Run
  <1>2. Head(s) = s[1] /\ Head(s) \in Words
    BY <1>1
  <1>3. /\ Tail(s) \in Seq(Words) /\ Len(Tail(s)) = Len(s) - 1
        /\ \A k \in 1..Len(Tail(s)) : Tail(s)[k] = s[k + 1]
    BY <1>1
  <1>4. Head(s) = WordOf(p, f)
    <2>1. 1 \in 1..Len(s) /\ f + (1 - 1) = f
      BY <1>1
    <2>2. QED
      BY <1>1, <1>2, <2>1
  <1>5. ASSUME NEW k \in 1..Len(Tail(s)) PROVE Tail(s)[k] = WordOf(p, f + 1 + (k - 1))
    <2>1. k + 1 \in 1..Len(s) /\ f + ((k + 1) - 1) = f + 1 + (k - 1)
      BY <1>1, <1>3
    <2>2. QED
      BY <1>1, <1>3, <2>1
  <1>6. QED
    BY <1>1, <1>2, <1>3, <1>4, <1>5 DEF Run

\* One word that goes from one place to the next.
LEMMA RunOne ==
    ASSUME NEW p \in Msgs, NEW f \in Nat
    PROVE  Run(<<WordOf(p, f)>>, p, f) /\ Len(<<WordOf(p, f)>>) = 1
  <1>1. WordOf(p, f) \in Words
    BY WordOfTypes
  <1> DEFINE w == WordOf(p, f)
  <1>2. w = WordOf(p, f) /\ w \in Words
    BY <1>1
  <1> HIDE DEF w
  <1>3. <<w>> \in Seq(Words) /\ Len(<<w>>) = 1 /\ <<w>>[1] = w
    BY <1>2
  <1>4. \A k \in 1..1 : k = 1 /\ f + (k - 1) = f
    OBVIOUS
  <1>5. Run(<<w>>, p, f)
    BY <1>2, <1>3, <1>4 DEF Run
  <1>6. QED
    BY <1>2, <1>3, <1>5

\* A register of one word holds the next one.
LEMMA RunSingle ==
    ASSUME NEW p \in Msgs, NEW f \in Nat, NEW r, Run(r, p, f), Len(r) = 1
    PROVE  r = <<WordOf(p, f)>>
  <1>1. r \in Seq(Words) /\ r[1] = WordOf(p, f)
    <2>1. r \in Seq(Words) /\ \A k \in 1..1 : r[k] = WordOf(p, f + (k - 1))
      BY DEF Run
    <2>2. 1 \in 1..1 /\ f + (1 - 1) = f
      OBVIOUS
    <2>3. QED
      BY <2>1, <2>2
  <1>2. QED
    BY <1>1

\* A sequence without words.
LEMMA NoWords ==
    ASSUME NEW s \in Seq(Words)
    PROVE  /\ Len(s) \in Nat /\ (Len(s) = 0 => s = <<>>) /\ (s = <<>> => Len(s) = 0)
           /\ s \o <<>> = s /\ \A w : s \o <<w>> = Append(s, w)
  OBVIOUS

-----------------------------------------------------------------------------
(* The target *)

\* The part of message p that the target has: whole, if it ended.
Heard(t, p) ==
    /\ t \in Targets /\ Run(t.frame, p, 0) /\ Len(t.frame) <= 1 + 2 * p.n
    /\ t.ended => Len(t.frame) = 1 + 2 * p.n
    /\ Len(t.frame) = 1 + 2 * p.n => t.ended
    /\ t.sent <= p.n

\* The target before a request.
LEMMA FreshTarget == Fresh \in Targets /\ Fresh.ended = FALSE /\ Fresh.frame = <<>> /\ Fresh.sent = 0
  BY DEF Fresh, Targets

\* A sequence of one word.
LEMMA LenOne == \A w : <<w>> # <<>> /\ Len(<<w>>) = 1
  OBVIOUS

\* A frame that is not empty says which message it is.
LEMMA FrameHead ==
    ASSUME NEW p \in Msgs, NEW f, Run(f, p, 0), f # <<>>
    PROVE  f[1] = WordOf(p, 0) /\ f[1].m = p.m /\ f[1].n = p.n
  <1>1. f \in Seq(Words) /\ Len(f) \in Nat \ {0} /\ \A k \in 1..Len(f) : f[k] = WordOf(p, 0 + (k - 1))
    BY DEF Run
  <1>2. f[1] = WordOf(p, 0)
    <2>1. 1 \in 1..Len(f) /\ 0 + (1 - 1) = 0
      BY <1>1
    <2>2. QED
      BY <1>1, <2>1
  <1>3. QED
    BY <1>2 DEF WordOf, Msgs

\* What the target gives is the next word of the reply.
LEMMA GivenNext ==
    ASSUME NEW p \in Msgs, Heard(tgt, p), CanGive
    PROVE  /\ Given = WordOf(p, tgt.sent) /\ Pairs = p.n /\ tgt.sent \in Nat
           /\ GivenLast => tgt.sent = p.n /\ (tgt.ended = TRUE \/ mem = p.m)
           /\ ~GivenLast => tgt.sent < p.n
           /\ Given.m = p.m /\ tgt.frame # <<>>
  <1>1. /\ tgt \in Targets /\ tgt.frame # <<>> /\ Run(tgt.frame, p, 0) /\ tgt.sent \in Nat /\ p.n \in Nat
        /\ Len(tgt.frame) <= 1 + 2 * p.n /\ tgt.sent <= p.n
        /\ (tgt.frame[1].m = mem \/ Len(tgt.frame) > 2 * tgt.sent) /\ tgt.ended \in BOOLEAN
        /\ Len(tgt.frame) = 1 + 2 * p.n => tgt.ended
        /\ Len(tgt.frame) \in Nat
    BY DEF Heard, CanGive, Replaying, Targets, Msgs
  <1>2. Pairs = p.n /\ Given = WordOf(p, tgt.sent) /\ tgt.frame[1].m = p.m /\ Given.m = p.m
    BY <1>1, FrameHead DEF Pairs, Given, WordOf
  <1>3. ASSUME tgt.sent = p.n PROVE tgt.ended = TRUE \/ mem = p.m
    <2>1. CASE tgt.frame[1].m = mem
      BY <1>2, <2>1
    <2>2. CASE Len(tgt.frame) > 2 * tgt.sent
      <3>1. Len(tgt.frame) = 1 + 2 * p.n
        BY <1>1, <1>3, <2>2
      <3>2. QED
        BY <1>1, <3>1
    <2>3. QED
      BY <1>1, <2>1, <2>2
  <1>4. tgt.sent # p.n => tgt.sent < p.n
    BY <1>1
  <1>5. QED
    BY <1>1, <1>2, <1>3, <1>4 DEF GivenLast

\* The target has the whole request and has answered it: only the last word of the
\* request may come in the same clock as that of the reply.
Finished(t, f, words, p) == t = Fresh /\ Len(f) + Len(words) = 1 + 2 * p.n

\* After words of the message, the last of them marked, and a word of the reply the
\* target has more of both, or it is done, or the reply has overtaken the request.
LEMMA TargetStep ==
    ASSUME NEW p \in Msgs, Heard(tgt, p), NEW words, NEW last \in BOOLEAN, NEW give \in BOOLEAN,
           \/ words = <<>>
           \/ /\ words = <<WordOf(p, Len(tgt.frame))>> /\ Len(tgt.frame) < 1 + 2 * p.n
              /\ last => Len(tgt.frame) = 2 * p.n
              /\ Len(tgt.frame) = 2 * p.n => last,
           give => CanGive, Target(words, last, give)
    PROVE  /\ give /\ tgt.sent = p.n =>
                 \/ Finished(tgt', tgt.frame, words, p)
                 \/ /\ Overtaken(tgt', p) /\ mem' = p.m /\ tgt.ended = FALSE
                    /\ Len(tgt'.frame) = Len(tgt.frame) + Len(words)
           /\ ~(give /\ tgt.sent = p.n) =>
                 /\ Heard(tgt', p) /\ Len(tgt'.frame) = Len(tgt.frame) + Len(words)
                 /\ tgt'.sent = IF give THEN tgt.sent + 1 ELSE tgt.sent
  <1> DEFINE e == tgt.ended \/ (words # <<>> /\ last)
             s == IF give THEN tgt.sent + 1 ELSE tgt.sent
             t == [frame |-> tgt.frame \o words, ended |-> e, sent |-> s]
  <1>1. /\ tgt \in Targets /\ Run(tgt.frame, p, 0) /\ tgt.sent \in Nat /\ p.n \in Nat
        /\ Len(tgt.frame) <= 1 + 2 * p.n /\ tgt.sent <= p.n
        /\ tgt.ended => Len(tgt.frame) = 1 + 2 * p.n
        /\ Len(tgt.frame) = 1 + 2 * p.n => tgt.ended
        /\ Len(tgt.frame) \in Nat
        /\ tgt.frame \in Seq(Words) /\ tgt.ended \in BOOLEAN
    BY DEF Heard, Targets, Msgs
  <1>2. /\ Run(tgt.frame \o words, p, 0) /\ Len(tgt.frame \o words) = Len(tgt.frame) + Len(words)
        /\ Len(words) \in {0, 1} /\ Len(tgt.frame) + Len(words) <= 1 + 2 * p.n
    <2>1. CASE words = <<>>
      BY <1>1, <2>1, NoWords
    <2>2. CASE /\ words = <<WordOf(p, Len(tgt.frame))>> /\ Len(tgt.frame) < 1 + 2 * p.n
      <3>1. tgt.frame \o words = Append(tgt.frame, WordOf(p, Len(tgt.frame))) /\ Len(words) = 1
        BY <1>1, <2>2, NoWords
      <3>2. 0 \in Nat /\ WordOf(p, Len(tgt.frame)) = WordOf(p, 0 + Len(tgt.frame))
        BY <1>1
      <3>3. Run(Append(tgt.frame, WordOf(p, Len(tgt.frame))), p, 0)
            /\ Len(Append(tgt.frame, WordOf(p, Len(tgt.frame)))) = Len(tgt.frame) + 1
        BY <1>1, <3>2, RunAppend
      <3>4. Len(tgt.frame) + 1 <= 1 + 2 * p.n
        BY <1>1, <2>2
      <3>5. QED
        BY <3>1, <3>3, <3>4
    <2>3. QED
      BY <2>1, <2>2
  <1>3. /\ e \in BOOLEAN
        /\ e => Len(tgt.frame) + Len(words) = 1 + 2 * p.n
        /\ Len(tgt.frame) + Len(words) = 1 + 2 * p.n => e
    <2>1. CASE words = <<>>
      <3>1. Len(words) = 0 /\ Len(tgt.frame) + 0 = Len(tgt.frame)
        BY <1>1, <2>1
      <3>2. QED
        BY <1>1, <2>1, <3>1
    <2>2. CASE /\ words = <<WordOf(p, Len(tgt.frame))>> /\ Len(tgt.frame) < 1 + 2 * p.n
               /\ last => Len(tgt.frame) = 2 * p.n
               /\ Len(tgt.frame) = 2 * p.n => last
      <3>1. words # <<>> /\ Len(words) = 1
        BY <2>2, Zenon, LenOne
      <3>2. ~tgt.ended
        BY <1>1, <2>2
      <3>3. /\ Len(tgt.frame) = 2 * p.n => Len(tgt.frame) + 1 = 1 + 2 * p.n
            /\ Len(tgt.frame) + 1 = 1 + 2 * p.n => Len(tgt.frame) = 2 * p.n
        <4>1. \A l, k \in Nat : (l = 2 * k => l + 1 = 1 + 2 * k) /\ (l + 1 = 1 + 2 * k => l = 2 * k)
          OBVIOUS
        <4>2. Len(tgt.frame) \in Nat /\ p.n \in Nat
          BY <1>1
        <4>3. QED
          BY <4>1, <4>2
      <3>4. (e => last) /\ (last => e) /\ e \in BOOLEAN
        BY <1>1, <3>1, <3>2
      <3> HIDE DEF e
      <3>5. QED
        BY <2>2, <3>1, <3>3, <3>4
    <2>3. QED
      BY <2>1, <2>2
  <1>4. tgt' = IF e /\ s > (tgt.frame \o words)[1].n THEN Fresh ELSE t
    BY DEF Target
  <1>5. e => (tgt.frame \o words)[1].n = p.n
    <2>1. e => tgt.frame \o words # <<>>
      BY <1>1, <1>2, <1>3
    <2>2. QED
      BY <1>2, <2>1, FrameHead
  <1>6. s \in Nat
    BY <1>1
  <1>7. ASSUME give, tgt.sent = p.n
        PROVE  \/ Finished(tgt', tgt.frame, words, p)
               \/ /\ Overtaken(tgt', p) /\ mem' = p.m /\ tgt.ended = FALSE
                  /\ Len(tgt'.frame) = Len(tgt.frame) + Len(words)
    <2>1. /\ tgt.ended = TRUE \/ mem = p.m
          /\ Given.m = p.m /\ tgt.frame # <<>>
      BY <1>7, GivenNext DEF GivenLast
    <2>2. s = p.n + 1 /\ s > p.n
      BY <1>1, <1>7
    <2>3. CASE e
      <3>1. tgt' = Fresh
        BY <1>4, <1>5, <2>2, <2>3
      <3>2. QED
        BY <1>3, <2>3, <3>1 DEF Finished
    <2>4. CASE ~e
      <3>1. mem' = p.m
        <4>1. tgt.ended = FALSE
          BY <1>1, <2>4
        <4>2. mem = p.m
          BY <2>1, <4>1
        <4>3. mem' = IF give /\ GivenLast /\ Pairs > 0 THEN Given.m ELSE mem
          BY <2>1 DEF Target, Remembered
        <4>4. QED
          BY <2>1, <4>2, <4>3
      <3>2. tgt' = t
        BY <1>4, <2>4
      <3> HIDE DEF e, s
      <3>3. t.frame = tgt.frame \o words /\ t.ended = e /\ t.sent = s
        OBVIOUS
      <3>4. t \in Targets
        BY <1>2, <1>3, <1>6 DEF Targets, Run
      <3>5. Len(tgt.frame) # 0
        BY <1>1, <2>1, NoWords
      <3> HIDE DEF t
      <3>6. t.frame # <<>> /\ Len(t.frame) < 1 + 2 * p.n
        <4>1. Len(tgt.frame) + Len(words) # 1 + 2 * p.n
          BY <1>3, <2>4
        <4>2. Len(words) \in Nat /\ Len(t.frame) = Len(tgt.frame) + Len(words) /\ Len(<<>>) = 0
          BY <1>2, <3>3
        <4>3. Len(t.frame) # 0
          <5> DEFINE x == Len(tgt.frame)
                     y == Len(words)
          <5>1. x \in Nat /\ y \in Nat /\ x # 0 /\ Len(t.frame) = x + y
            BY <1>1, <3>5, <4>2
          <5> HIDE DEF x, y
          <5>2. QED
            BY <5>1
        <4>4. t.frame # <<>>
          BY <4>2, <4>3
        <4>5. Len(t.frame) < 1 + 2 * p.n
          <5> DEFINE x == Len(tgt.frame) + Len(words)
                     y == 1 + 2 * p.n
          <5>1. x \in Nat /\ y \in Nat /\ x # y /\ Len(t.frame) = x /\ x <= y
            BY <1>1, <1>2, <4>1, <4>2
          <5> HIDE DEF x, y
          <5>2. Len(t.frame) < y
            BY <5>1
          <5>3. QED
            BY <5>2 DEF y
        <4>6. QED
          BY <4>4, <4>5
      <3>7. Overtaken(t, p)
        BY <1>2, <1>3, <2>2, <2>4, <3>3, <3>4, <3>6 DEF Overtaken
      <3>8. tgt.ended = FALSE
        BY <1>1, <2>4 DEF e
      <3>9. QED
        BY <1>2, <3>1, <3>2, <3>3, <3>7, <3>8
    <2>5. QED
      BY <2>3, <2>4
  <1>8. ASSUME ~(give /\ tgt.sent = p.n)
        PROVE  /\ Heard(tgt', p) /\ Len(tgt'.frame) = Len(tgt.frame) + Len(words) /\ tgt'.sent = s
    <2>1. s <= p.n
      BY <1>1, <1>8
    <2> HIDE DEF e, s
    <2>2. tgt' = t
      <3>1. ~(s > p.n)
        BY <1>1, <1>6, <2>1
      <3>2. ~(e /\ s > (tgt.frame \o words)[1].n)
        BY <1>5, <3>1
      <3>3. QED
        BY <1>4, <3>2
    <2>3. t.frame = tgt.frame \o words /\ t.ended = e /\ t.sent = s
      OBVIOUS
    <2>4. t \in Targets
      BY <1>2, <1>3, <1>6 DEF Targets, Run
    <2> HIDE DEF t
    <2>5. Heard(t, p)
      BY <1>2, <1>3, <2>1, <2>3, <2>4 DEF Heard
    <2>6. QED
      BY <1>2, <2>2, <2>3, <2>5
  <1>9. QED
    BY <1>7, <1>8

-----------------------------------------------------------------------------
(* A clock of the TMEM hardware while a message is under way *)

\* Sums of lengths.
LEMMA Parts ==
    ASSUME NEW a \in Nat, NEW b \in Nat, NEW c \in Nat, NEW n \in Nat, a + (b + c) = 1 + 2 * n
    PROVE  /\ a <= 1 + 2 * n
           /\ b + c = 0 => a = 1 + 2 * n
           /\ a = 1 + 2 * n => b + c = 0
  OBVIOUS

\* What a register for one word can hold.
LEMMA ZeroOrOne ==
    ASSUME NEW a \in Nat, a <= 1
    PROVE  a \in {0, 1}
  OBVIOUS

\* A message under way: what the target has heard of it, and what is left of it.
LEMMA FlowParts ==
    ASSUME MsgInv, HwType, Moving(tgt, outReg, out, inp, owner, msg)
    PROVE  /\ msg \in Msgs /\ Heard(tgt, msg) /\ Left(Len(tgt.frame), outReg, out, owner, msg)
           /\ Run(inp, msg, 0) /\ Len(inp) = tgt.sent /\ tgt.sent \in Nat
  <1>1. /\ msg \in Msgs /\ msg.n \in Nat /\ tgt \in Targets /\ tgt.frame \in Seq(Words)
        /\ tgt.ended \in BOOLEAN /\ tgt.sent \in Nat /\ owner \in BOOLEAN
    BY DEF MsgInv, HwType, Targets, Msgs
  <1>2. /\ Run(tgt.frame, msg, 0) /\ Run(outReg, msg, Len(tgt.frame))
        /\ Run(out, msg, Len(tgt.frame) + Len(outReg))
        /\ Len(tgt.frame) + (Len(outReg) + Len(out)) = 1 + 2 * msg.n
        /\ Len(outReg) + Len(out) = 0 => tgt.ended
        /\ tgt.ended => Len(outReg) + Len(out) = 0
        /\ tgt.sent <= msg.n /\ Run(inp, msg, 0) /\ Len(inp) = tgt.sent
    BY DEF Flow, Moving
  <1>3. Len(tgt.frame) \in Nat /\ Len(outReg) \in Nat /\ Len(out) \in Nat
    BY <1>1, <1>2 DEF Run
  <1>4. /\ Len(tgt.frame) <= 1 + 2 * msg.n
        /\ Len(outReg) + Len(out) = 0 => Len(tgt.frame) = 1 + 2 * msg.n
        /\ Len(tgt.frame) = 1 + 2 * msg.n => Len(outReg) + Len(out) = 0
    BY <1>1, <1>2, <1>3, Parts
  <1>5. Heard(tgt, msg)
    BY <1>1, <1>2, <1>4 DEF Heard
  <1>6. Left(Len(tgt.frame), outReg, out, owner, msg)
    BY <1>1, <1>2, <1>3 DEF Left, Moving
  <1>7. QED
    BY <1>1, <1>2, <1>5, <1>6

\* And back.
LEMMA PartsFlow ==
    ASSUME NEW p \in Msgs, NEW t, NEW r, NEW o, NEW a, NEW w,
           Heard(t, p), Left(Len(t.frame), r, o, w, p), Run(a, p, 0), Len(a) = t.sent
    PROVE  Moving(t, r, o, a, w, p)
  <1>1. /\ t.sent <= p.n /\ Run(t.frame, p, 0) /\ Len(t.frame) <= 1 + 2 * p.n
        /\ t.ended => Len(t.frame) = 1 + 2 * p.n
        /\ Len(t.frame) = 1 + 2 * p.n => t.ended
    BY DEF Heard
  <1>2. /\ Run(r, p, Len(t.frame)) /\ Run(o, p, Len(t.frame) + Len(r)) /\ Len(r) <= 1
        /\ Len(t.frame) + (Len(r) + Len(o)) = 1 + 2 * p.n /\ Len(t.frame) \in Nat
        /\ w => Len(r) + Len(o) # 0
        /\ Len(r) + Len(o) # 0 => w
        /\ Len(r) = 0 => Len(t.frame) = 0 \/ Len(o) = 0
    BY DEF Left
  <1>3. Len(r) \in Nat /\ Len(o) \in Nat /\ p.n \in Nat
    BY <1>2 DEF Run, Msgs
  <1>4. /\ Len(r) + Len(o) = 0 => Len(t.frame) = 1 + 2 * p.n
        /\ Len(t.frame) = 1 + 2 * p.n => Len(r) + Len(o) = 0
    <2>1. Len(t.frame) + (Len(r) + Len(o)) = 1 + 2 * p.n /\ Len(t.frame) \in Nat
      BY <1>2
    <2> DEFINE a0 == Len(t.frame)
               b0 == Len(r)
               c0 == Len(o)
               n0 == p.n
    <2>2. a0 \in Nat /\ b0 \in Nat /\ c0 \in Nat /\ n0 \in Nat /\ a0 + (b0 + c0) = 1 + 2 * n0
      BY <1>3, <2>1
    <2> HIDE DEF a0, b0, c0, n0
    <2>3. /\ b0 + c0 = 0 => a0 = 1 + 2 * n0
          /\ a0 = 1 + 2 * n0 => b0 + c0 = 0
      BY <2>2
    <2>4. QED
      BY <2>3 DEF a0, b0, c0, n0
  <1>5. QED
    BY <1>1, <1>2, <1>4 DEF Flow, Moving

\* The outgoing FIFO, its output register and the handshake.
OutClock(take, words) ==
    /\ outReg' = IF outReg # <<>> /\ ~take THEN outReg
                 ELSE IF fifoOutRDEN(take) THEN <<Head(out)>> ELSE <<>>
    /\ out' = IF fifoOutRDEN(take) THEN Tail(out) ELSE out
    /\ owner' = IF Released(take) THEN FALSE ELSE owner
    /\ words = IF take THEN outReg ELSE <<>>

\* A clock moves at most one word from the FIFO to the register and on to the target.
LEMMA OutStep ==
    ASSUME NEW p \in Msgs, NEW l, Left(l, outReg, out, owner, p), NEW take \in BOOLEAN, seq = 0,
           take => owner,
           NEW words, OutClock(take, words)
    PROVE  /\ Left(l + Len(words), outReg', out', owner', p) /\ Len(words) \in {0, 1}
           /\ \/ words = <<>>
              \/ /\ words = <<WordOf(p, l)>> /\ l < 1 + 2 * p.n
                 /\ fifoOutEmpty => l = 2 * p.n
                 /\ l = 2 * p.n => fifoOutEmpty
  <1>1. /\ l \in Nat /\ Run(outReg, p, l) /\ Run(out, p, l + Len(outReg)) /\ p.n \in Nat
        /\ l + (Len(outReg) + Len(out)) = 1 + 2 * p.n /\ Len(outReg) <= 1 /\ owner \in BOOLEAN
        /\ owner => Len(outReg) + Len(out) # 0
        /\ Len(outReg) + Len(out) # 0 => owner
        /\ Len(outReg) = 0 => l = 0 \/ Len(out) = 0
    BY DEF Left, Msgs
  <1>2. outReg \in Seq(Words) /\ out \in Seq(Words) /\ Len(outReg) \in Nat /\ Len(out) \in Nat
    BY <1>1 DEF Run
  <1>3. fifoOutRDEN(take) = (owner /\ out # <<>> /\ (outReg = <<>> \/ take))
    BY DEF fifoOutRDEN, fifoOutEmpty, rstInProg
  <1>4. CASE outReg = <<>> /\ out = <<>>
    <2>1. ~owner /\ words = <<>> /\ outReg' = <<>> /\ out' = <<>> /\ owner' = owner /\ Len(words) = 0
      BY <1>1, <1>2, <1>3, <1>4, NoWords DEF Released, OutClock
    <2>2. l + 0 = l
      BY <1>1
    <2>3. QED
      BY <1>4, <2>1, <2>2
  <1>5. CASE outReg = <<>> /\ out # <<>>
    <2>1. /\ words = <<>> /\ outReg' = <<Head(out)>> /\ out' = Tail(out) /\ owner' = owner /\ owner
          /\ Len(words) = 0 /\ Len(outReg) = 0
      <3>1. Len(outReg) = 0 /\ Len(out) # 0
        BY <1>2, <1>5, NoWords
      <3>2. owner
        BY <1>1, <1>2, <3>1
      <3>3. words = <<>> /\ fifoOutRDEN(take)
        BY <1>3, <1>5, <3>2 DEF OutClock
      <3>4. QED
        BY <1>5, <3>1, <3>2, <3>3 DEF Released, OutClock
    <2>2. Run(out, p, l)
      <3>1. l + Len(outReg) = l
        BY <1>1, <2>1
      <3>2. QED
        BY <1>1, <3>1
    <2>3. Head(out) = WordOf(p, l) /\ Run(Tail(out), p, l + 1) /\ Len(out) = Len(Tail(out)) + 1
          /\ Len(Tail(out)) \in Nat
      BY <1>1, <1>5, <2>2, RunTail
    <2>4. Run(outReg', p, l) /\ Len(outReg') = 1
      BY <1>1, <2>1, <2>3, RunOne
    <2>5. l + (1 + Len(Tail(out))) = 1 + 2 * p.n /\ l + 0 = l /\ 1 + Len(Tail(out)) # 0 /\ 1 <= 1
      BY <1>1, <1>2, <2>1, <2>3
    <2>6. Left(l, outReg', out', owner', p)
      <3>1. Len(outReg') # 0
        BY <2>4
      <3>2. QED
        BY <1>1, <2>1, <2>3, <2>4, <2>5, <3>1 DEF Left
    <2>7. QED
      BY <2>1, <2>5, <2>6
  <1>6. CASE outReg # <<>> /\ ~take
    <2>1. words = <<>> /\ outReg' = outReg /\ out' = out /\ owner' = owner /\ Len(words) = 0
      BY <1>3, <1>6 DEF Released, OutClock
    <2>2. l + 0 = l
      BY <1>1
    <2>3. QED
      BY <2>1, <2>2
  <1>7. CASE outReg # <<>> /\ take
    <2>1. Len(outReg) = 1
      <3>1. Len(outReg) # 0
        BY <1>2, <1>7, NoWords
      <3>2. Len(outReg) \in Nat /\ Len(outReg) <= 1
        BY <1>1, <1>2
      <3>3. QED
        BY <3>1, <3>2, ZeroOrOne
    <2>2. outReg = <<WordOf(p, l)>> /\ words = outReg /\ Len(words) = 1
      BY <1>1, <1>7, <2>1, RunSingle DEF OutClock
    <2>3. l + Len(outReg) = l + 1 /\ Len(out) = 0 + Len(out) /\ l < 1 + 2 * p.n
      BY <1>1, <1>2, <2>1
    <2>4. /\ fifoOutEmpty => l = 2 * p.n
          /\ l = 2 * p.n => fifoOutEmpty
      <3>1. /\ Len(out) = 0 => l = 2 * p.n
            /\ l = 2 * p.n => Len(out) = 0
        <4> DEFINE x == Len(out)
                   y == p.n
        <4>1. l \in Nat /\ x \in Nat /\ y \in Nat /\ l + (1 + x) = 1 + 2 * y
          BY <1>1, <1>2, <2>1
        <4> HIDE DEF x, y
        <4>2. (x = 0 => l = 2 * y) /\ (l = 2 * y => x = 0)
          BY <4>1
        <4>3. QED
          BY <4>2 DEF x, y
      <3>2. QED
        BY <1>2, <3>1, NoWords DEF fifoOutEmpty
    <2>5. CASE out = <<>>
      <3>1. outReg' = <<>> /\ out' = <<>> /\ owner' = FALSE
        BY <1>3, <1>7, <2>5 DEF Released, fifoOutEmpty, OutClock
      <3>2. Len(out) = 0
        BY <2>5
      <3>3. l + 1 \in Nat /\ (l + 1) + (0 + 0) = 1 + 2 * p.n /\ 0 + 0 = 0 /\ 0 <= 1
        BY <1>1, <2>1, <3>2
      <3>4. Left(l + 1, <<>>, <<>>, FALSE, p)
        <4>1. Len(<<>>) = 0
          OBVIOUS
        <4>2. QED
          BY <3>3, <4>1, RunEmpty DEF Left
      <3>5. QED
        BY <2>2, <2>3, <2>4, <3>1, <3>4
    <2>6. CASE out # <<>>
      <3>1. owner /\ outReg' = <<Head(out)>> /\ out' = Tail(out) /\ owner' = owner
        BY <1>3, <1>7, <2>6 DEF Released, fifoOutEmpty, OutClock
      <3>2. Run(out, p, l + 1) /\ l + 1 \in Nat
        BY <1>1, <2>3
      <3>3. Head(out) = WordOf(p, l + 1) /\ Run(Tail(out), p, (l + 1) + 1) /\ Len(out) = Len(Tail(out)) + 1
            /\ Len(Tail(out)) \in Nat
        BY <2>6, <3>2, RunTail
      <3>4. Run(outReg', p, l + 1) /\ Len(outReg') = 1
        BY <3>1, <3>2, <3>3, RunOne
      <3>5. (l + 1) + (1 + Len(Tail(out))) = 1 + 2 * p.n /\ 1 + Len(Tail(out)) # 0 /\ 1 <= 1
        <4>1. l + (1 + Len(out)) = 1 + 2 * p.n /\ 1 + 2 * p.n \in Nat
          BY <1>1, <2>1
        <4>2. /\ l \in Nat /\ Len(out) \in Nat /\ Len(Tail(out)) \in Nat
              /\ Len(out) = Len(Tail(out)) + 1
          BY <1>1, <1>2, <3>3
        <4>3. (l + 1) + (1 + Len(Tail(out))) = 1 + 2 * p.n
          <5> DEFINE d0 == Len(Tail(out))
                     b0 == Len(out)
                     c0 == 1 + 2 * p.n
          <5>1. l \in Nat /\ b0 \in Nat /\ d0 \in Nat /\ c0 \in Nat /\ l + (1 + b0) = c0 /\ b0 = d0 + 1
            BY <4>1, <4>2
          <5> HIDE DEF b0, c0, d0
          <5>2. (l + 1) + (1 + d0) = c0
            BY <5>1
          <5>3. QED
            BY <5>2 DEF c0, d0
        <4>4. 1 + Len(Tail(out)) # 0 /\ 1 <= 1
          BY <4>2
        <4>5. QED
          BY <4>3, <4>4
      <3>6. Left(l + 1, outReg', out', owner', p)
        <4>1. Run(out', p, (l + 1) + Len(outReg')) /\ owner' \in BOOLEAN /\ owner'
          <5>1. (l + 1) + Len(outReg') = (l + 1) + 1
            BY <3>4
          <5>2. Run(Tail(out), p, (l + 1) + Len(outReg'))
            BY <3>3, <5>1, Zenon
          <5>3. owner \in BOOLEAN
            BY <1>1
          <5>4. QED
            BY <3>1, <5>2, <5>3, Zenon
        <4>2. Len(outReg') + Len(out') = 1 + Len(Tail(out))
          BY <3>1, <3>4
        <4>3. Len(outReg') # 0
          BY <3>4
        <4>4. QED
          BY <3>2, <3>4, <3>5, <4>1, <4>2, <4>3 DEF Left
      <3>7. QED
        BY <2>2, <2>3, <2>4, <3>6
    <2>7. QED
      BY <2>5, <2>6
  <1>8. QED
    BY <1>4, <1>5, <1>6, <1>7

\* Once all of it is sent nothing is left.
LEMMA NoneLeft ==
    ASSUME NEW p \in Msgs, NEW l, NEW r, NEW o, NEW w, Left(l, r, o, w, p), l = 1 + 2 * p.n
    PROVE  r = <<>> /\ o = <<>> /\ w = FALSE
  <1>1. /\ l \in Nat /\ r \in Seq(Words) /\ o \in Seq(Words) /\ l + (Len(r) + Len(o)) = 1 + 2 * p.n
        /\ w \in BOOLEAN /\ (w => Len(r) + Len(o) # 0)
    BY DEF Left, Run
  <1>2. Len(r) \in Nat /\ Len(o) \in Nat
    BY <1>1
  <1> DEFINE x == Len(r)
             y == Len(o)
  <1>3. l \in Nat /\ x \in Nat /\ y \in Nat /\ l + (x + y) = l
    BY <1>1, <1>2
  <1>4. x = 0 /\ y = 0 /\ x + y = 0
    <2> HIDE DEF x, y
    <2>1. QED
      BY <1>3
  <1>5. QED
    BY <1>1, <1>4, NoWords

\* The bus reads the status register, or does nothing.
Idling(bus) == bus.op \notin {"wcsr", "wdat", "rdat"}

\* The incoming FIFO, with its counters.
InClock(w, last) ==
    /\ inp' = IF w # <<>> THEN inp \o w ELSE inp
    /\ wcntCnt' = IF w # <<>> THEN wcntCnt + 1 ELSE wcntCnt
    /\ wcntReg' = IF w # <<>> /\ last THEN wcntCnt + 1 ELSE wcntReg

\* A clock outside a reset, without an access that changes anything: the two sides apart.
LEMMA IdlingClock ==
    ASSUME seq = 0, usrRst = FALSE, NEW bus, Idling(bus), NEW inw, NEW last \in BOOLEAN, wcntCnt \in Nat,
           NEW take \in BOOLEAN, TmemClock(bus, inw, last, take)
    PROVE  /\ usrRst' = FALSE /\ seq' = 0 /\ ien' = ien
           /\ OutClock(take, IF take THEN outReg ELSE <<>>)
           /\ InClock(IF tReadyInp THEN inw ELSE <<>>, last)
  <1>1. ~aRst /\ ~rstInProg
    BY DEF aRst, rstInProg
  <1>2. /\ P_RESET /\ usrRst' = (IF bus.op = "wcsr" THEN bus.rst ELSE usrRst)
        /\ Registers(bus, inw, last, take) /\ Macros(bus, inw, take)
    BY <1>1 DEF TmemClock
  <1>3. usrRst' = FALSE /\ seq' = 0
    BY <1>1, <1>2 DEF P_RESET, Idling
  <1>4. ~tmemRDEN(bus) /\ ~fifoInpRDEN(bus) /\ ~fifoOutWREN(bus)
    BY DEF tmemRDEN, fifoInpRDEN, fifoOutWREN, Idling
  <1>5. /\ outReg' = IF outReg # <<>> /\ ~take THEN outReg
                     ELSE IF fifoOutRDEN(take) THEN <<Head(out)>> ELSE <<>>
        /\ wcntCnt' = wcntCnt + (IF fifoInpWREN(inw) THEN 1 ELSE 0) - 0
        /\ wcntReg' = IF fifoInpWREN(inw) /\ last THEN wcntCnt + 1 ELSE wcntReg
        /\ owner' = IF Released(take) THEN FALSE ELSE owner
        /\ ien' = ien
    BY <1>2, <1>4 DEF Registers, Idling
  <1>6. /\ out' = IF fifoOutRDEN(take) THEN Tail(out) ELSE out
        /\ inp' = IF fifoInpWREN(inw) THEN inp \o inw ELSE inp
    BY <1>2, <1>4 DEF Macros
  <1>7. OutClock(take, IF take THEN outReg ELSE <<>>)
    BY <1>5, <1>6, Zenon DEF OutClock
  <1>8. InClock(IF tReadyInp THEN inw ELSE <<>>, last)
    <2>1. CASE fifoInpWREN(inw)
      <3>1. tReadyInp /\ inw # <<>>
        BY <2>1 DEF fifoInpWREN
      <3>2. wcntCnt' = wcntCnt + 1
        BY <1>5, <2>1
      <3>3. QED
        BY <1>5, <1>6, <2>1, <3>1, <3>2 DEF InClock
    <2>2. CASE ~fifoInpWREN(inw)
      <3>1. (IF tReadyInp THEN inw ELSE <<>>) = <<>>
        BY <1>1, <2>2 DEF fifoInpWREN
      <3>2. wcntCnt' = wcntCnt
        BY <1>5, <2>2
      <3>3. inp' = inp /\ wcntReg' = wcntReg
        BY <1>5, <1>6, <2>2
      <3>4. InClock(<<>>, last)
        BY <3>2, <3>3 DEF InClock
      <3>5. QED
        BY <3>1, <3>4, Zenon
    <2>3. QED
      BY <2>1, <2>2
  <1>9. QED
    BY <1>3, <1>5, <1>7, <1>8

\* A message is under way, or its reply has come, and has overtaken it or not.
UnderWay(t, r, o, a, w, c, p) == Moving(t, r, o, a, w, p) /\ c = 0
Gone(t, r, o, w) == t = Fresh /\ w = FALSE /\ r = <<>> /\ o = <<>>
Arrived(t, r, o, a, w, c, m, p) ==
    Whole(a, p) /\ c = p.n + 1 /\ (Gone(t, r, o, w) \/ Draining(t, r, o, w, m, p))

\* One clock while the message or its reply is under way.
LEMMA SendingClock ==
    ASSUME MsgInv, HwType, HwSending, Sending, wcntReg = 0,
           NEW bus, Idling(bus), NEW take \in BOOLEAN, NEW give \in BOOLEAN, Clock(bus, take, give)
    PROVE  /\ usrRst' = FALSE /\ seq' = 0 /\ ien' = ien
           /\ out' \in Seq(Words) /\ outReg' \in Seq(Words) /\ inp' \in Seq(Words) /\ owner' \in BOOLEAN
           /\ wcntCnt' = Len(inp') /\ tgt' \in Targets
           /\ \/ UnderWay(tgt', outReg', out', inp', owner', wcntReg', msg)
              \/ Arrived(tgt', outReg', out', inp', owner', wcntReg', mem', msg)
  <1> DEFINE w == IF take THEN outReg ELSE <<>>
             g == IF give THEN <<Given>> ELSE <<>>
             v == IF tReadyInp THEN g ELSE <<>>
             last == give /\ GivenLast
             l == Len(tgt.frame)
  <1>1. /\ usrRst = FALSE /\ seq = 0 /\ wcntReg = 0 /\ Moving(tgt, outReg, out, inp, owner, msg)
        /\ ~(owner /\ tgt.ended) /\ wcntCnt = Len(inp) /\ inp \in Seq(Words) /\ wcntCnt \in Nat
        /\ owner \/ tgt.ended
    BY DEF HwSending, HwType, Moving
  <1>2. /\ msg \in Msgs /\ Heard(tgt, msg) /\ Left(l, outReg, out, owner, msg)
        /\ Run(inp, msg, 0) /\ Len(inp) = tgt.sent /\ tgt.sent \in Nat
    BY <1>1, FlowParts
  <1>3. /\ take => CanTake
        /\ give => CanGive
        /\ TmemClock(bus, g, last, take)
        /\ Target(w, fifoOutEmpty, give /\ tReadyInp)
    BY DEF Clock
  <1>4. last \in BOOLEAN /\ fifoOutEmpty \in BOOLEAN /\ (give /\ tReadyInp) \in BOOLEAN
    BY DEF GivenLast, fifoOutEmpty
  <1>5. /\ usrRst' = FALSE /\ seq' = 0 /\ ien' = ien /\ OutClock(take, w) /\ InClock(v, last)
    <2> HIDE DEF g, last
    <2>1. TmemClock(bus, g, last, take) /\ last \in BOOLEAN
      BY <1>3, <1>4
    <2>2. QED
      BY <1>1, <2>1, IdlingClock
  <1> HIDE DEF w, g, v, last
  <1>6. take => owner
    BY <1>1, <1>3 DEF CanTake
  <1>7. /\ Left(l + Len(w), outReg', out', owner', msg) /\ Len(w) \in {0, 1}
        /\ \/ w = <<>>
           \/ /\ w = <<WordOf(msg, l)>> /\ l < 1 + 2 * msg.n
              /\ fifoOutEmpty => l = 2 * msg.n
              /\ l = 2 * msg.n => fifoOutEmpty
    BY <1>1, <1>2, <1>5, <1>6, OutStep
  <1> DEFINE gv == give /\ tReadyInp
  <1>8. /\ gv \in BOOLEAN /\ (gv => CanGive) /\ Target(w, fifoOutEmpty, gv)
    BY <1>3, <1>4
  <1>9. v = (IF gv THEN <<Given>> ELSE <<>>) /\ (gv => last = GivenLast)
    BY DEF v, g, last, GivenLast
  <1> HIDE DEF gv
  <1>10. /\ gv /\ tgt.sent = msg.n =>
              \/ Finished(tgt', tgt.frame, w, msg)
              \/ /\ Overtaken(tgt', msg) /\ mem' = msg.m /\ tgt.ended = FALSE
                 /\ Len(tgt'.frame) = Len(tgt.frame) + Len(w)
         /\ ~(gv /\ tgt.sent = msg.n) =>
                 /\ Heard(tgt', msg) /\ Len(tgt'.frame) = Len(tgt.frame) + Len(w)
                 /\ tgt'.sent = IF gv THEN tgt.sent + 1 ELSE tgt.sent
    BY <1>2, <1>4, <1>7, <1>8, TargetStep
  <1>11. outReg' \in Seq(Words) /\ out' \in Seq(Words) /\ owner' \in BOOLEAN
    BY <1>7 DEF Left, Run
  <1>12. CASE ~gv
    <2>1. inp' = inp /\ wcntCnt' = wcntCnt /\ wcntReg' = 0
      BY <1>1, <1>5, <1>9, <1>12 DEF InClock
    <2>2. Heard(tgt', msg) /\ Len(tgt'.frame) = l + Len(w) /\ tgt'.sent = tgt.sent /\ tgt' \in Targets
      BY <1>10, <1>12 DEF Heard
    <2>3. Left(Len(tgt'.frame), outReg', out', owner', msg) /\ Run(inp', msg, 0) /\ Len(inp') = tgt'.sent
      BY <1>2, <1>7, <2>1, <2>2
    <2>4. UnderWay(tgt', outReg', out', inp', owner', wcntReg', msg)
      <3>1. Moving(tgt', outReg', out', inp', owner', msg)
        BY <1>2, <2>2, <2>3, PartsFlow
      <3>2. QED
        BY <2>1, <3>1 DEF UnderWay
    <2>5. QED
      BY <1>1, <1>5, <1>11, <2>1, <2>2, <2>4
  <1>13. CASE gv
    <2>1. /\ Given = WordOf(msg, tgt.sent) /\ CanGive
          /\ GivenLast => tgt.sent = msg.n
          /\ ~GivenLast => tgt.sent < msg.n
      BY <1>2, <1>8, <1>13, GivenNext
    <2>2. v = <<Given>> /\ v # <<>> /\ last = GivenLast
      BY <1>9, <1>13, LenOne
    <2>3. inp' = Append(inp, Given)
      BY <1>1, <1>5, <2>2, NoWords DEF InClock
    <2>4. /\ wcntCnt' = wcntCnt + 1
          /\ wcntReg' = IF GivenLast THEN wcntCnt + 1 ELSE 0
      BY <1>1, <1>5, <2>2 DEF InClock
    <2>5. Run(inp', msg, 0) /\ Len(inp') = Len(inp) + 1 /\ inp' \in Seq(Words)
      <3>1. Given = WordOf(msg, 0 + Len(inp)) /\ 0 \in Nat
        BY <1>2, <2>1
      <3>2. Run(Append(inp, Given), msg, 0) /\ Len(Append(inp, Given)) = Len(inp) + 1
        BY <1>2, <3>1, RunAppend
      <3>3. QED
        BY <2>3, <3>2 DEF Run
    <2>6. CASE GivenLast
      <3>1. Whole(inp', msg) /\ wcntReg' = msg.n + 1
        BY <1>1, <1>2, <2>1, <2>4, <2>5, <2>6 DEF Whole
      <3>2. \/ Finished(tgt', tgt.frame, w, msg)
            \/ /\ Overtaken(tgt', msg) /\ mem' = msg.m /\ Len(tgt'.frame) = Len(tgt.frame) + Len(w)
        BY <1>10, <1>13, <2>1, <2>6
      <3>3. CASE Finished(tgt', tgt.frame, w, msg)
        <4>1. tgt' = Fresh /\ l + Len(w) = 1 + 2 * msg.n
          BY <3>3 DEF Finished
        <4>2. Gone(tgt', outReg', out', owner')
          BY <1>2, <1>7, <4>1, NoneLeft DEF Gone
        <4>3. QED
          BY <1>1, <1>5, <1>11, <2>4, <2>5, <3>1, <4>1, <4>2, FreshTarget DEF Arrived
      <3>4. CASE /\ Overtaken(tgt', msg) /\ mem' = msg.m /\ Len(tgt'.frame) = Len(tgt.frame) + Len(w)
        <4>1. Draining(tgt', outReg', out', owner', mem', msg)
          BY <1>7, <3>4 DEF Draining
        <4>2. tgt' \in Targets
          BY <3>4 DEF Overtaken
        <4>3. QED
          BY <1>1, <1>5, <1>11, <2>4, <2>5, <3>1, <4>1, <4>2 DEF Arrived
      <3>5. QED
        BY <3>2, <3>3, <3>4
    <2>7. CASE ~GivenLast
      <3>1. tgt.sent # msg.n
        <4>1. tgt.sent < msg.n /\ tgt.sent \in Nat /\ msg.n \in Nat
          BY <1>2, <2>1, <2>7 DEF Msgs
        <4>2. QED
          BY <4>1
      <3>2. Heard(tgt', msg) /\ Len(tgt'.frame) = l + Len(w) /\ tgt'.sent = tgt.sent + 1 /\ tgt' \in Targets
        BY <1>10, <1>13, <3>1 DEF Heard
      <3>3. Left(Len(tgt'.frame), outReg', out', owner', msg) /\ Len(inp') = tgt'.sent
        BY <1>2, <1>7, <2>5, <3>2
      <3>4. UnderWay(tgt', outReg', out', inp', owner', wcntReg', msg)
        <4>1. Moving(tgt', outReg', out', inp', owner', msg)
          BY <1>2, <2>5, <3>2, <3>3, PartsFlow
        <4>2. QED
          BY <2>4, <2>7, <4>1 DEF UnderWay
      <3>5. QED
        BY <1>1, <1>5, <1>11, <2>4, <2>5, <3>2, <3>4
    <2>8. QED
      BY <2>6, <2>7
  <1>14. QED
    BY <1>12, <1>13

-----------------------------------------------------------------------------
(* A clock of the TMEM hardware while the rest of a request is absorbed *)

\* The target takes a word, and gives none.
LEMMA DrainTakes ==
    ASSUME NEW p \in Msgs, Draining(tgt, outReg, out, owner, mem, p), NEW bus,
           NEW take \in BOOLEAN, NEW give \in BOOLEAN, Clock(bus, take, give)
    PROVE  TmemClock(bus, <<>>, FALSE, TRUE) /\ Target(outReg, fifoOutEmpty, FALSE)
  <1>1. /\ tgt.frame # <<>> /\ Run(tgt.frame, p, 0) /\ tgt.ended = FALSE /\ tgt.sent = p.n + 1
        /\ mem = p.m /\ p.n \in Nat
    BY DEF Draining, Overtaken, Msgs
  <1>2. tgt.frame[1].m = p.m /\ tgt.frame[1].n = p.n
    BY <1>1, FrameHead
  <1>3. Absorbing
    BY <1>1, <1>2 DEF Absorbing, Replaying
  <1>4. take = TRUE
    BY <1>3 DEF Clock
  <1>5. ~(tgt.sent <= Pairs)
    BY <1>1, <1>2 DEF Pairs
  <1>6. give = FALSE
    BY <1>5 DEF Clock, CanGive
  <1>7. /\ (IF give THEN <<Given>> ELSE <<>>) = <<>> /\ (give /\ GivenLast) = FALSE
        /\ (IF take THEN outReg ELSE <<>>) = outReg /\ (give /\ tReadyInp) = FALSE
    BY <1>4, <1>6
  <1>8. QED
    BY <1>4, <1>7, Zenon DEF Clock

\* One word less is left.
Fewer == (Len(outReg') + Len(out')) + 1 = Len(outReg) + Len(out)

\* The request is absorbed, or one word more of it is.
LEMMA DrainStep ==
    ASSUME NEW p \in Msgs, Draining(tgt, outReg, out, owner, mem, p), seq = 0, OutClock(TRUE, outReg),
           Target(outReg, fifoOutEmpty, FALSE)
    PROVE  \/ Gone(tgt', outReg', out', owner')
           \/ Draining(tgt', outReg', out', owner', mem', p) /\ Fewer
  <1> DEFINE l == Len(tgt.frame)
  <1>1. /\ tgt \in Targets /\ Run(tgt.frame, p, 0) /\ tgt.frame # <<>> /\ l < 1 + 2 * p.n
        /\ tgt.ended = FALSE /\ tgt.sent = p.n + 1 /\ mem = p.m /\ p.n \in Nat
        /\ Left(l, outReg, out, owner, p) /\ tgt.frame \in Seq(Words)
    BY DEF Draining, Overtaken, Msgs, Run
  <1>2. /\ l \in Nat /\ l # 0 /\ Len(outReg) \in Nat /\ Len(out) \in Nat /\ Len(outReg) <= 1
        /\ l + (Len(outReg) + Len(out)) = 1 + 2 * p.n /\ outReg \in Seq(Words)
        /\ Len(outReg) = 0 => l = 0 \/ Len(out) = 0
        /\ Len(outReg) + Len(out) # 0 => owner
    BY <1>1, NoWords DEF Left, Run
  <1>3. Len(outReg) = 1 /\ owner /\ outReg # <<>>
    <2> DEFINE x == Len(outReg)
               y == Len(out)
               n == p.n
    <2>1. /\ l \in Nat /\ l # 0 /\ x \in Nat /\ y \in Nat /\ n \in Nat /\ x <= 1 /\ l + (x + y) = 1 + 2 * n
          /\ x = 0 => l = 0 \/ y = 0
          /\ l < 1 + 2 * n
      BY <1>1, <1>2
    <2>2. x = 1 /\ x + y # 0
      <3> HIDE DEF x, y, n, l
      <3>1. QED
        BY <2>1
    <2>3. owner
      BY <1>2, <2>2
    <2>4. Len(<<>>) = 0
      OBVIOUS
    <2>5. outReg # <<>>
      BY <2>2, <2>4
    <2>6. QED
      BY <2>2, <2>3, <2>5
  <1>4. /\ Left(l + 1, outReg', out', owner', p) /\ outReg = <<WordOf(p, l)>>
        /\ fifoOutEmpty => l = 2 * p.n
        /\ l = 2 * p.n => fifoOutEmpty
    <2>1. TRUE \in BOOLEAN /\ (TRUE => owner)
      BY <1>3
    <2>2. /\ Left(l + Len(outReg), outReg', out', owner', p)
          /\ \/ outReg = <<>>
             \/ /\ outReg = <<WordOf(p, l)>> /\ l < 1 + 2 * p.n
                /\ fifoOutEmpty => l = 2 * p.n
                /\ l = 2 * p.n => fifoOutEmpty
      BY <1>1, <2>1, OutStep
    <2>3. QED
      BY <1>3, <2>2
  <1> DEFINE f == tgt.frame \o outReg
             e == tgt.ended \/ (outReg # <<>> /\ fifoOutEmpty)
             t == [frame |-> f, ended |-> e, sent |-> tgt.sent]
  <1>5. Run(f, p, 0) /\ Len(f) = l + 1 /\ f \in Seq(Words) /\ f # <<>>
    <2>1. f = Append(tgt.frame, WordOf(p, l))
      BY <1>1, <1>4, NoWords
    <2>2. 0 \in Nat /\ WordOf(p, l) = WordOf(p, 0 + Len(tgt.frame))
      BY <1>2
    <2>3. Run(Append(tgt.frame, WordOf(p, l)), p, 0) /\ Len(Append(tgt.frame, WordOf(p, l))) = l + 1
      BY <1>1, <2>2, RunAppend
    <2>4. l + 1 # 0 /\ Len(<<>>) = 0
      BY <1>2
    <2> HIDE DEF f, l
    <2>5. QED
      BY <2>1, <2>3, <2>4 DEF Run
  <1>6. (e => fifoOutEmpty) /\ (fifoOutEmpty => e) /\ e \in BOOLEAN
    BY <1>1, <1>3 DEF fifoOutEmpty
  <1>7. tgt' = (IF e /\ tgt.sent > f[1].n THEN Fresh ELSE t) /\ mem' = mem
    BY <1>1 DEF Target, Remembered
  <1>8. f[1].n = p.n
    BY <1>5, FrameHead
  <1> HIDE DEF f, e
  <1>9. tgt.sent > f[1].n
    BY <1>1, <1>8
  <1>10. CASE e
    <2>1. tgt' = Fresh
      BY <1>7, <1>9, <1>10
    <2>2. l + 1 = 1 + 2 * p.n
      BY <1>1, <1>4, <1>6, <1>10
    <2>3. QED
      <3> DEFINE k == l + 1
      <3>1. Left(k, outReg', out', owner', p) /\ k = 1 + 2 * p.n
        BY <1>4, <2>2
      <3> HIDE DEF k, l
      <3>2. outReg' = <<>> /\ out' = <<>> /\ owner' = FALSE
        BY <3>1, NoneLeft
      <3>3. QED
        BY <2>1, <3>2 DEF Gone
  <1>11. CASE ~e
    <2>1. tgt' = t
      BY <1>7, <1>11
    <2>2. t.frame = f /\ t.ended = e /\ t.sent = p.n + 1
      BY <1>1
    <2>3. t \in Targets
      <3>1. tgt.sent \in Nat
        BY <1>1
      <3>2. QED
        BY <1>5, <1>6, <3>1 DEF Targets
    <2>4. l + 1 < 1 + 2 * p.n
      <3>1. l # 2 * p.n
        BY <1>4, <1>6, <1>11
      <3> DEFINE n == p.n
      <3>2. l \in Nat /\ n \in Nat /\ l # 2 * n /\ l < 1 + 2 * n
        BY <1>1, <1>2, <3>1
      <3>3. l + 1 < 1 + 2 * n
        <4> HIDE DEF l, n
        <4>1. QED
          BY <3>2
      <3>4. QED
        BY <3>3
    <2> HIDE DEF t
    <2>5. Overtaken(t, p)
      BY <1>5, <1>6, <1>11, <2>2, <2>3, <2>4 DEF Overtaken
    <2>6. Len(t.frame) = l + 1
      BY <1>5, <2>2
    <2>7. Draining(tgt', outReg', out', owner', mem', p)
      BY <1>1, <1>4, <1>7, <2>1, <2>5, <2>6 DEF Draining
    <2>8. Fewer
      <3> DEFINE x == Len(outReg) + Len(out)
                 y == Len(outReg') + Len(out')
                 n == 1 + 2 * p.n
                 k == l + 1
      <3>1. k + (Len(outReg') + Len(out')) = 1 + 2 * p.n /\ outReg' \in Seq(Words) /\ out' \in Seq(Words)
        <4>1. Left(k, outReg', out', owner', p)
          BY <1>4
        <4> HIDE DEF k
        <4>2. QED
          BY <4>1 DEF Left, Run
      <3>2. Len(outReg') \in Nat /\ Len(out') \in Nat
        BY <3>1, NoWords
      <3>3. l \in Nat /\ x \in Nat /\ y \in Nat /\ n \in Nat
        <4>1. \A a, b \in Nat : a + b \in Nat /\ 1 + 2 * a \in Nat
          OBVIOUS
        <4>2. l \in Nat /\ Len(outReg) \in Nat /\ Len(out) \in Nat /\ p.n \in Nat
          BY <1>1, <1>2
        <4>3. QED
          BY <3>2, <4>1, <4>2
      <3>4. l + x = n /\ (l + 1) + y = n
        BY <1>2, <3>1
      <3>5. y + 1 = x
        <4> HIDE DEF x, y, n, l
        <4>1. QED
          BY <3>3, <3>4
      <3>6. QED
        BY <3>5 DEF Fewer
    <2>9. QED
      BY <2>7, <2>8
  <1>12. QED
    BY <1>6, <1>10, <1>11

\* A clock outside a reset in which a word of the reply is read: the two sides apart.
LEMMA ReadingClock ==
    ASSUME seq = 0, usrRst = FALSE, wcntReg # 0, inp # <<>>, wcntCnt \in Nat,
           TmemClock(ReadData, <<>>, FALSE, TRUE)
    PROVE  /\ usrRst' = FALSE /\ seq' = 0 /\ ien' = ien
           /\ OutClock(TRUE, outReg)
           /\ inp' = Tail(inp) /\ wcntReg' = wcntReg - 1 /\ wcntCnt' = wcntCnt - 1
  <1> DEFINE bus == ReadData
  <1>1. bus.op = "rdat"
    BY DEF ReadData
  <1> HIDE DEF bus
  <1>2. ~aRst /\ ~rstInProg
    BY DEF aRst, rstInProg
  <1>3. /\ P_RESET /\ usrRst' = (IF bus.op = "wcsr" THEN bus.rst ELSE usrRst)
        /\ Registers(bus, <<>>, FALSE, TRUE) /\ Macros(bus, <<>>, TRUE)
    BY <1>2 DEF TmemClock, bus
  <1>4. usrRst' = FALSE /\ seq' = 0
    BY <1>1, <1>2, <1>3 DEF P_RESET
  <1>5. tmemRDEN(bus) /\ fifoInpRDEN(bus) /\ ~fifoOutWREN(bus) /\ ~fifoInpWREN(<<>>)
    BY <1>1, <1>2 DEF tmemRDEN, fifoInpRDEN, fifoOutWREN, fifoInpWREN
  <1>6. /\ outReg' = IF outReg # <<>> /\ ~TRUE THEN outReg
                     ELSE IF fifoOutRDEN(TRUE) THEN <<Head(out)>> ELSE <<>>
        /\ wcntCnt' = wcntCnt + 0 - 1
        /\ wcntReg' = wcntReg - 1
        /\ owner' = IF Released(TRUE) THEN FALSE ELSE owner
        /\ ien' = ien
    BY <1>1, <1>3, <1>5 DEF Registers
  <1>7. /\ out' = IF fifoOutRDEN(TRUE) THEN Tail(out) ELSE out
        /\ inp' = Tail(inp)
    BY <1>3, <1>5 DEF Macros
  <1>8. OutClock(TRUE, outReg)
    <2>1. outReg = IF TRUE THEN outReg ELSE <<>>
      OBVIOUS
    <2>2. QED
      BY <1>6, <1>7, <2>1, Zenon DEF OutClock
  <1>9. wcntCnt' = wcntCnt - 1
    BY <1>6
  <1>10. QED
    BY <1>4, <1>6, <1>7, <1>8, <1>9

\* What a clock leaves of a request whose reply has come.
Absorbed(p) ==
    \/ Gone(tgt', outReg', out', owner')
    \/ Draining(tgt', outReg', out', owner', mem', p) /\ Fewer

\* The bus reads the status register, or does nothing.
LEMMA DrainIdle ==
    ASSUME MsgInv, HwType, HwSending, Sending, wcntReg # 0, NEW bus, Idling(bus),
           NEW take \in BOOLEAN, NEW give \in BOOLEAN, Clock(bus, take, give)
    PROVE  /\ usrRst' = FALSE /\ seq' = 0 /\ ien' = ien /\ Absorbed(msg)
           /\ inp' = inp /\ wcntReg' = wcntReg /\ wcntCnt' = wcntCnt
  <1>1. /\ usrRst = FALSE /\ seq = 0 /\ Draining(tgt, outReg, out, owner, mem, msg) /\ wcntCnt \in Nat
        /\ msg \in Msgs
    BY DEF HwSending, HwType, MsgInv
  <1>2. TmemClock(bus, <<>>, FALSE, TRUE) /\ Target(outReg, fifoOutEmpty, FALSE)
    BY <1>1, DrainTakes
  <1>3. /\ usrRst' = FALSE /\ seq' = 0 /\ ien' = ien
        /\ OutClock(TRUE, IF TRUE THEN outReg ELSE <<>>)
        /\ InClock(IF tReadyInp THEN <<>> ELSE <<>>, FALSE)
    <2>1. FALSE \in BOOLEAN /\ TRUE \in BOOLEAN
      OBVIOUS
    <2>2. QED
      BY <1>1, <1>2, <2>1, IdlingClock
  <1>4. (IF TRUE THEN outReg ELSE <<>>) = outReg /\ (IF tReadyInp THEN <<>> ELSE <<>>) = <<>>
    OBVIOUS
  <1>5. OutClock(TRUE, outReg) /\ InClock(<<>>, FALSE)
    BY <1>3, <1>4, Zenon
  <1>6. inp' = inp /\ wcntReg' = wcntReg /\ wcntCnt' = wcntCnt
    BY <1>5 DEF InClock
  <1>7. Absorbed(msg)
    BY <1>1, <1>2, <1>5, DrainStep DEF Absorbed
  <1>8. QED
    BY <1>3, <1>6, <1>7

\* The bus reads a word of the reply.
LEMMA DrainRead ==
    ASSUME MsgInv, HwType, HwSending, Sending, wcntReg # 0, inp # <<>>,
           NEW take \in BOOLEAN, NEW give \in BOOLEAN, Clock(ReadData, take, give)
    PROVE  /\ usrRst' = FALSE /\ seq' = 0 /\ ien' = ien /\ Absorbed(msg)
           /\ inp' = Tail(inp) /\ wcntReg' = wcntReg - 1 /\ wcntCnt' = wcntCnt - 1
  <1>1. /\ usrRst = FALSE /\ seq = 0 /\ Draining(tgt, outReg, out, owner, mem, msg) /\ wcntCnt \in Nat
        /\ msg \in Msgs
    BY DEF HwSending, HwType, MsgInv
  <1>2. TmemClock(ReadData, <<>>, FALSE, TRUE) /\ Target(outReg, fifoOutEmpty, FALSE)
    BY <1>1, DrainTakes
  <1>3. /\ usrRst' = FALSE /\ seq' = 0 /\ ien' = ien /\ OutClock(TRUE, outReg)
        /\ inp' = Tail(inp) /\ wcntReg' = wcntReg - 1 /\ wcntCnt' = wcntCnt - 1
    BY <1>1, <1>2, ReadingClock
  <1>4. Absorbed(msg)
    BY <1>1, <1>2, <1>3, DrainStep DEF Absorbed
  <1>5. QED
    BY <1>3, <1>4

\* The types of what is left; it tells whether a message is under way.
LEMMA AbsorbedTypes ==
    ASSUME NEW p \in Msgs, Absorbed(p)
    PROVE  /\ outReg' \in Seq(Words) /\ out' \in Seq(Words) /\ owner' \in BOOLEAN /\ tgt' \in Targets
           /\ Sending' => Draining(tgt', outReg', out', owner', mem', p) /\ Fewer
           /\ ~Sending' => outReg' = <<>> /\ out' = <<>>
  <1>1. CASE Gone(tgt', outReg', out', owner')
    <2>1. tgt' = Fresh /\ owner' = FALSE /\ outReg' = <<>> /\ out' = <<>>
      BY <1>1 DEF Gone
    <2>2. ~Sending'
      BY <2>1 DEF Sending, Fresh
    <2>3. <<>> \in Seq(Words)
      OBVIOUS
    <2>4. QED
      BY <2>1, <2>2, <2>3, FreshTarget
  <1>2. CASE Draining(tgt', outReg', out', owner', mem', p) /\ Fewer
    <2>1. /\ outReg' \in Seq(Words) /\ out' \in Seq(Words) /\ owner' \in BOOLEAN /\ tgt' \in Targets
          /\ tgt'.frame # <<>>
      BY <1>2 DEF Draining, Overtaken, Left, Run
    <2>2. Sending'
      BY <2>1, FreshTarget DEF Sending, Fresh
    <2>3. QED
      BY <1>2, <2>1, <2>2
  <1>3. QED
    BY <1>1, <1>2 DEF Absorbed

-----------------------------------------------------------------------------
(* A clock of the TMEM hardware with nothing under way *)

\* The reset sequence counts up to 7 and starts again as long as it is asked for.
LEMMA SeqStep ==
    ASSUME seq \in 0..7, P_RESET
    PROVE  /\ seq' \in 0..7
           /\ seq = 0 /\ ~usrRst => seq' = 0
           /\ seq = 0 /\ usrRst => seq' = 1
           /\ seq # 0 => seq' = 0 \/ seq' = seq + 1
           /\ seq \in 1..5 => seq' = seq + 1
  <1>1. CASE seq = 0
    BY <1>1 DEF P_RESET, rstInProg
  <1>2. CASE seq # 0
    <2>1. seq' = (seq + 1) % 8 /\ seq \in 1..7
      BY <1>2 DEF P_RESET, rstInProg
    <2>2. CASE seq = 7
      BY <2>1, <2>2
    <2>3. CASE seq \in 1..6
      BY <2>1, <2>3
    <2>4. QED
      BY <2>1, <2>2, <2>3
  <1>3. QED
    BY <1>1, <1>2

\* Nothing is under way, before and after a clock; and the FIFOs are cleared by one.
Still == tgt = Fresh /\ owner = FALSE /\ outReg = <<>>

Unmoved == tgt' = Fresh

\* Without a request the target does nothing.
LEMMA StillClock ==
    ASSUME Still, NEW bus, NEW take \in BOOLEAN, NEW give \in BOOLEAN, Clock(bus, take, give)
    PROVE  Unmoved /\ TmemClock(bus, <<>>, FALSE, take)
  <1>1. tgt.frame = <<>> /\ tgt.ended = FALSE /\ tgt.sent = 0 /\ outReg = <<>>
    BY DEF Still, Fresh
  <1>2. give = FALSE
    BY <1>1 DEF Clock, CanGive
  <1>3. TmemClock(bus, <<>>, FALSE, take)
    <2>1. (IF give THEN <<Given>> ELSE <<>>) = <<>> /\ (give /\ GivenLast) = FALSE
      BY <1>2
    <2>2. QED
      BY <2>1, Zenon DEF Clock
  <1>4. Unmoved
    <2>1. (IF take THEN outReg ELSE <<>>) = <<>> /\ (give /\ tReadyInp) = FALSE
      BY <1>1, <1>2
    <2>2. Target(<<>>, fifoOutEmpty, FALSE)
      BY <2>1, Zenon DEF Clock
    <2>3. tgt.frame \o <<>> = <<>>
      BY <1>1
    <2>4. (tgt.ended \/ (<<>> # <<>> /\ fifoOutEmpty)) = FALSE
      BY <1>1
    <2>5. tgt' = [frame |-> <<>>, ended |-> FALSE, sent |-> 0]
      BY <1>1, <2>2, <2>3, <2>4 DEF Target
    <2>6. QED
      BY <2>5 DEF Fresh, Unmoved
  <1>5. QED
    BY <1>3, <1>4

Cleared == out' = <<>> /\ inp' = <<>> /\ wcntReg' = 0 /\ wcntCnt' = 0 /\ ien' = FALSE /\ owner' = FALSE

\* What a clock does, by the access.
LEMMA StillAccess ==
    ASSUME Still, NEW bus, NEW take \in BOOLEAN, TmemClock(bus, <<>>, FALSE, take),
           wcntCnt \in Nat
    PROVE  /\ P_RESET /\ outReg' = <<>>
           /\ usrRst' = IF bus.op = "wcsr" THEN bus.rst ELSE usrRst
           /\ aRst => Cleared
           /\ ~aRst => /\ owner' = IF bus.op = "wcsr" THEN bus.eofo ELSE FALSE
                       /\ ien' = IF bus.op = "wcsr" THEN bus.ien ELSE ien
                       /\ wcntReg' = IF tmemRDEN(bus) THEN wcntReg - 1 ELSE wcntReg
                       /\ wcntCnt' = IF fifoInpRDEN(bus) THEN wcntCnt - 1 ELSE wcntCnt
                       /\ inp' = IF fifoInpRDEN(bus) THEN Tail(inp) ELSE inp
                       /\ out' = IF fifoOutWREN(bus) THEN Append(out, bus.word) ELSE out
  <1>1. /\ P_RESET /\ usrRst' = (IF bus.op = "wcsr" THEN bus.rst ELSE usrRst)
    BY DEF TmemClock
  <1>2. outReg = <<>> /\ owner = FALSE /\ ~fifoOutRDEN(take) /\ ~Released(take) /\ ~fifoInpWREN(<<>>)
    BY DEF Still, fifoOutRDEN, Released, fifoInpWREN
  <1>3. CASE aRst
    BY <1>1, <1>3 DEF TmemClock, Cleared
  <1>4. CASE ~aRst
    <2>1. Registers(bus, <<>>, FALSE, take) /\ Macros(bus, <<>>, take)
      BY <1>4 DEF TmemClock
    <2>2. outReg' = <<>>
      BY <1>2, <2>1 DEF Registers
    <2>3. owner' = IF bus.op = "wcsr" THEN bus.eofo ELSE FALSE
      BY <1>2, <2>1 DEF Registers
    <2>4. ien' = IF bus.op = "wcsr" THEN bus.ien ELSE ien
      BY <2>1 DEF Registers
    <2>5. wcntReg' = IF tmemRDEN(bus) THEN wcntReg - 1 ELSE wcntReg
      BY <1>2, <2>1 DEF Registers
    <2>6. wcntCnt' = IF fifoInpRDEN(bus) THEN wcntCnt - 1 ELSE wcntCnt
      <3>1. wcntCnt' = wcntCnt + 0 - (IF fifoInpRDEN(bus) THEN 1 ELSE 0)
        BY <1>2, <2>1 DEF Registers
      <3>2. CASE fifoInpRDEN(bus)
        <4>1. wcntCnt' = wcntCnt + 0 - 1
          BY <3>1, <3>2
        <4>2. QED
          BY <3>2, <4>1
      <3>3. CASE ~fifoInpRDEN(bus)
        <4>1. wcntCnt' = wcntCnt + 0 - 0
          BY <3>1, <3>3
        <4>2. QED
          BY <3>3, <4>1
      <3>4. QED
        BY <3>2, <3>3
    <2>7. /\ inp' = IF fifoInpRDEN(bus) THEN Tail(inp) ELSE inp
          /\ out' = IF fifoOutWREN(bus) THEN Append(out, bus.word) ELSE out
      BY <1>2, <2>1 DEF Macros
    <2>8. QED
      BY <1>1, <1>4, <2>2, <2>3, <2>4, <2>5, <2>6, <2>7
  <1>5. QED
    BY <1>3, <1>4

\* The FIFOs as they were, or cleared.
Kept == out' = out /\ inp' = inp /\ wcntReg' = wcntReg /\ wcntCnt' = wcntCnt

\* What every clock with nothing under way leaves alone: a clock, the reset sequence
\* and the target.
StillStep == P_RESET /\ tgt' = Fresh /\ outReg' = <<>>

\* The bus reads the status register, or does nothing.
LEMMA StillIdle ==
    ASSUME Still, HwType, NEW bus, Idling(bus), NEW take \in BOOLEAN, NEW give \in BOOLEAN, Clock(bus, take, give)
    PROVE  /\ StillStep /\ owner' = FALSE /\ usrRst' = usrRst
           /\ \/ aRst /\ Cleared
              \/ ~aRst /\ Kept /\ ien' = ien
  <1>1. tgt' = Fresh /\ TmemClock(bus, <<>>, FALSE, take) /\ wcntCnt \in Nat
    <2>1. Unmoved /\ TmemClock(bus, <<>>, FALSE, take)
      BY StillClock, Zenon
    <2>2. wcntCnt \in Nat
      BY DEF HwType
    <2>3. QED
      BY <2>1, <2>2, Zenon DEF Unmoved
  <1>2. bus.op # "wcsr" /\ ~tmemRDEN(bus) /\ ~fifoInpRDEN(bus) /\ ~fifoOutWREN(bus)
    BY DEF Idling, tmemRDEN, fifoInpRDEN, fifoOutWREN
  <1>3. /\ P_RESET /\ outReg' = <<>> /\ usrRst' = usrRst
        /\ aRst => Cleared
        /\ ~aRst => owner' = FALSE /\ ien' = ien /\ wcntReg' = wcntReg /\ wcntCnt' = wcntCnt
                    /\ inp' = inp /\ out' = out
    <2>1. /\ P_RESET /\ outReg' = <<>> /\ usrRst' = IF bus.op = "wcsr" THEN bus.rst ELSE usrRst
          /\ aRst => Cleared
          /\ ~aRst => /\ owner' = IF bus.op = "wcsr" THEN bus.eofo ELSE FALSE
                      /\ ien' = IF bus.op = "wcsr" THEN bus.ien ELSE ien
                      /\ wcntReg' = IF tmemRDEN(bus) THEN wcntReg - 1 ELSE wcntReg
                      /\ wcntCnt' = IF fifoInpRDEN(bus) THEN wcntCnt - 1 ELSE wcntCnt
                      /\ inp' = IF fifoInpRDEN(bus) THEN Tail(inp) ELSE inp
                      /\ out' = IF fifoOutWREN(bus) THEN Append(out, bus.word) ELSE out
      BY <1>1, StillAccess, Zenon
    <2>2. QED
      BY <1>2, <2>1
  <1>4. QED
    BY <1>1, <1>3 DEF StillStep, Kept, Cleared

\* The bus writes the status register.
LEMMA StillWcsr ==
    ASSUME Still, HwType, NEW rst \in BOOLEAN, NEW eofo \in BOOLEAN, NEW ie \in BOOLEAN,
           NEW take \in BOOLEAN, NEW give \in BOOLEAN, Clock(WriteCsr(rst, eofo, ie), take, give)
    PROVE  /\ StillStep /\ usrRst' = rst
           /\ \/ aRst /\ Cleared
              \/ ~aRst /\ Kept /\ ien' = ie /\ owner' = eofo
  <1> DEFINE bus == WriteCsr(rst, eofo, ie)
  <1>1. bus.op = "wcsr" /\ bus.rst = rst /\ bus.eofo = eofo /\ bus.ien = ie
    BY DEF WriteCsr
  <1> HIDE DEF bus
  <1>2. tgt' = Fresh /\ TmemClock(bus, <<>>, FALSE, take) /\ wcntCnt \in Nat
    <2>1. Unmoved /\ TmemClock(bus, <<>>, FALSE, take)
      BY StillClock, Zenon DEF bus
    <2>2. wcntCnt \in Nat
      BY DEF HwType
    <2>3. QED
      BY <2>1, <2>2, Zenon DEF Unmoved
  <1>3. ~tmemRDEN(bus) /\ ~fifoInpRDEN(bus) /\ ~fifoOutWREN(bus)
    BY <1>1 DEF tmemRDEN, fifoInpRDEN, fifoOutWREN
  <1>4. /\ P_RESET /\ outReg' = <<>> /\ usrRst' = rst
        /\ aRst => Cleared
        /\ ~aRst => owner' = eofo /\ ien' = ie /\ wcntReg' = wcntReg /\ wcntCnt' = wcntCnt
                    /\ inp' = inp /\ out' = out
    BY <1>1, <1>2, <1>3, StillAccess
  <1>5. QED
    BY <1>2, <1>4 DEF StillStep, Kept

\* The bus reads a word of data.
LEMMA StillRdat ==
    ASSUME Still, HwType, NEW take \in BOOLEAN, NEW give \in BOOLEAN, Clock(ReadData, take, give)
    PROVE  /\ StillStep /\ owner' = FALSE /\ usrRst' = usrRst
           /\ \/ aRst /\ Cleared
              \/ /\ ~aRst /\ ien' = ien /\ out' = out
                 /\ wcntReg' = IF wcntReg # 0 THEN wcntReg - 1 ELSE 0
                 /\ \/ ~(wcntReg # 0 /\ inp # <<>> /\ seq = 0) /\ inp' = inp /\ wcntCnt' = wcntCnt
                    \/ inp # <<>> /\ inp' = Tail(inp) /\ wcntCnt' = wcntCnt - 1
  <1> DEFINE bus == ReadData
  <1>1. bus.op = "rdat"
    BY DEF ReadData
  <1> HIDE DEF bus
  <1>2. tgt' = Fresh /\ TmemClock(bus, <<>>, FALSE, take) /\ wcntCnt \in Nat
    <2>1. Unmoved /\ TmemClock(bus, <<>>, FALSE, take)
      BY StillClock, Zenon DEF bus
    <2>2. wcntCnt \in Nat
      BY DEF HwType
    <2>3. QED
      BY <2>1, <2>2, Zenon DEF Unmoved
  <1>3. ~fifoOutWREN(bus) /\ bus.op # "wcsr"
    BY <1>1 DEF fifoOutWREN
  <1>4. /\ tmemRDEN(bus) => wcntReg # 0
        /\ ~tmemRDEN(bus) => wcntReg = 0
        /\ fifoInpRDEN(bus) => wcntReg # 0 /\ inp # <<>> /\ seq = 0
        /\ ~fifoInpRDEN(bus) => ~(wcntReg # 0 /\ inp # <<>> /\ seq = 0)
    BY <1>1 DEF tmemRDEN, fifoInpRDEN, rstInProg
  <1>5. /\ P_RESET /\ outReg' = <<>> /\ usrRst' = usrRst
        /\ aRst => Cleared
        /\ ~aRst => /\ owner' = FALSE /\ ien' = ien /\ out' = out
                    /\ wcntReg' = IF tmemRDEN(bus) THEN wcntReg - 1 ELSE wcntReg
                    /\ wcntCnt' = IF fifoInpRDEN(bus) THEN wcntCnt - 1 ELSE wcntCnt
                    /\ inp' = IF fifoInpRDEN(bus) THEN Tail(inp) ELSE inp
    BY <1>1, <1>2, <1>3, StillAccess
  <1>6. QED
    BY <1>2, <1>4, <1>5 DEF StillStep, Cleared

\* The bus writes a word of data; there is room for it.
LEMMA StillWdat ==
    ASSUME Still, HwType, NEW w, NEW take \in BOOLEAN, NEW give \in BOOLEAN, Clock(WriteData(w), take, give),
           seq = 0, Len(out) < Depth
    PROVE  /\ StillStep /\ owner' = FALSE /\ usrRst' = usrRst /\ ien' = ien
           /\ out' = Append(out, w) /\ UNCHANGED <<inp, wcntReg, wcntCnt>>
  <1> DEFINE bus == WriteData(w)
  <1>1. bus.op = "wdat" /\ bus.word = w
    BY DEF WriteData
  <1> HIDE DEF bus
  <1>2. tgt' = Fresh /\ TmemClock(bus, <<>>, FALSE, take) /\ wcntCnt \in Nat
    <2>1. Unmoved /\ TmemClock(bus, <<>>, FALSE, take)
      BY StillClock, Zenon DEF bus
    <2>2. wcntCnt \in Nat
      BY DEF HwType
    <2>3. QED
      BY <2>1, <2>2, Zenon DEF Unmoved
  <1>3. ~tmemRDEN(bus) /\ ~fifoInpRDEN(bus) /\ fifoOutWREN(bus) /\ bus.op # "wcsr" /\ ~aRst
    BY <1>1 DEF tmemRDEN, fifoInpRDEN, fifoOutWREN, Still, rstInProg, aRst
  <1>4. /\ P_RESET /\ outReg' = <<>> /\ usrRst' = usrRst /\ owner' = FALSE /\ ien' = ien
        /\ wcntReg' = wcntReg /\ wcntCnt' = wcntCnt /\ inp' = inp /\ out' = Append(out, w)
    BY <1>1, <1>2, <1>3, StillAccess
  <1>5. QED
    BY <1>2, <1>4 DEF StillStep

-----------------------------------------------------------------------------
(* xfer(), whatever is below *)

\* The least of three numbers.
LEMMA MinThird ==
    ASSUME NEW a \in Nat, NEW b \in Nat, NEW c \in Nat, c <= a, c <= b
    PROVE  Min({a, b, c}) = c
  <1> DEFINE S == {a, b, c}
             Least(x) == x \in S /\ \A y \in S : x <= y
  <1>1. Least(c)
    OBVIOUS
  <1>2. Least(CHOOSE x : Least(x))
    BY <1>1, Zenon
  <1>3. Min(S) = CHOOSE x : Least(x)
    BY Zenon DEF Min
  <1>4. Least(Min(S))
    BY <1>2, <1>3, Zenon
  <1>5. Min(S) \in S /\ Min(S) <= c
    BY <1>4
  <1>6. QED
    BY <1>5

\* The least of two numbers.
LEMMA MinOfTwo ==
    ASSUME NEW a \in Nat, NEW b \in Nat
    PROVE  Min({a, b}) \in {a, b} /\ Min({a, b}) <= a /\ Min({a, b}) <= b
  <1> DEFINE S == {a, b}
             Least(x) == x \in S /\ \A y \in S : x <= y
  <1>1. Least(a) \/ Least(b)
    OBVIOUS
  <1>2. Least(CHOOSE x : Least(x))
    BY <1>1, Zenon
  <1>3. Min(S) = CHOOSE x : Least(x)
    BY Zenon DEF Min
  <1>4. Least(Min(S))
    BY <1>2, <1>3, Zenon
  <1>5. QED
    BY <1>4

\* A message has words for its octets, and none too many.
LEMMA SizeFits ==
    ASSUME MsgInv
    PROVE  /\ msg \in Msgs /\ msg.n \in Nat /\ msg.size \in Nat /\ msg.size <= 4 * msg.n
           /\ msg.n = 0 => msg.size = 0
  <1>1. msg \in Msgs /\ msg.n \in Nat /\ msg.size \in Nat /\ msg.n = (msg.size + 3) \div 4
    BY DEF MsgInv, Msgs
  <1> DEFINE s == msg.size
             n == msg.n
  <1>2. s \in Nat /\ n \in Nat /\ n = (s + 3) \div 4
    BY <1>1
  <1> HIDE DEF s, n
  <1>3. s <= 4 * n /\ (n = 0 => s = 0)
    BY <1>2
  <1>4. QED
    BY <1>1, <1>3 DEF s, n

\* The header of the reply is read.
LEMMA HdrRead ==
    ASSUME MsgInv, XferInv, pc = "hdr", NEW a, Whole(a, msg), rx' = Append(rx, Head(a)), msg' = msg,
           got' = got - 4, i' = 0, pc' = (IF got = 4 THEN "done" ELSE "data"), stored' = stored
    PROVE  /\ XferInv' /\ a # <<>> /\ Len(Tail(a)) = msg.n
           /\ pc' = "done" => Tail(a) = <<>>
           /\ pc' = "data" => Len(rx') = 1 /\ Run(Tail(a), msg, 1)
  <1>1. /\ msg \in Msgs /\ msg.n \in Nat /\ (msg.n = 0 => msg.size = 0)
    BY SizeFits
  <1>2. rx = <<>> /\ stored = 0 /\ got = 4 * (msg.n + 1)
    BY DEF XferInv
  <1>3. Run(a, msg, 0) /\ Len(a) = msg.n + 1 /\ a \in Seq(Words)
    BY DEF Whole, Run
  <1>4. a # <<>>
    <2>1. msg.n + 1 # 0
      BY <1>1
    <2>2. QED
      BY <1>3, <2>1, NoWords
  <1>5. /\ Head(a) = WordOf(msg, 0) /\ Run(Tail(a), msg, 0 + 1) /\ Len(a) = Len(Tail(a)) + 1
        /\ Len(Tail(a)) \in Nat
    BY <1>1, <1>3, <1>4, RunTail
  <1>6. Len(Tail(a)) = msg.n /\ Run(Tail(a), msg, 1)
    BY <1>1, <1>3, <1>5
  <1>7. Run(rx', msg, 0) /\ Len(rx') = 1
    <2>1. Run(<<>>, msg, 0) /\ 0 \in Nat /\ Head(a) = WordOf(msg, 0 + Len(<<>>)) /\ Len(<<>>) + 1 = 1
      BY <1>5, RunEmpty
    <2>2. QED
      BY <1>1, <1>2, <2>1, RunAppend
  <1>8. got' = 4 * msg.n /\ got' \in Nat /\ (got = 4 => msg.n = 0) /\ (got # 4 => 1 <= msg.n)
    BY <1>1, <1>2
  <1>9. pc' = "done" => Tail(a) = <<>>
    <2>1. pc' = "done" => Len(Tail(a)) = 0
      BY <1>6, <1>8
    <2>2. Tail(a) \in Seq(Words)
      BY <1>6 DEF Run
    <2>3. QED
      BY <2>1, <2>2, NoWords
  <1>10. XferInv'
    <2>1. ASSUME pc' = "done" PROVE Whole(rx', msg) /\ stored' = msg.size
      <3>1. got = 4
        BY <2>1
      <3>2. msg.n = 0 /\ msg.size = 0
        BY <1>1, <1>8, <3>1
      <3>3. Len(rx') = msg.n + 1
        BY <1>7, <3>2
      <3>4. QED
        BY <1>2, <1>7, <3>2, <3>3 DEF Whole
    <2>2. pc' = "data" => 1 \in 1..msg.n /\ i' + 4 = 4 * 1
      BY <1>1, <1>8
    <2>3. pc' \in {"done", "data"} /\ i' \in Nat
      OBVIOUS
    <2>4. QED
      BY <1>7, <1>8, <2>1, <2>2, <2>3 DEF XferInv, Ready, Resetting, ZResetting, Waiting
  <1>11. QED
    BY <1>4, <1>6, <1>7, <1>9, <1>10

\* A word of the reply is read, the last one or not.
LEMMA WordRead ==
    ASSUME MsgInv, XferInv, pc = "data", NEW a, Run(a, msg, Len(rx)), Len(a) + Len(rx) = msg.n + 1,
           rx' = Append(rx, Head(a)), msg' = msg, got' = got, i' = i + 4,
           pc' = (IF MoreWords THEN "data" ELSE "done"), stored' = Min({i + 4, got, msg.size})
    PROVE  /\ XferInv' /\ a # <<>> /\ Run(Tail(a), msg, Len(rx')) /\ Len(Tail(a)) + Len(rx') = msg.n + 1
           /\ Len(a) = Len(Tail(a)) + 1 /\ Len(Tail(a)) \in Nat /\ Len(rx') \in Nat
           /\ pc' = "done" => Tail(a) = <<>>
  <1>1. /\ msg \in Msgs /\ msg.n \in Nat /\ msg.size \in Nat /\ msg.size <= 4 * msg.n
    BY SizeFits
  <1>2. /\ Run(rx, msg, 0) /\ Len(rx) \in 1..msg.n /\ got = 4 * msg.n /\ i + 4 = 4 * Len(rx)
        /\ i \in Nat /\ got \in Nat
    BY DEF XferInv
  <1>3. a \in Seq(Words) /\ Len(a) \in Nat /\ Len(rx) \in Nat /\ rx \in Seq(Words)
    BY <1>2 DEF Run
  <1> DEFINE h == Len(rx)
             la == Len(a)
             n == msg.n
  <1>4. h \in 1..n /\ la \in Nat /\ la + h = n + 1 /\ n \in Nat /\ h \in Nat
    BY <1>1, <1>2, <1>3
  <1>5. a # <<>>
    <2> HIDE DEF h, la, n
    <2>1. la # 0
      BY <1>4
    <2>2. QED
      BY <1>3, <2>1, NoWords DEF la
  <1>6. /\ Head(a) = WordOf(msg, h) /\ Run(Tail(a), msg, h + 1) /\ Len(a) = Len(Tail(a)) + 1
        /\ Len(Tail(a)) \in Nat
    BY <1>1, <1>3, <1>5, RunTail
  <1>7. Run(rx', msg, 0) /\ Len(rx') = h + 1
    <2>1. 0 \in Nat /\ Head(a) = WordOf(msg, 0 + Len(rx))
      BY <1>3, <1>6
    <2>2. QED
      BY <1>1, <1>2, <2>1, RunAppend
  <1> DEFINE lt == Len(Tail(a))
  <1>8. lt \in Nat /\ la = lt + 1
    BY <1>6
  <1>9. Run(Tail(a), msg, Len(rx')) /\ Tail(a) \in Seq(Words)
    BY <1>6, <1>7 DEF Run
  <1>10. lt + (h + 1) = n + 1
    <2> HIDE DEF h, la, n, lt
    <2>1. QED
      BY <1>4, <1>8
  <1>11. MoreWords => h + 1 \in 1..n
    <2>1. MoreWords => 4 * h < 4 * n
      BY <1>2 DEF MoreWords
    <2> HIDE DEF h, la, n, lt
    <2>2. QED
      BY <1>4, <2>1
  <1>12. ~MoreWords => h = n
    <2>1. ~MoreWords => ~(4 * h < 4 * n)
      BY <1>2 DEF MoreWords
    <2> HIDE DEF h, la, n, lt
    <2>2. QED
      BY <1>4, <2>1
  <1>13. ~MoreWords => stored' = msg.size
    <2>1. ASSUME ~MoreWords PROVE i + 4 = 4 * msg.n
      BY <1>2, <1>12, <2>1
    <2>2. ASSUME ~MoreWords PROVE i + 4 \in Nat /\ msg.size <= i + 4 /\ msg.size <= got
      BY <1>1, <1>2, <2>1, <2>2
    <2>3. QED
      BY <1>1, <1>2, <2>2, MinThird
  <1>14. i' \in Nat /\ i' + 4 = 4 * (h + 1)
    <2>1. i' = 4 * h /\ h \in Nat
      BY <1>2, <1>4
    <2> HIDE DEF h
    <2>2. QED
      BY <2>1
  <1>15. ~MoreWords => Tail(a) = <<>>
    <2>1. ~MoreWords => lt = 0
      <3> HIDE DEF h, la, n, lt
      <3>1. QED
        BY <1>4, <1>8, <1>12
    <2>2. QED
      BY <1>9, <2>1, NoWords
  <1>16. pc' = "done" => ~MoreWords
    OBVIOUS
  <1>17. pc' = "data" => MoreWords
    OBVIOUS
  <1>18. XferInv'
    <2>1. pc' = "done" => Whole(rx', msg) /\ stored' = msg.size
      BY <1>7, <1>12, <1>13, <1>16 DEF Whole
    <2>2. pc' = "data" => Len(rx') \in 1..msg.n /\ i' + 4 = 4 * Len(rx')
      BY <1>7, <1>11, <1>14, <1>17
    <2>3. pc' \in {"done", "data"}
      OBVIOUS
    <2>4. QED
      BY <1>2, <1>7, <1>14, <2>1, <2>2, <2>3 DEF XferInv, Ready, Resetting, ZResetting, Waiting
  <1>19. QED
    BY <1>5, <1>6, <1>7, <1>9, <1>10, <1>15, <1>16, <1>18, <1>4

-----------------------------------------------------------------------------
(* JtagDriverTmemFifo, a step at a time: what the steps have in common *)

\* The invariant, taken apart.
LEMMA TmemParts ==
    ASSUME FifoInv, kind = "tmem"
    PROVE  /\ useIrq \in BOOLEAN /\ MsgInv /\ XferInv /\ HwType /\ HwReset /\ HwSending /\ HwPc
  BY DEF FifoInv, TmemInv

\* And put together.
LEMMA TmemWhole ==
    ASSUME kind' = "tmem", useIrq' \in BOOLEAN, MsgInv', XferInv', HwType', HwReset', HwSending', HwPc'
    PROVE  FifoInv'
  BY DEF FifoInv, TmemInv

\* Only while the driver waits, or reads the reply, is a message under way.
LEMMA StillNow ==
    ASSUME HwType, HwSending, pc \notin Reading \/ ~Sending
    PROVE  Still /\ ~Sending
  <1>1. ~Sending /\ owner \in BOOLEAN
    BY DEF HwSending, HwType
  <1>2. QED
    BY <1>1 DEF HwSending, Sending, Still

\* After a clock with nothing under way.
LEMMA StillAfter ==
    ASSUME HwType, StillStep, usrRst' \in BOOLEAN, ien' \in BOOLEAN, owner' = FALSE, quiet' \in 0..Gap,
           wcntReg' \in Nat, out' \in Seq(Words), inp' \in Seq(Words), wcntCnt' = Len(inp'), zf' = zf
    PROVE  HwType' /\ HwSending' /\ ~Sending'
  <1>1. seq' \in 0..7
    BY SeqStep DEF StillStep, HwType
  <1>2. tgt' = Fresh /\ outReg' = <<>> /\ zf.rst = {} /\ zf.go = <<>> /\ <<>> \in Seq(Words)
    BY DEF StillStep, HwType
  <1>3. HwType'
    BY <1>1, <1>2, FreshTarget DEF HwType
  <1>4. ~Sending'
    BY <1>2 DEF Sending, Fresh
  <1>5. QED
    BY <1>2, <1>3, <1>4 DEF HwSending

\* An access comes long after the reset that was asked for no more.
LEMMA AccessReady ==
    ASSUME HwType, HwReset, quiet = Gap, usrRst = FALSE
    PROVE  seq = 0 /\ ~aRst
  <1>1. seq \in 0..7 /\ Gap \in Nat /\ Gap >= 7
    BY FifoAssumption DEF HwType
  <1>2. seq = 0 \/ seq > Gap
    BY DEF HwReset
  <1>3. QED
    BY <1>1, <1>2 DEF aRst

\* After an access, a reset has to be asked for no more to be over in time.
LEMMA ResetAfter ==
    ASSUME HwType, StillStep, quiet' = 0, ien' => ~usrRst' /\ seq' = 0
    PROVE  HwReset'
  <1>1. seq' \in 0..7
    BY SeqStep DEF StillStep, HwType
  <1>2. seq' = 0 \/ seq' > 0
    BY <1>1
  <1>3. QED
    BY <1>2 DEF HwReset

\* Time passes: the last access is longer ago, or this is one.
Later == quiet' \in 0..Gap /\ (quiet' = 0 \/ quiet' <= quiet + 1)

\* The bus reads the status register or does nothing, with nothing under way.
LEMMA StillTime ==
    ASSUME HwType, HwReset, HwSending, ~Sending, NEW bus, Idling(bus),
           NEW take \in BOOLEAN, NEW give \in BOOLEAN, Clock(bus, take, give), Later, zf' = zf
    PROVE  HwType' /\ HwReset' /\ HwSending' /\ ~Sending'
  <1>1. Still
    BY StillNow
  <1>2. /\ StillStep /\ owner' = FALSE /\ usrRst' = usrRst
        /\ \/ aRst /\ Cleared
           \/ ~aRst /\ Kept /\ ien' = ien
    BY <1>1, StillIdle
  <1>3. /\ usrRst \in BOOLEAN /\ ien \in BOOLEAN /\ seq \in 0..7 /\ quiet \in 0..Gap /\ wcntReg \in Nat
        /\ out \in Seq(Words) /\ inp \in Seq(Words) /\ wcntCnt = Len(inp)
    BY DEF HwType
  <1>4. ien' \in BOOLEAN /\ wcntReg' \in Nat /\ out' \in Seq(Words) /\ inp' \in Seq(Words) /\ wcntCnt' = Len(inp')
    <2>1. <<>> \in Seq(Words) /\ Len(<<>>) = 0
      OBVIOUS
    <2>2. CASE aRst /\ Cleared
      BY <2>1, <2>2 DEF Cleared
    <2>3. CASE Kept /\ ien' = ien
      BY <1>3, <2>3 DEF Kept
    <2>4. QED
      BY <1>2, <2>2, <2>3
  <1>5. HwType' /\ HwSending' /\ ~Sending'
    BY <1>2, <1>3, <1>4, StillAfter DEF Later
  <1>6. P_RESET
    BY <1>2 DEF StillStep
  <1>7. ASSUME ~usrRst' PROVE seq' = 0 \/ seq' > quiet'
    <2>1. ~usrRst /\ (seq = 0 \/ seq > quiet)
      BY <1>2, <1>7 DEF HwReset
    <2>2. seq = 0 => seq' = 0
      BY <1>3, <1>6, <2>1, SeqStep
    <2>3. seq # 0 => seq' = 0 \/ seq' = seq + 1
      BY <1>3, <1>6, SeqStep
    <2>4. Gap \in Nat /\ quiet' \in 0..Gap /\ (quiet' = 0 \/ quiet' <= quiet + 1)
      BY FifoAssumption DEF Later
    <2>5. QED
      BY <1>3, <2>1, <2>2, <2>3, <2>4
  <1>8. ASSUME ien' PROVE ~usrRst' /\ seq' = 0
    <2>1. ~aRst /\ ien
      BY <1>2, <1>8 DEF Cleared
    <2>2. ~usrRst /\ seq = 0
      BY <2>1 DEF HwReset
    <2>3. QED
      BY <1>2, <1>3, <1>6, <2>2, SeqStep
  <1>9. QED
    BY <1>5, <1>7, <1>8 DEF HwReset

\* In that time nothing happens to the FIFOs of a driver that is ready.
LEMMA ReadyTime ==
    ASSUME HwType, HwReset, HwSending, HwPc, pc \in Ready, ~Sending, useIrq \in BOOLEAN, NEW bus, Idling(bus),
           NEW take \in BOOLEAN, NEW give \in BOOLEAN, Clock(bus, take, give)
    PROVE  /\ out' = out /\ inp' = inp /\ wcntReg' = wcntReg
           /\ usrRst' = FALSE /\ ien' = useIrq
           /\ seq' = 0 \/ Empty'
  <1>1. Still
    BY StillNow
  <1>2. /\ StillStep /\ usrRst' = usrRst
        /\ \/ aRst /\ Cleared
           \/ ~aRst /\ Kept /\ ien' = ien
    BY <1>1, StillIdle
  <1>3. usrRst = FALSE /\ ien = useIrq /\ (seq = 0 \/ Empty) /\ seq \in 0..7
    BY DEF HwPc, HwType
  <1>4. P_RESET
    BY <1>2 DEF StillStep
  <1>5. CASE aRst
    <2>1. seq # 0
      BY <1>5 DEF aRst
    <2>2. ien = FALSE
      BY <2>1 DEF HwReset, HwType
    <2>3. QED
      BY <1>2, <1>3, <1>5, <2>1, <2>2 DEF Cleared, Empty
  <1>6. CASE ~aRst
    <2>1. out' = out /\ inp' = inp /\ wcntReg' = wcntReg /\ ien' = ien
      BY <1>2, <1>6 DEF Kept
    <2>2. seq = 0 => seq' = 0
      BY <1>3, <1>4, SeqStep
    <2>3. QED
      BY <1>2, <1>3, <2>1, <2>2 DEF Empty
  <1>7. QED
    BY <1>5, <1>6

\* A clock with a message under way: it still is, or the reply has come.
LEMMA SendingTime ==
    ASSUME MsgInv, HwType, HwReset, HwSending, Sending, wcntReg = 0, NEW bus, Idling(bus),
           NEW take \in BOOLEAN, NEW give \in BOOLEAN, Clock(bus, take, give), quiet' \in 0..Gap, zf' = zf,
           msg' = msg, pc' \in Waiting \cup {"down"}
    PROVE  /\ HwType' /\ HwReset' /\ HwSending' /\ usrRst' = FALSE /\ seq' = 0 /\ ien' = ien
           /\ ~Sending' \/ wcntReg' # 0 => Replied'
  <1>1. /\ usrRst' = FALSE /\ seq' = 0 /\ ien' = ien
        /\ out' \in Seq(Words) /\ outReg' \in Seq(Words) /\ inp' \in Seq(Words) /\ owner' \in BOOLEAN
        /\ wcntCnt' = Len(inp') /\ tgt' \in Targets
        /\ \/ UnderWay(tgt', outReg', out', inp', owner', wcntReg', msg)
           \/ Arrived(tgt', outReg', out', inp', owner', wcntReg', mem', msg)
    BY SendingClock
  <1>2. msg.n \in Nat /\ ien \in BOOLEAN /\ zf.rst = {} /\ zf.go = <<>> /\ ~usrRst /\ seq = 0
    BY DEF MsgInv, Msgs, HwType, HwSending
  <1>3. HwReset'
    BY <1>1, <1>2 DEF HwReset
  <1>4. CASE UnderWay(tgt', outReg', out', inp', owner', wcntReg', msg)
    <2>1. Moving(tgt', outReg', out', inp', owner', msg) /\ wcntReg' = 0
      BY <1>4 DEF UnderWay
    <2>2. owner' \/ tgt'.ended
      BY <2>1 DEF Moving
    <2>3. Sending'
      BY <2>2, FreshTarget DEF Sending, Fresh
    <2>4. HwType'
      BY <1>1, <1>2, <2>1 DEF HwType
    <2>5. HwSending'
      BY <1>1, <2>1, <2>3 DEF HwSending, Reading, Waiting
    <2>6. QED
      BY <1>1, <1>3, <2>1, <2>3, <2>4, <2>5
  <1>5. CASE Arrived(tgt', outReg', out', inp', owner', wcntReg', mem', msg)
    <2>1. /\ Whole(inp', msg) /\ wcntReg' = msg.n + 1
          /\ Gone(tgt', outReg', out', owner') \/ Draining(tgt', outReg', out', owner', mem', msg)
      BY <1>5 DEF Arrived
    <2>2. wcntReg' \in Nat /\ wcntReg' # 0
      BY <1>2, <2>1
    <2>3. HwType'
      BY <1>1, <1>2, <2>2 DEF HwType
    <2>4. CASE Gone(tgt', outReg', out', owner')
      <3>1. tgt' = Fresh /\ owner' = FALSE /\ outReg' = <<>> /\ out' = <<>>
        BY <2>4 DEF Gone
      <3>2. ~Sending'
        BY <3>1 DEF Sending, Fresh
      <3>3. HwSending' /\ Replied'
        BY <2>1, <3>1, <3>2 DEF HwSending, Replied
      <3>4. QED
        BY <1>1, <1>3, <2>3, <3>3
    <2>5. CASE Draining(tgt', outReg', out', owner', mem', msg)
      <3>1. tgt'.frame # <<>>
        BY <2>5 DEF Draining, Overtaken
      <3>2. Sending'
        BY <3>1, FreshTarget DEF Sending, Fresh
      <3>3. HwSending'
        BY <1>1, <2>2, <2>5, <3>2 DEF HwSending, Reading, Waiting
      <3>4. Replied'
        BY <2>1, <3>2 DEF Replied
      <3>5. QED
        BY <1>1, <1>3, <2>3, <3>3, <3>4
    <2>6. QED
      BY <2>1, <2>4, <2>5
  <1>6. QED
    BY <1>1, <1>4, <1>5

\* A clock with the rest of a request under way.
LEMMA DrainingTime ==
    ASSUME MsgInv, HwType, HwReset, HwSending, Sending, wcntReg # 0, NEW bus, Idling(bus),
           NEW take \in BOOLEAN, NEW give \in BOOLEAN, Clock(bus, take, give), quiet' \in 0..Gap, zf' = zf,
           msg' = msg, pc' \in Reading
    PROVE  /\ HwType' /\ HwReset' /\ HwSending' /\ usrRst' = FALSE /\ seq' = 0 /\ ien' = ien
           /\ inp' = inp /\ wcntReg' = wcntReg
           /\ Sending' => Fewer
           /\ ~Sending' => out' = <<>>
  <1>1. /\ usrRst' = FALSE /\ seq' = 0 /\ ien' = ien /\ Absorbed(msg)
        /\ inp' = inp /\ wcntReg' = wcntReg /\ wcntCnt' = wcntCnt
    BY DrainIdle
  <1>2. msg \in Msgs /\ ien \in BOOLEAN /\ zf.rst = {} /\ zf.go = <<>> /\ ~usrRst /\ seq = 0
    BY DEF MsgInv, HwType, HwSending
  <1>3. /\ outReg' \in Seq(Words) /\ out' \in Seq(Words) /\ owner' \in BOOLEAN /\ tgt' \in Targets
        /\ Sending' => Draining(tgt', outReg', out', owner', mem', msg) /\ Fewer
        /\ ~Sending' => outReg' = <<>> /\ out' = <<>>
    BY <1>1, <1>2, AbsorbedTypes
  <1>4. HwReset'
    BY <1>1, <1>2 DEF HwReset
  <1>5. HwType'
    BY <1>1, <1>2, <1>3 DEF HwType
  <1>6. HwSending'
    BY <1>1, <1>3 DEF HwSending
  <1>7. QED
    BY <1>1, <1>3, <1>4, <1>5, <1>6

\* The request that is absorbed stays behind: a clock passes.
LEMMA BehindTick ==
    ASSUME HwType, HwType', quiet' <= quiet + 1, Fewer,
           NEW h \in Nat, NEW n \in Nat, Behind(outReg, out, quiet, h, n)
    PROVE  Behind(outReg', out', quiet', h, n)
  <1> DEFINE x == Len(outReg) + Len(out)
             y == Len(outReg') + Len(out')
  <1>1. x \in Nat /\ y \in Nat /\ quiet \in Nat /\ quiet' \in Nat
    <2>1. Len(outReg) \in Nat /\ Len(out) \in Nat /\ Len(outReg') \in Nat /\ Len(out') \in Nat
      BY DEF HwType
    <2>2. Gap \in Nat /\ quiet \in 0..Gap /\ quiet' \in 0..Gap
      BY FifoAssumption DEF HwType
    <2>3. QED
      BY <2>1, <2>2
  <1>2. y + 1 = x /\ x + (Slack(quiet) + 2 * h) <= 2 + 2 * n
    BY DEF Fewer, Behind
  <1>3. Slack(quiet) \in Nat /\ Slack(quiet') \in Nat /\ Slack(quiet') <= Slack(quiet) + 1
    BY <1>1 DEF Slack
  <1> HIDE DEF x, y
  <1>4. y + (Slack(quiet') + 2 * h) <= 2 + 2 * n
    BY <1>1, <1>2, <1>3
  <1>5. QED
    BY <1>4 DEF Behind, y

\* A word of the reply is read: there was time for two of the request.
LEMMA BehindRead ==
    ASSUME HwType, HwType', quiet = Gap, quiet' = 0, Fewer,
           NEW h \in Nat, NEW n \in Nat, Behind(outReg, out, quiet, h, n)
    PROVE  Behind(outReg', out', quiet', h + 1, n) /\ h < n
  <1> DEFINE x == Len(outReg) + Len(out)
             y == Len(outReg') + Len(out')
  <1>1. x \in Nat /\ y \in Nat
    <2>1. Len(outReg) \in Nat /\ Len(out) \in Nat /\ Len(outReg') \in Nat /\ Len(out') \in Nat
      BY DEF HwType
    <2>2. QED
      BY <2>1
  <1>2. y + 1 = x /\ x + (Slack(quiet) + 2 * h) <= 2 + 2 * n
    BY DEF Fewer, Behind
  <1>3. Slack(quiet) = 2 /\ Slack(quiet') = 0
    BY FifoAssumption DEF Slack
  <1> HIDE DEF x, y
  <1>4. y + (0 + 2 * (h + 1)) <= 2 + 2 * n /\ h < n
    BY <1>1, <1>2, <1>3
  <1>5. QED
    BY <1>3, <1>4 DEF Behind, y

\* The header of the reply is read: that of the request was taken before.
LEMMA BehindFirst ==
    ASSUME NEW p \in Msgs, Draining(tgt, outReg, out, owner, mem, p), HwType, HwType', quiet' = 0, Fewer
    PROVE  Behind(outReg', out', quiet', 1, p.n) /\ p.n # 0
  <1> DEFINE l == Len(tgt.frame)
             x == Len(outReg) + Len(out)
             y == Len(outReg') + Len(out')
             n == p.n
  <1>1. x \in Nat /\ y \in Nat
    <2>1. Len(outReg) \in Nat /\ Len(out) \in Nat /\ Len(outReg') \in Nat /\ Len(out') \in Nat
      BY DEF HwType
    <2>2. QED
      BY <2>1
  <1>2. l \in Nat /\ l # 0 /\ l + x = 1 + 2 * n /\ l < 1 + 2 * n /\ n \in Nat
    <2>1. tgt.frame # <<>> /\ tgt.frame \in Seq(Words) /\ l + x = 1 + 2 * n /\ l < 1 + 2 * n /\ n \in Nat
      BY DEF Draining, Overtaken, Left, Run, Msgs
    <2>2. QED
      BY <2>1, NoWords
  <1>3. y + 1 = x
    BY DEF Fewer
  <1>4. Slack(quiet') = 0
    BY DEF Slack
  <1> HIDE DEF l, x, y, n
  <1>5. y + (0 + 2 * 1) <= 2 + 2 * n /\ n # 0
    BY <1>1, <1>2, <1>3
  <1>6. QED
    BY <1>4, <1>5 DEF Behind, y, n

\* The hardware as it was.
LEMMA SameHw ==
    ASSUME HwType, HwReset, UNCHANGED <<tmemVars, quiet, tgt, zf>>
    PROVE  /\ HwType' /\ HwReset' /\ (Sending' => Sending) /\ (Sending => Sending') /\ (Empty => Empty')
  BY DEF HwType, HwReset, tmemVars, Sending, Empty, Fresh

\* XferInv and MsgInv speak of the driver alone.
LEMMA SameXfer ==
    ASSUME MsgInv, XferInv, UNCHANGED <<xferVars, pc, msg, nCalls>>
    PROVE  MsgInv' /\ XferInv'
  BY DEF MsgInv, XferInv, xferVars

-----------------------------------------------------------------------------
(* JtagDriverTmemFifo, a step at a time *)

\* The driver waits for the reply: a clock, with a look at the status register or not.
LEMMA WaitingPc ==
    ASSUME HwPc, pc \in Waiting \cup {"down"}, pc' \in Waiting \cup {"down"}, pc' = "down" => pc = "down",
           pc = "down" => pc' = "down",
           usrRst' = FALSE, seq' = 0 \/ Empty', ien' = ien, useIrq' = useIrq,
           pc' \in Waiting /\ (~Sending' \/ wcntReg' # 0) => Replied'
    PROVE  HwPc'
  <1>1. pc' \in Ready => pc \in Ready
    BY DEF Ready, Waiting
  <1>2. pc' \in Ready => ien' = useIrq'
    BY <1>1 DEF HwPc
  <1>3. QED
    BY <1>2 DEF HwPc, Waiting, Ready, ZResetting

\* Tick: a clock without an access.
LEMMA TmemTick ==
    ASSUME FifoInv, kind = "tmem", NEW take \in BOOLEAN, NEW give \in BOOLEAN, Tick(take, give)
    PROVE  FifoInv'
  <1>1. useIrq \in BOOLEAN /\ MsgInv /\ XferInv /\ HwType /\ HwReset /\ HwSending /\ HwPc
    BY TmemParts
  <1>2. /\ Clock(NoAccess, take, give) /\ quiet' = Min({Gap, quiet + 1}) /\ zf' = zf /\ pc' = pc
        /\ UNCHANGED <<xferVars, kind, useIrq, msg, csr, nCalls>>
    BY DEF Tick, drvVars
  <1>3. MsgInv' /\ XferInv'
    BY <1>1, <1>2, SameXfer
  <1>4. Idling(NoAccess)
    BY DEF Idling, NoAccess
  <1>5. Gap \in Nat /\ quiet \in 0..Gap
    BY <1>1, FifoAssumption DEF HwType
  <1>6. quiet' \in 0..Gap /\ quiet' <= quiet + 1
    <2>1. quiet + 1 \in Nat
      BY <1>5
    <2>2. quiet' \in {Gap, quiet + 1} /\ quiet' <= Gap /\ quiet' <= quiet + 1
      BY <1>2, <1>5, <2>1, MinOfTwo
    <2>3. QED
      BY <1>5, <2>1, <2>2
  <1>7. Later
    BY <1>6 DEF Later
  <1>8. CASE Sending /\ wcntReg = 0
    <2>1. pc \in Waiting \cup {"down"}
      BY <1>1, <1>8 DEF HwSending, Reading
    <2>2. /\ HwType' /\ HwReset' /\ HwSending' /\ usrRst' = FALSE /\ seq' = 0 /\ ien' = ien
          /\ ~Sending' \/ wcntReg' # 0 => Replied'
      BY <1>1, <1>2, <1>4, <1>6, <1>8, <2>1, SendingTime
    <2>3. HwPc'
      BY <1>1, <1>2, <2>1, <2>2, WaitingPc
    <2>4. QED
      BY <1>1, <1>2, <1>3, <2>2, <2>3, TmemWhole
  <1>9. CASE ~Sending
    <2>1. HwType' /\ HwReset' /\ HwSending' /\ ~Sending'
      BY <1>1, <1>2, <1>4, <1>7, <1>9, StillTime
    <2>2. HwPc'
      <3>1. CASE pc \in Ready
        <4>1. /\ out' = out /\ inp' = inp /\ wcntReg' = wcntReg
              /\ usrRst' = FALSE /\ ien' = useIrq
              /\ seq' = 0 \/ Empty'
          BY <1>1, <1>2, <1>4, <1>9, <3>1, ReadyTime
        <4>2. i' = i /\ rx' = rx /\ msg' = msg /\ csr' = csr /\ useIrq' = useIrq
          BY <1>2 DEF xferVars
        <4>3. pc \notin {"unrst", "ien"}
          BY <3>1 DEF Ready, Waiting
        <4>4. QED
          BY <1>1, <1>2, <1>9, <2>1, <4>1, <4>2, <4>3 DEF HwPc, Empty, Replied
      <3>2. CASE pc \in {"unrst", "ien"}
        <4>1. Still
          BY <1>1, <1>9, StillNow
        <4>2. /\ StillStep /\ usrRst' = usrRst
              /\ \/ aRst /\ Cleared
                 \/ ~aRst /\ Kept /\ ien' = ien
          BY <1>1, <1>2, <1>4, <4>1, StillIdle
        <4>3. Empty => Empty'
          BY <4>2 DEF Cleared, Kept, Empty
        <4>4. aRst => Empty'
          BY <4>2 DEF Cleared, Empty
        <4>5. ASSUME pc = "unrst" PROVE usrRst' /\ (Empty' \/ (seq' <= 5 /\ quiet' <= seq'))
          <5>1. usrRst /\ (Empty \/ (seq <= 5 /\ quiet <= seq)) /\ seq \in 0..7
            BY <1>1, <4>5 DEF HwPc, HwType
          <5>2. CASE Empty \/ aRst
            BY <4>2, <4>3, <4>4, <5>1, <5>2
          <5>3. CASE ~Empty /\ ~aRst
            <6>1. seq <= 4 /\ quiet <= seq
              BY <5>1, <5>3 DEF aRst
            <6>2. seq' = seq + 1
              <7>1. P_RESET /\ (seq = 0 \/ seq \in 1..5)
                BY <4>2, <5>1, <6>1 DEF StillStep
              <7>2. seq = 0 => 1 = seq + 1
                OBVIOUS
              <7>3. QED
                BY <5>1, <7>1, <7>2, SeqStep
            <6>3. QED
              BY <1>5, <1>6, <4>2, <5>1, <6>1, <6>2
          <5>4. QED
            BY <5>2, <5>3
        <4>6. QED
          BY <1>1, <1>2, <3>2, <4>2, <4>3, <4>5 DEF HwPc, Ready, Waiting, ZResetting
      <3>3. CASE pc \notin Ready \cup {"unrst", "ien"}
        BY <1>1, <1>2, <3>3 DEF HwPc, Ready, Waiting, ZResetting
      <3>4. QED
        BY <3>1, <3>2, <3>3
    <2>3. QED
      BY <1>1, <1>2, <1>3, <2>1, <2>2, TmemWhole
  <1>10. CASE Sending /\ wcntReg # 0
    <2>1. pc \in Reading
      BY <1>1, <1>10 DEF HwSending
    <2>2. /\ HwType' /\ HwReset' /\ HwSending' /\ usrRst' = FALSE /\ seq' = 0 /\ ien' = ien
          /\ inp' = inp /\ wcntReg' = wcntReg
          /\ Sending' => Fewer
          /\ ~Sending' => out' = <<>>
      BY <1>1, <1>2, <1>4, <1>6, <1>10, <2>1, DrainingTime
    <2>3. i' = i /\ rx' = rx /\ msg' = msg /\ csr' = csr /\ useIrq' = useIrq
      BY <1>2 DEF xferVars
    <2>4. CASE pc = "data"
      <3>1. /\ Run(inp, msg, Len(rx)) /\ Len(inp) = wcntReg /\ wcntReg + Len(rx) = msg.n + 1
            /\ Behind(outReg, out, quiet, Len(rx), msg.n) /\ ien = useIrq
        BY <1>1, <1>10, <2>4 DEF HwPc, Ready
      <3>2. Len(rx) \in Nat /\ msg.n \in Nat
        BY <1>1, <2>4 DEF XferInv, Run, MsgInv, Msgs
      <3>3. Sending' => Behind(outReg', out', quiet', Len(rx), msg.n)
        BY <1>1, <1>6, <2>2, <3>1, <3>2, BehindTick
      <3>4. HwPc'
        BY <1>2, <2>2, <2>3, <2>4, <3>1, <3>3 DEF HwPc, Ready, Waiting, ZResetting
      <3>5. QED
        BY <1>1, <1>2, <1>3, <2>2, <3>4, TmemWhole
    <2>5. CASE pc \in Waiting \cup {"hdr"}
      <3>1. Replied /\ ien = useIrq
        BY <1>1, <1>10, <2>5 DEF HwPc, Ready
      <3>2. Replied'
        BY <2>2, <2>3, <3>1 DEF Replied
      <3>3. HwPc'
        BY <1>2, <2>2, <2>3, <2>5, <3>1, <3>2 DEF HwPc, Ready, Waiting, ZResetting
      <3>4. QED
        BY <1>1, <1>2, <1>3, <2>2, <3>3, TmemWhole
    <2>6. CASE pc = "down"
      <3>1. HwPc'
        BY <1>2, <2>6 DEF HwPc, Ready, Waiting, ZResetting
      <3>2. QED
        BY <1>1, <1>2, <1>3, <2>2, <3>1, TmemWhole
    <2>7. QED
      BY <2>1, <2>4, <2>5, <2>6 DEF Reading
  <1>11. QED
    BY <1>8, <1>9, <1>10

\* An access: the bus carries one clock, and the next access is far.
LEMMA AccessParts ==
    ASSUME NEW bus, Access(bus)
    PROVE  /\ quiet = Gap /\ quiet' = 0 /\ quiet' \in 0..Gap /\ zf' = zf /\ kind = "tmem"
           /\ \E take, give \in BOOLEAN : Clock(bus, take, give)
  BY FifoAssumption DEF Access, Clock

\* While reset() runs there is no message.
LEMMA NoMessage == NoMsg \in Msgs /\ NoMsg.n = 0 /\ NoMsg.size = 0 /\ (0 + 3) \div 4 = 0
  BY DEF NoMsg, Msgs

\* reset() goes on, or is over.
LEMMA ResettingXfer ==
    ASSUME MsgInv, XferInv, pc \in Resetting, pc' \in Resetting \cup {"idle", "down"},
           UNCHANGED <<xferVars, msg, nCalls>>
    PROVE  MsgInv' /\ XferInv'
  <1>1. msg = NoMsg /\ i \in Nat /\ got \in Nat
    BY DEF XferInv
  <1>2. MsgInv'
    BY DEF MsgInv
  <1>3. QED
    BY <1>1, <1>2 DEF XferInv, xferVars, Ready, Resetting, ZResetting, Waiting

\* Magic: the constructor reads the magic number, and perhaps a word that was left.
LEMMA TmemMagic ==
    ASSUME FifoInv, kind = "tmem", Magic
    PROVE  FifoInv'
  <1>1. useIrq \in BOOLEAN /\ MsgInv /\ XferInv /\ HwType /\ HwReset /\ HwSending /\ HwPc
    BY TmemParts
  <1>2. pc = "magic" /\ Access(ReadData) /\ pc' \in {"down", "vers"} /\ UNCHANGED <<drvVars, xferVars>>
    BY DEF Magic
  <1>3. UNCHANGED <<kind, useIrq, msg, nCalls>>
    BY <1>2 DEF drvVars
  <1>4. Still
    BY <1>1, <1>2, StillNow DEF Reading, Waiting
  <1>5. PICK take, give \in BOOLEAN : Clock(ReadData, take, give)
    BY <1>2, AccessParts
  <1>6. quiet' = 0 /\ quiet' \in 0..Gap /\ zf' = zf
    BY <1>2, AccessParts
  <1>7. /\ StillStep /\ owner' = FALSE /\ usrRst' = usrRst
        /\ \/ aRst /\ Cleared
           \/ /\ ~aRst /\ ien' = ien /\ out' = out
              /\ wcntReg' = IF wcntReg # 0 THEN wcntReg - 1 ELSE 0
              /\ \/ ~(wcntReg # 0 /\ inp # <<>> /\ seq = 0) /\ inp' = inp /\ wcntCnt' = wcntCnt
                 \/ inp # <<>> /\ inp' = Tail(inp) /\ wcntCnt' = wcntCnt - 1
    BY <1>1, <1>4, <1>5, StillRdat
  <1>8. /\ usrRst \in BOOLEAN /\ ien \in BOOLEAN /\ seq \in 0..7 /\ wcntReg \in Nat
        /\ out \in Seq(Words) /\ inp \in Seq(Words) /\ wcntCnt = Len(inp)
    BY <1>1 DEF HwType
  <1>9. ien' \in BOOLEAN /\ wcntReg' \in Nat /\ out' \in Seq(Words) /\ inp' \in Seq(Words) /\ wcntCnt' = Len(inp')
    <2>1. <<>> \in Seq(Words) /\ Len(<<>>) = 0
      OBVIOUS
    <2>2. CASE Cleared
      BY <2>1, <2>2 DEF Cleared
    <2>3. CASE ~Cleared
      <3>1. ien' = ien /\ out' = out /\ wcntReg' = IF wcntReg # 0 THEN wcntReg - 1 ELSE 0
        BY <1>7, <2>3
      <3>2. wcntReg' \in Nat
        BY <1>8, <3>1
      <3>3. CASE inp' = inp /\ wcntCnt' = wcntCnt
        BY <1>8, <3>1, <3>2, <3>3
      <3>4. CASE inp # <<>> /\ inp' = Tail(inp) /\ wcntCnt' = wcntCnt - 1
        <4>1. Tail(inp) \in Seq(Words) /\ Len(Tail(inp)) = Len(inp) - 1
          BY <1>8, <3>4
        <4>2. QED
          BY <1>8, <3>1, <3>2, <3>4, <4>1
      <3>5. QED
        BY <1>7, <2>3, <3>3, <3>4
    <2>4. QED
      BY <2>2, <2>3
  <1>10. HwType' /\ HwSending' /\ ~Sending'
    BY <1>1, <1>6, <1>7, <1>8, <1>9, StillAfter
  <1>11. HwReset'
    <2>1. ASSUME ien' PROVE ~usrRst' /\ seq' = 0
      <3>1. ien
        BY <1>7, <2>1 DEF Cleared
      <3>2. ~usrRst /\ seq = 0
        BY <1>1, <3>1 DEF HwReset
      <3>3. QED
        BY <1>7, <1>8, <3>2, SeqStep DEF StillStep
    <2>2. QED
      BY <1>1, <1>6, <1>7, <2>1, ResetAfter
  <1>12. HwPc'
    BY <1>2 DEF HwPc, Ready, Waiting, ZResetting
  <1>13. MsgInv' /\ XferInv'
    BY <1>1, <1>2, <1>3, ResettingXfer DEF Resetting
  <1>14. QED
    BY <1>1, <1>3, <1>10, <1>11, <1>12, <1>13, TmemWhole

\* Vers: the constructor reads the version.
LEMMA TmemVers ==
    ASSUME FifoInv, kind = "tmem", Vers
    PROVE  FifoInv'
  <1>1. useIrq \in BOOLEAN /\ MsgInv /\ XferInv /\ HwType /\ HwReset /\ HwSending /\ HwPc
    BY TmemParts
  <1>2. /\ pc = "vers" /\ Access(ReadCsr) /\ pc' \in {"down", "rst"}
        /\ UNCHANGED <<xferVars, kind, useIrq, msg, nCalls>>
    BY DEF Vers, drvVars
  <1>3. ~Sending
    BY <1>1, <1>2, StillNow DEF Reading, Waiting
  <1>4. PICK take, give \in BOOLEAN : Clock(ReadCsr, take, give)
    BY <1>2, AccessParts
  <1>5. Later /\ zf' = zf
    BY <1>2, AccessParts DEF Later
  <1>6. Idling(ReadCsr)
    BY DEF Idling, ReadCsr
  <1>7. HwType' /\ HwReset' /\ HwSending' /\ ~Sending'
    BY <1>1, <1>3, <1>4, <1>5, <1>6, StillTime
  <1>8. HwPc'
    BY <1>2 DEF HwPc, Ready, Waiting, ZResetting
  <1>9. MsgInv' /\ XferInv'
    BY <1>1, <1>2, ResettingXfer DEF Resetting
  <1>10. QED
    BY <1>1, <1>2, <1>7, <1>8, <1>9, TmemWhole

\* The status register is written with nothing under way.
LEMMA WriteTime ==
    ASSUME HwType, HwReset, HwSending, pc \notin Reading,
           NEW rst \in BOOLEAN, NEW ie \in BOOLEAN, Access(WriteCsr(rst, FALSE, ie)),
           ie => ~rst /\ ~usrRst
    PROVE  /\ HwType' /\ HwReset' /\ HwSending' /\ usrRst' = rst
           /\ Empty => Empty'
           /\ ~rst /\ ~usrRst => ien' = ie /\ seq' = 0
           /\ ~ie => ien' = FALSE
           /\ quiet' = 0 /\ (Empty' \/ seq' <= 5)
  <1>1. Still
    BY StillNow
  <1>2. PICK take, give \in BOOLEAN : Clock(WriteCsr(rst, FALSE, ie), take, give)
    BY AccessParts
  <1>3. quiet' = 0 /\ quiet' \in 0..Gap /\ zf' = zf /\ quiet = Gap
    BY AccessParts
  <1>4. /\ StillStep /\ usrRst' = rst
        /\ \/ aRst /\ Cleared
           \/ ~aRst /\ Kept /\ ien' = ie /\ owner' = FALSE
    BY <1>1, <1>2, StillWcsr
  <1>5. /\ usrRst \in BOOLEAN /\ ien \in BOOLEAN /\ seq \in 0..7 /\ wcntReg \in Nat
        /\ out \in Seq(Words) /\ inp \in Seq(Words) /\ wcntCnt = Len(inp)
    BY DEF HwType
  <1>6. /\ ien' \in BOOLEAN /\ wcntReg' \in Nat /\ out' \in Seq(Words) /\ inp' \in Seq(Words) /\ wcntCnt' = Len(inp')
        /\ owner' = FALSE /\ (ien' => ie /\ ~aRst) /\ (~ie => ien' = FALSE) /\ (Empty => Empty')
    <2>1. <<>> \in Seq(Words) /\ Len(<<>>) = 0
      OBVIOUS
    <2>2. CASE Cleared
      BY <2>1, <2>2 DEF Cleared, Empty
    <2>3. CASE ~aRst /\ Kept /\ ien' = ie /\ owner' = FALSE
      BY <1>5, <2>3 DEF Kept, Empty
    <2>4. QED
      BY <1>4, <2>2, <2>3
  <1>7. HwType' /\ HwSending'
    BY <1>3, <1>4, <1>5, <1>6, StillAfter
  <1>8. ASSUME ~usrRst PROVE seq = 0 /\ ~aRst /\ seq' = 0
    <2>1. seq = 0 /\ ~aRst
      BY <1>3, <1>5, <1>8, AccessReady
    <2>2. QED
      BY <1>4, <1>5, <1>8, <2>1, SeqStep DEF StillStep
  <1>9. HwReset'
    <2>1. ASSUME ien' PROVE ~usrRst' /\ seq' = 0
      BY <1>4, <1>6, <1>8, <2>1
    <2>2. QED
      BY <1>3, <1>4, <2>1, ResetAfter
  <1>10. Empty' \/ seq' <= 5
    <2>1. CASE aRst
      BY <1>4, <2>1 DEF Cleared, Empty
    <2>2. CASE ~aRst
      <3>1. seq \in 0..4 /\ P_RESET
        BY <1>4, <1>5, <2>2 DEF aRst, StillStep
      <3>2. seq' \in {0, 1} \/ seq' = seq + 1
        BY <1>5, <3>1, SeqStep
      <3>3. QED
        BY <3>1, <3>2
    <2>3. QED
      BY <2>1, <2>2
  <1>11. QED
    BY <1>3, <1>4, <1>6, <1>7, <1>8, <1>9, <1>10

\* Rst: the reset of the FIFO is asked for.
LEMMA TmemRst ==
    ASSUME FifoInv, kind = "tmem", Rst
    PROVE  FifoInv'
  <1>1. useIrq \in BOOLEAN /\ MsgInv /\ XferInv /\ HwType /\ HwReset /\ HwSending /\ HwPc
    BY TmemParts
  <1>2. /\ pc = "rst" /\ Access(WriteCsr(TRUE, FALSE, FALSE)) /\ pc' = "unrst"
        /\ UNCHANGED <<xferVars, kind, useIrq, msg, nCalls>>
    <2>1. pc = "rst" /\ Access(WriteCsr(TRUE, FALSE, FALSE)) /\ pc' = "unrst" /\ UNCHANGED <<drvVars, xferVars>>
      BY Zenon DEF Rst
    <2>2. UNCHANGED <<xferVars, kind, useIrq, msg, nCalls>>
      BY <2>1 DEF drvVars, xferVars
    <2>3. QED
      BY <2>1, <2>2, Zenon
  <1>3. pc \notin Reading
    BY <1>2 DEF Reading, Waiting
  <1>4. /\ HwType' /\ HwReset' /\ HwSending' /\ usrRst' = TRUE
        /\ quiet' = 0 /\ (Empty' \/ seq' <= 5)
    BY <1>1, <1>2, <1>3, WriteTime
  <1>5. 0 <= seq'
    BY <1>4 DEF HwType
  <1>6. HwPc'
    BY <1>2, <1>4, <1>5 DEF HwPc, Ready, Waiting, ZResetting
  <1>7. MsgInv' /\ XferInv'
    BY <1>1, <1>2, ResettingXfer DEF Resetting
  <1>8. QED
    BY <1>1, <1>2, <1>4, <1>6, <1>7, TmemWhole

\* Unrst: by now it has cleared the FIFO.
LEMMA TmemUnrst ==
    ASSUME FifoInv, kind = "tmem", Unrst
    PROVE  FifoInv'
  <1>1. useIrq \in BOOLEAN /\ MsgInv /\ XferInv /\ HwType /\ HwReset /\ HwSending /\ HwPc
    BY TmemParts
  <1>2. /\ pc = "unrst" /\ Access(WriteCsr(FALSE, FALSE, FALSE)) /\ pc' \in {"ien", "idle", "rst"}
        /\ pc' = "ien" => useIrq
        /\ pc' # "ien" => ~useIrq
        /\ UNCHANGED <<xferVars, kind, useIrq, msg, nCalls>>
    BY DEF Unrst, ResetEnd, drvVars
  <1>3. pc \notin Reading
    BY <1>2 DEF Reading, Waiting
  <1>4. /\ HwType' /\ HwReset' /\ HwSending' /\ usrRst' = FALSE /\ ien' = FALSE
        /\ Empty => Empty'
    BY <1>1, <1>2, <1>3, WriteTime
  <1>5. Empty
    <2>1. quiet = Gap /\ Gap \in Nat /\ Gap >= 7
      BY <1>2, AccessParts, FifoAssumption
    <2>2. Empty \/ (seq <= 5 /\ quiet <= seq)
      BY <1>1, <1>2 DEF HwPc
    <2>3. seq \in 0..7
      BY <1>1 DEF HwType
    <2>4. QED
      BY <2>1, <2>2, <2>3
  <1>6. HwPc'
    BY <1>1, <1>2, <1>4, <1>5 DEF HwPc, Ready, Waiting, ZResetting
  <1>7. MsgInv' /\ XferInv'
    BY <1>1, <1>2, ResettingXfer DEF Resetting
  <1>8. QED
    BY <1>1, <1>2, <1>4, <1>6, <1>7, TmemWhole

\* Ien: the interrupt is enabled after the reset.
LEMMA TmemIen ==
    ASSUME FifoInv, kind = "tmem", Ien
    PROVE  FifoInv'
  <1>1. useIrq \in BOOLEAN /\ MsgInv /\ XferInv /\ HwType /\ HwReset /\ HwSending /\ HwPc
    BY TmemParts
  <1>2. /\ pc = "ien" /\ Access(WriteCsr(FALSE, FALSE, TRUE)) /\ pc' \in {"idle", "rst"}
        /\ UNCHANGED <<xferVars, kind, useIrq, msg, nCalls>>
    BY DEF Ien, ResetEnd
  <1>3. pc \notin Reading /\ ~usrRst /\ useIrq /\ Empty
    BY <1>1, <1>2 DEF Reading, Waiting, HwPc
  <1>4. /\ HwType' /\ HwReset' /\ HwSending' /\ usrRst' = FALSE /\ ien' = TRUE
        /\ Empty => Empty'
    BY <1>1, <1>2, <1>3, WriteTime
  <1>5. HwPc'
    BY <1>1, <1>2, <1>3, <1>4 DEF HwPc, Ready, Waiting, ZResetting
  <1>6. MsgInv' /\ XferInv'
    BY <1>1, <1>2, ResettingXfer DEF Resetting
  <1>7. QED
    BY <1>1, <1>2, <1>4, <1>5, <1>6, TmemWhole

\* A word of the request is written, the last one or not.
LEMMA WordSent ==
    ASSUME MsgInv, XferInv, pc = "tx", i' = i + 1, UNCHANGED <<msg, nCalls, rx, stored, got>>,
           pc' = "tx" => ~LastWord,
           pc' \in {"rmw", "end"} => LastWord,
           pc' \in {"tx", "rmw", "end"}
    PROVE  MsgInv' /\ XferInv' /\ i < Depth /\ Word(i) = WordOf(msg, i) /\ i \in Nat
  <1>1. /\ msg \in Msgs /\ msg.n \in Nat /\ i \in Nat /\ i <= 2 * msg.n /\ 1 + 2 * msg.n <= Depth
        /\ rx = <<>> /\ stored = 0 /\ got \in Nat
    BY DEF MsgInv, XferInv, Msgs
  <1>2. Depth \in Nat
    BY DepthAssumption
  <1>3. i < Depth
    BY <1>1, <1>2
  <1>4. MsgInv'
    BY DEF MsgInv
  <1>5. (~LastWord => i' <= 2 * msg.n) /\ (LastWord => i' = 1 + 2 * msg.n) /\ i' \in Nat
    BY <1>1 DEF LastWord, TxWords
  <1>6. XferInv'
    BY <1>1, <1>5 DEF XferInv, Ready, Resetting, ZResetting, Waiting
  <1>7. QED
    BY <1>1, <1>3, <1>4, <1>6 DEF Word, WordOf

\* Tx: a word is written, and none is lost.
LEMMA TmemTx ==
    ASSUME FifoInv, kind = "tmem", Tx
    PROVE  FifoInv'
  <1>1. useIrq \in BOOLEAN /\ MsgInv /\ XferInv /\ HwType /\ HwReset /\ HwSending /\ HwPc
    BY TmemParts
  <1>2. /\ pc = "tx" /\ Access(WriteData(Word(i))) /\ i' = i + 1
        /\ pc' = "tx" => ~LastWord
        /\ pc' \in {"rmw", "end"} => LastWord
        /\ pc' \in {"tx", "rmw"}
        /\ UNCHANGED <<msg, nCalls, rx, stored, got, kind, useIrq>>
    BY DEF Tx, ZAccess, drvVars
  <1>3. MsgInv' /\ XferInv' /\ i < Depth /\ Word(i) = WordOf(msg, i) /\ i \in Nat
    BY <1>1, <1>2, WordSent
  <1>4. Still
    BY <1>1, <1>2, StillNow DEF Reading, Waiting
  <1>5. PICK take, give \in BOOLEAN : Clock(WriteData(Word(i)), take, give)
    BY <1>2, AccessParts
  <1>6. quiet' = 0 /\ quiet' \in 0..Gap /\ zf' = zf /\ quiet = Gap
    BY <1>2, AccessParts
  <1>7. /\ Run(out, msg, 0) /\ Len(out) = i /\ inp = <<>> /\ wcntReg = 0 /\ usrRst = FALSE /\ ien = useIrq
        /\ msg \in Msgs
    BY <1>1, <1>2 DEF HwPc, Ready, HwType, MsgInv
  <1>8. seq = 0
    BY <1>1, <1>6, <1>7, AccessReady
  <1>9. /\ StillStep /\ owner' = FALSE /\ usrRst' = usrRst /\ ien' = ien
        /\ out' = Append(out, Word(i)) /\ UNCHANGED <<inp, wcntReg, wcntCnt>>
    BY <1>1, <1>3, <1>4, <1>5, <1>7, <1>8, StillWdat
  <1>10. Run(out', msg, 0) /\ Len(out') = i'
    <2>1. Word(i) = WordOf(msg, 0 + Len(out)) /\ 0 \in Nat
      BY <1>3, <1>7
    <2>2. msg \in Msgs /\ Run(out, msg, 0)
      BY <1>7
    <2>3. Run(Append(out, Word(i)), msg, 0) /\ Len(Append(out, Word(i))) = Len(out) + 1
      BY <2>1, <2>2, RunAppend
    <2>4. QED
      BY <1>2, <1>7, <1>9, <2>3
  <1>11. HwType' /\ HwSending' /\ ~Sending'
    <2>1. out' \in Seq(Words)
      BY <1>10 DEF Run
    <2>2. usrRst' \in BOOLEAN /\ ien' \in BOOLEAN /\ inp' \in Seq(Words) /\ wcntReg' \in Nat /\ wcntCnt' = Len(inp')
      BY <1>1, <1>9 DEF HwType
    <2>3. QED
      BY <1>1, <1>6, <1>9, <2>1, <2>2, StillAfter
  <1>12. seq' = 0
    BY <1>7, <1>8, <1>9, SeqStep DEF StillStep
  <1>13. HwReset'
    BY <1>7, <1>9, <1>12 DEF HwReset
  <1>14. HwPc'
    BY <1>2, <1>7, <1>9, <1>10, <1>12 DEF HwPc, Ready, Waiting, ZResetting
  <1>15. QED
    BY <1>1, <1>2, <1>3, <1>11, <1>13, <1>14, TmemWhole

\* The request is handed over, and the driver waits: nothing of the reply is read yet.
LEMMA HandOver ==
    ASSUME MsgInv, XferInv, UNCHANGED <<xferVars, msg, nCalls>>,
           \/ pc = "rmw" /\ pc' = "eof"
           \/ pc \in {"eof", "end"} /\ pc' = "poll"
           \/ pc \in Waiting /\ pc' \in Waiting
    PROVE  MsgInv' /\ XferInv'
  BY DEF MsgInv, XferInv, xferVars, Ready, Resetting, ZResetting, Waiting

\* Rmw: the status register is read.
LEMMA TmemRmw ==
    ASSUME FifoInv, kind = "tmem", Rmw
    PROVE  FifoInv'
  <1>1. useIrq \in BOOLEAN /\ MsgInv /\ XferInv /\ HwType /\ HwReset /\ HwSending /\ HwPc
    BY TmemParts
  <1>2. /\ pc = "rmw" /\ Access(ReadCsr) /\ pc' = "eof" /\ csr' = Status
        /\ UNCHANGED <<xferVars, msg, nCalls, kind, useIrq>>
    BY DEF Rmw
  <1>3. MsgInv' /\ XferInv'
    BY <1>1, <1>2, HandOver
  <1>4. Still /\ ~Sending
    BY <1>1, <1>2, StillNow DEF Reading, Waiting
  <1>5. PICK take, give \in BOOLEAN : Clock(ReadCsr, take, give)
    BY <1>2, AccessParts
  <1>6. Later /\ zf' = zf
    BY <1>2, AccessParts DEF Later
  <1>7. Idling(ReadCsr)
    BY DEF Idling, ReadCsr
  <1>8. HwType' /\ HwReset' /\ HwSending' /\ ~Sending'
    BY <1>1, <1>4, <1>5, <1>6, <1>7, StillTime
  <1>9. pc \in Ready
    BY <1>2 DEF Ready
  <1>10. /\ out' = out /\ inp' = inp /\ wcntReg' = wcntReg
         /\ usrRst' = FALSE /\ ien' = useIrq
         /\ seq' = 0 \/ Empty'
    BY <1>1, <1>4, <1>5, <1>7, <1>9, ReadyTime
  <1>11. csr'.rst = FALSE /\ csr'.ien = useIrq
    BY <1>1, <1>2, <1>9 DEF Status, HwPc, HwType
  <1>12. HwPc'
    <2>1. i' = i /\ msg' = msg /\ useIrq' = useIrq /\ Run(out, msg, 0) /\ Len(out) = i /\ inp = <<>> /\ wcntReg = 0
      BY <1>1, <1>2 DEF xferVars, HwPc
    <2>2. QED
      BY <1>2, <1>10, <1>11, <2>1 DEF HwPc, Ready, Waiting, ZResetting
  <1>13. QED
    BY <1>1, <1>2, <1>3, <1>8, <1>12, TmemWhole

\* Eof: the streams own the FIFO, with a whole frame in it.
LEMMA TmemEof ==
    ASSUME FifoInv, kind = "tmem", Eof
    PROVE  FifoInv'
  <1>1. useIrq \in BOOLEAN /\ MsgInv /\ XferInv /\ HwType /\ HwReset /\ HwSending /\ HwPc
    BY TmemParts
  <1>2. /\ pc = "eof" /\ Access(WriteCsr(csr.rst, TRUE, csr.ien)) /\ pc' = "poll"
        /\ UNCHANGED <<xferVars, msg, nCalls, kind, useIrq>>
    BY DEF Eof, drvVars
  <1>3. MsgInv' /\ XferInv'
    BY <1>1, <1>2, HandOver
  <1>4. Still
    BY <1>1, <1>2, StillNow DEF Reading, Waiting
  <1>5. /\ Run(out, msg, 0) /\ Len(out) = i /\ inp = <<>> /\ wcntReg = 0 /\ usrRst = FALSE
        /\ csr.rst = FALSE /\ csr.ien = useIrq
        /\ i = 1 + 2 * msg.n /\ msg.n \in Nat /\ msg \in Msgs
    BY <1>1, <1>2 DEF HwPc, Ready, HwType, XferInv, MsgInv, Msgs
  <1>6. PICK take, give \in BOOLEAN : Clock(WriteCsr(FALSE, TRUE, useIrq), take, give)
    BY <1>2, <1>5, AccessParts
  <1>7. quiet' = 0 /\ quiet' \in 0..Gap /\ zf' = zf /\ quiet = Gap
    BY <1>2, AccessParts
  <1>8. seq = 0 /\ ~aRst
    BY <1>1, <1>5, <1>7, AccessReady
  <1>9. StillStep /\ usrRst' = FALSE /\ Kept /\ ien' = useIrq /\ owner' = TRUE
    BY <1>1, <1>4, <1>6, <1>8, StillWcsr
  <1>10. /\ tgt' = Fresh /\ outReg' = <<>> /\ out' = out /\ inp' = <<>> /\ wcntReg' = 0 /\ wcntCnt' = wcntCnt
         /\ seq' = 0 /\ msg' = msg
    BY <1>2, <1>5, <1>8, <1>9, SeqStep DEF StillStep, Kept
  <1>11. HwType'
    <2>1. out \in Seq(Words) /\ inp \in Seq(Words) /\ wcntCnt = Len(inp) /\ zf.rst = {} /\ zf.go = <<>>
      BY <1>1 DEF HwType
    <2>2. <<>> \in Seq(Words) /\ Fresh \in Targets
      BY FreshTarget
    <2>3. inp' = inp /\ out' \in Seq(Words) /\ outReg' \in Seq(Words) /\ tgt' \in Targets
      BY <1>5, <1>10, <2>1, <2>2
    <2>4. inp' \in Seq(Words) /\ wcntCnt' = Len(inp')
      BY <1>10, <2>1, <2>3
    <2>5. usrRst' \in BOOLEAN /\ owner' \in BOOLEAN /\ ien' \in BOOLEAN
      BY <1>1, <1>9
    <2>6. seq' \in 0..7 /\ wcntReg' \in Nat
      BY <1>10
    <2>7. QED
      BY <1>7, <2>1, <2>3, <2>4, <2>5, <2>6 DEF HwType
  <1>12. HwReset'
    BY <1>9, <1>10 DEF HwReset
  <1>13. HwSending' /\ Sending'
    <2>1. Sending'
      BY <1>9 DEF Sending
    <2>2. Flow(Fresh, <<>>, out, <<>>, msg)
      <3>1. Len(<<>>) = 0 /\ 0 + 0 = 0 /\ 0 + (0 + Len(out)) = 1 + 2 * msg.n /\ 0 + Len(out) # 0 /\ 0 <= msg.n
        BY <1>5
      <3>2. QED
        BY <1>5, <3>1, RunEmpty, FreshTarget DEF Flow
    <2>3. Moving(Fresh, <<>>, out, <<>>, TRUE, msg)
      <3>1. Len(<<>>) = 0
        OBVIOUS
      <3>2. QED
        BY <2>2, <3>1, FreshTarget DEF Moving
    <2>4. QED
      BY <1>2, <1>9, <1>10, <2>1, <2>3 DEF HwSending, Reading, Waiting
  <1>14. HwPc'
    BY <1>2, <1>9, <1>10, <1>13 DEF HwPc, Ready, Waiting, ZResetting
  <1>15. QED
    BY <1>1, <1>2, <1>3, <1>11, <1>12, <1>13, <1>14, TmemWhole

\* The reply is there: its length is in got.
LEMMA Counted ==
    ASSUME MsgInv, XferInv, UNCHANGED <<i, rx, stored, msg, nCalls>>, pc \in {"poll", "cnt"}, pc' = "hdr",
           got' = 4 * (msg.n + 1)
    PROVE  MsgInv' /\ XferInv'
  <1>1. msg.n \in Nat
    BY DEF MsgInv, Msgs
  <1>2. got' \in Nat
    BY <1>1
  <1>3. QED
    BY <1>2 DEF MsgInv, XferInv, Ready, Resetting, ZResetting, Waiting

\* Poll: the counter is not zero only once the whole reply has come.
LEMMA TmemPoll ==
    ASSUME FifoInv, kind = "tmem", Poll
    PROVE  FifoInv'
  <1>1. useIrq \in BOOLEAN /\ MsgInv /\ XferInv /\ HwType /\ HwReset /\ HwSending /\ HwPc
    BY TmemParts
  <1>2. /\ pc = "poll" /\ Access(ReadCsr)
        /\ wcntReg = 0 => pc' \in {"poll", "arm"} /\ got' = got
        /\ wcntReg # 0 => got' = 4 * wcntReg /\ pc' = "hdr"
        /\ UNCHANGED <<i, rx, stored, msg, nCalls, kind, useIrq>>
    BY DEF Poll, ZAccess, NotYet, Status, drvVars
  <1>3. PICK take, give \in BOOLEAN : Clock(ReadCsr, take, give)
    BY <1>2, AccessParts
  <1>4. Later /\ zf' = zf /\ quiet' \in 0..Gap
    BY <1>2, AccessParts DEF Later
  <1>5. Idling(ReadCsr)
    BY DEF Idling, ReadCsr
  <1>6. pc \in Ready /\ pc \in Waiting
    BY <1>2 DEF Ready, Waiting
  <1>7. CASE Sending /\ wcntReg = 0
    <2>1. wcntReg = 0
      BY <1>7
    <2>2. pc' \in Waiting /\ pc' # "down" /\ pc # "down" /\ UNCHANGED <<xferVars, msg, nCalls>>
      BY <1>2, <2>1 DEF Waiting, xferVars
    <2>3. MsgInv' /\ XferInv'
      BY <1>1, <1>6, <2>2, HandOver
    <2>4. /\ HwType' /\ HwReset' /\ HwSending' /\ usrRst' = FALSE /\ seq' = 0 /\ ien' = ien
          /\ ~Sending' \/ wcntReg' # 0 => Replied'
      BY <1>1, <1>2, <1>3, <1>4, <1>5, <1>7, <2>2, SendingTime
    <2>5. HwPc'
      BY <1>1, <1>2, <1>6, <2>2, <2>4, WaitingPc
    <2>6. QED
      BY <1>1, <1>2, <2>3, <2>4, <2>5, TmemWhole
  <1>8. CASE ~Sending
    <2>1. HwType' /\ HwReset' /\ HwSending' /\ ~Sending'
      BY <1>1, <1>3, <1>4, <1>5, <1>8, StillTime
    <2>2. /\ out' = out /\ inp' = inp /\ wcntReg' = wcntReg
          /\ usrRst' = FALSE /\ ien' = useIrq
          /\ seq' = 0 \/ Empty'
      BY <1>1, <1>3, <1>5, <1>6, <1>8, ReadyTime
    <2>3. Replied /\ out = <<>> /\ wcntReg = msg.n + 1 /\ msg.n \in Nat
      BY <1>1, <1>6, <1>8 DEF HwPc, Replied, MsgInv, Msgs
    <2>4. wcntReg # 0
      BY <2>3
    <2>5. got' = 4 * (msg.n + 1) /\ pc' = "hdr"
      BY <1>2, <2>3, <2>4
    <2>6. MsgInv' /\ XferInv'
      BY <1>1, <1>2, <2>5, Counted
    <2>7. Replied'
      BY <1>2, <2>2, <2>3 DEF Replied
    <2>8. HwPc'
      BY <1>2, <2>2, <2>5, <2>7 DEF HwPc, Ready, Waiting, ZResetting
    <2>9. QED
      BY <1>1, <1>2, <2>1, <2>6, <2>8, TmemWhole
  <1>9. CASE Sending /\ wcntReg # 0
    <2>1. Replied /\ wcntReg = msg.n + 1 /\ ien = useIrq
      BY <1>1, <1>6, <1>9 DEF HwPc, Replied
    <2>2. got' = 4 * (msg.n + 1) /\ pc' = "hdr"
      BY <1>2, <1>9, <2>1
    <2>3. MsgInv' /\ XferInv'
      BY <1>1, <1>2, <2>2, Counted
    <2>4. pc' \in Reading /\ msg' = msg
      BY <1>2, <2>2 DEF Reading
    <2>5. /\ HwType' /\ HwReset' /\ HwSending' /\ usrRst' = FALSE /\ seq' = 0 /\ ien' = ien
          /\ inp' = inp /\ wcntReg' = wcntReg
          /\ ~Sending' => out' = <<>>
      BY <1>1, <1>3, <1>4, <1>5, <1>9, <2>4, DrainingTime
    <2>6. Replied'
      BY <2>1, <2>4, <2>5 DEF Replied
    <2>7. HwPc'
      BY <1>2, <2>1, <2>2, <2>5, <2>6 DEF HwPc, Ready, Waiting, ZResetting
    <2>8. QED
      BY <1>1, <1>2, <2>3, <2>5, <2>7, TmemWhole
  <1>10. QED
    BY <1>7, <1>8, <1>9

\* A word of the reply is read.
LEMMA ReadTime ==
    ASSUME MsgInv, HwType, HwReset, HwSending, HwPc, pc \in {"hdr", "data"}, Access(ReadData),
           wcntReg # 0, inp # <<>>
    PROVE  /\ HwType' /\ HwReset' /\ usrRst' = FALSE /\ seq' = 0 /\ ien' = ien /\ quiet = Gap /\ quiet' = 0
           /\ inp' = Tail(inp) /\ wcntReg' = wcntReg - 1
           /\ Sending' => Sending /\ Fewer /\ Draining(tgt', outReg', out', owner', mem', msg)
           /\ ~Sending' => outReg' = <<>> /\ out' = <<>>
  <1>1. PICK take, give \in BOOLEAN : Clock(ReadData, take, give)
    BY AccessParts
  <1>2. quiet' = 0 /\ quiet' \in 0..Gap /\ zf' = zf /\ quiet = Gap
    BY AccessParts
  <1>3. usrRst = FALSE
    BY DEF HwPc, HwType, Ready
  <1>4. seq = 0 /\ ~aRst
    BY <1>2, <1>3, AccessReady
  <1>5. /\ ien \in BOOLEAN /\ seq \in 0..7 /\ wcntReg \in Nat /\ out \in Seq(Words) /\ inp \in Seq(Words)
        /\ wcntCnt = Len(inp) /\ zf.rst = {} /\ zf.go = <<>>
    BY DEF HwType
  <1>6. Tail(inp) \in Seq(Words) /\ Len(Tail(inp)) = Len(inp) - 1
    BY <1>5
  <1>7. CASE ~Sending
    <2>1. Still
      BY <1>7, StillNow
    <2>2. /\ StillStep /\ owner' = FALSE /\ usrRst' = usrRst /\ ien' = ien /\ out' = out
          /\ wcntReg' = IF wcntReg # 0 THEN wcntReg - 1 ELSE 0
          /\ \/ ~(wcntReg # 0 /\ inp # <<>> /\ seq = 0) /\ inp' = inp /\ wcntCnt' = wcntCnt
             \/ inp # <<>> /\ inp' = Tail(inp) /\ wcntCnt' = wcntCnt - 1
      BY <1>1, <1>4, <2>1, StillRdat
    <2>3. inp' = Tail(inp) /\ wcntCnt' = wcntCnt - 1 /\ wcntReg' = wcntReg - 1
      BY <1>4, <2>2
    <2>4. wcntReg' \in Nat /\ inp' \in Seq(Words) /\ wcntCnt' = Len(inp')
      BY <1>5, <1>6, <2>3
    <2>5. usrRst' \in BOOLEAN /\ ien' \in BOOLEAN /\ out' \in Seq(Words)
      BY <1>3, <1>5, <2>2
    <2>6. HwType' /\ ~Sending'
      BY <1>2, <2>2, <2>4, <2>5, StillAfter
    <2>7. seq' = 0
      BY <1>3, <1>4, <1>5, <2>2, SeqStep DEF StillStep
    <2>8. HwReset'
      BY <1>3, <2>2, <2>7 DEF HwReset
    <2>9. outReg' = <<>> /\ out' = <<>>
      BY <1>7, <2>2 DEF StillStep, HwPc, Replied
    <2>10. QED
      BY <1>2, <1>3, <2>2, <2>3, <2>6, <2>7, <2>8, <2>9
  <1>8. CASE Sending
    <2>1. /\ usrRst' = FALSE /\ seq' = 0 /\ ien' = ien /\ Absorbed(msg)
          /\ inp' = Tail(inp) /\ wcntReg' = wcntReg - 1 /\ wcntCnt' = wcntCnt - 1
      BY <1>1, <1>8, DrainRead
    <2>2. /\ outReg' \in Seq(Words) /\ out' \in Seq(Words) /\ owner' \in BOOLEAN /\ tgt' \in Targets
          /\ Sending' => Draining(tgt', outReg', out', owner', mem', msg) /\ Fewer
          /\ ~Sending' => outReg' = <<>> /\ out' = <<>>
      <3>1. msg \in Msgs
        BY DEF MsgInv
      <3>2. QED
        BY <2>1, <3>1, AbsorbedTypes
    <2>3. wcntReg' \in Nat /\ inp' \in Seq(Words) /\ wcntCnt' = Len(inp')
      BY <1>5, <1>6, <2>1
    <2>4. usrRst' \in BOOLEAN /\ ien' \in BOOLEAN /\ seq' \in 0..7 /\ zf'.rst = {} /\ zf'.go = <<>>
      <3>1. usrRst' = FALSE /\ seq' = 0 /\ ien' = ien
        BY <2>1
      <3>2. seq' \in 0..7
        BY <3>1
      <3>3. zf'.rst = {} /\ zf'.go = <<>>
        BY <1>2, <1>5
      <3>4. QED
        BY <1>5, <3>1, <3>2, <3>3
    <2>5. HwType'
      BY <1>2, <2>2, <2>3, <2>4 DEF HwType
    <2>6. HwReset'
      BY <1>3, <1>4, <2>1 DEF HwReset
    <2>7. QED
      BY <1>2, <1>8, <2>1, <2>2, <2>5, <2>6
  <1>9. QED
    BY <1>7, <1>8

\* ReadHdr.
LEMMA TmemReadHdr ==
    ASSUME FifoInv, kind = "tmem", ReadHdr
    PROVE  FifoInv'
  <1>1. useIrq \in BOOLEAN /\ MsgInv /\ XferInv /\ HwType /\ HwReset /\ HwSending /\ HwPc
    BY TmemParts
  <1>2. /\ pc = "hdr" /\ wcntReg # 0 /\ Access(ReadData) /\ rx' = Append(rx, Head(inp))
        /\ got' = got - 4 /\ i' = 0 /\ pc' = (IF got = 4 THEN "done" ELSE "data")
        /\ UNCHANGED <<msg, nCalls, kind, useIrq, stored>>
    BY DEF ReadHdr, ReadFifo, ZAccess, drvVars
  <1>3. /\ Whole(inp, msg) /\ wcntReg = msg.n + 1 /\ ien = useIrq /\ msg.n \in Nat /\ msg \in Msgs
        /\ got = 4 * (msg.n + 1)
    BY <1>1, <1>2 DEF HwPc, Replied, Ready, MsgInv, Msgs, XferInv
  <1>4. /\ XferInv' /\ inp # <<>> /\ Len(Tail(inp)) = msg.n
        /\ pc' = "done" => Tail(inp) = <<>>
        /\ pc' = "data" => Len(rx') = 1 /\ Run(Tail(inp), msg, 1)
    BY <1>1, <1>2, <1>3, HdrRead
  <1>5. MsgInv'
    BY <1>1, <1>2 DEF MsgInv
  <1>6. /\ HwType' /\ HwReset' /\ usrRst' = FALSE /\ seq' = 0 /\ ien' = ien /\ quiet' = 0
        /\ inp' = Tail(inp) /\ wcntReg' = wcntReg - 1
        /\ Sending' => Sending /\ Fewer /\ Draining(tgt', outReg', out', owner', mem', msg)
        /\ ~Sending' => outReg' = <<>> /\ out' = <<>>
    BY <1>1, <1>2, <1>4, ReadTime
  <1>7. wcntReg' = msg.n /\ msg.n + 1 = wcntReg' + 1
    BY <1>3, <1>6
  <1>8. ASSUME Sending' PROVE Behind(outReg', out', quiet', 1, msg.n) /\ msg.n # 0
    <2>1. Draining(tgt, outReg, out, owner, mem, msg)
      BY <1>1, <1>2, <1>6, <1>8 DEF HwSending
    <2>2. QED
      BY <1>1, <1>3, <1>6, <1>8, <2>1, BehindFirst
  <1>9. Sending' => pc' = "data"
    <2>1. \A n \in Nat : 4 * (n + 1) = 4 => n = 0
      OBVIOUS
    <2>2. msg.n # 0 => got # 4
      BY <1>3, <2>1
    <2>3. QED
      BY <1>2, <1>8, <2>2
  <1>10. HwSending'
    BY <1>2, <1>6, <1>7, <1>8, <1>9 DEF HwSending, Reading
  <1>11. HwPc'
    <2>1. CASE pc' = "done"
      <3>1. Tail(inp) = <<>> /\ Len(<<>>) = 0
        BY <1>4, <2>1
      <3>2. Empty'
        BY <1>4, <1>6, <1>7, <1>9, <2>1, <3>1 DEF Empty
      <3>3. QED
        BY <1>2, <1>3, <1>6, <2>1, <3>2 DEF HwPc, Ready, Waiting, ZResetting
    <2>2. CASE pc' = "data"
      <3>1. Run(inp', msg', Len(rx')) /\ Len(inp') = wcntReg' /\ wcntReg' + Len(rx') = msg'.n + 1
        BY <1>2, <1>3, <1>4, <1>6, <1>7, <2>2
      <3>2. Sending' => Behind(outReg', out', quiet', Len(rx'), msg'.n)
        BY <1>2, <1>4, <1>8, <2>2
      <3>3. QED
        BY <1>2, <1>3, <1>6, <2>2, <3>1, <3>2 DEF HwPc, Ready, Waiting, ZResetting
    <2>3. QED
      BY <1>2, <2>1, <2>2
  <1>12. QED
    BY <1>1, <1>2, <1>4, <1>5, <1>6, <1>10, <1>11, TmemWhole

\* ReadWord.
LEMMA TmemReadWord ==
    ASSUME FifoInv, kind = "tmem", ReadWord
    PROVE  FifoInv'
  <1>1. useIrq \in BOOLEAN /\ MsgInv /\ XferInv /\ HwType /\ HwReset /\ HwSending /\ HwPc
    BY TmemParts
  <1>2. /\ pc = "data" /\ wcntReg # 0 /\ Access(ReadData) /\ rx' = Append(rx, Head(inp))
        /\ got' = got /\ i' = i + 4 /\ pc' = (IF MoreWords THEN "data" ELSE "done")
        /\ stored' = Min({i + 4, got, msg.size})
        /\ UNCHANGED <<msg, nCalls, kind, useIrq>>
    BY DEF ReadWord, ReadFifo, ZAccess, drvVars
  <1>3. /\ Run(inp, msg, Len(rx)) /\ Len(inp) = wcntReg /\ wcntReg + Len(rx) = msg.n + 1
        /\ Sending => Behind(outReg, out, quiet, Len(rx), msg.n)
        /\ ien = useIrq /\ msg.n \in Nat
    BY <1>1, <1>2 DEF HwPc, Ready, MsgInv, Msgs
  <1>4. /\ XferInv' /\ inp # <<>> /\ Run(Tail(inp), msg, Len(rx')) /\ Len(Tail(inp)) + Len(rx') = msg.n + 1
        /\ Len(inp) = Len(Tail(inp)) + 1 /\ Len(Tail(inp)) \in Nat /\ Len(rx') \in Nat
        /\ pc' = "done" => Tail(inp) = <<>>
    BY <1>1, <1>2, <1>3, WordRead
  <1>5. MsgInv'
    BY <1>1, <1>2 DEF MsgInv
  <1>6. /\ HwType' /\ HwReset' /\ usrRst' = FALSE /\ seq' = 0 /\ ien' = ien /\ quiet = Gap /\ quiet' = 0
        /\ inp' = Tail(inp) /\ wcntReg' = wcntReg - 1
        /\ Sending' => Sending /\ Fewer /\ Draining(tgt', outReg', out', owner', mem', msg)
        /\ ~Sending' => outReg' = <<>> /\ out' = <<>>
    BY <1>1, <1>2, <1>4, ReadTime
  <1>7. wcntReg' = Len(inp')
    <2>1. \A k \in Nat : (k + 1) - 1 = k
      OBVIOUS
    <2>2. wcntReg' = (Len(Tail(inp)) + 1) - 1
      BY <1>3, <1>4, <1>6
    <2>3. QED
      BY <1>4, <1>6, <2>1, <2>2
  <1>8. Len(rx) \in Nat /\ Len(rx') = Len(rx) + 1 /\ i + 4 = 4 * Len(rx) /\ got = 4 * msg.n
    <2>1. rx \in Seq(Words) /\ i + 4 = 4 * Len(rx) /\ got = 4 * msg.n
      BY <1>1, <1>2 DEF XferInv, Run
    <2>2. inp \in Seq(Words)
      BY <1>3 DEF Run
    <2>3. Head(inp) \in Words
      BY <1>4, <2>2
    <2>4. QED
      BY <1>2, <2>1, <2>3
  <1>9. ASSUME Sending' PROVE Behind(outReg', out', quiet', Len(rx'), msg.n) /\ Len(rx) < msg.n
    <2>1. Behind(outReg, out, quiet, Len(rx), msg.n) /\ Fewer
      BY <1>3, <1>6, <1>9
    <2>2. Behind(outReg', out', quiet', Len(rx) + 1, msg.n) /\ Len(rx) < msg.n
      BY <1>1, <1>3, <1>6, <1>8, <2>1, BehindRead
    <2>3. QED
      BY <1>8, <2>2
  <1>10. ASSUME Sending' PROVE pc' = "data" /\ wcntReg' # 0
    <2>1. MoreWords
      <3>1. 4 * Len(rx) < 4 * msg.n
        BY <1>3, <1>8, <1>9, <1>10
      <3>2. QED
        BY <1>8, <3>1 DEF MoreWords
    <2>2. Len(Tail(inp)) # 0
      <3> DEFINE x == Len(Tail(inp))
                 h == Len(rx)
                 n == msg.n
      <3>1. x \in Nat /\ h \in Nat /\ n \in Nat /\ x + (h + 1) = n + 1 /\ h < n
        BY <1>3, <1>4, <1>8, <1>9, <1>10
      <3> HIDE DEF x, h, n
      <3>2. x # 0
        BY <3>1
      <3>3. QED
        BY <3>2 DEF x
    <2>3. QED
      BY <1>2, <1>6, <1>7, <2>1, <2>2
  <1>11. HwSending'
    BY <1>2, <1>6, <1>10 DEF HwSending, Reading
  <1>12. HwPc'
    <2>1. CASE pc' = "done"
      <3>1. Tail(inp) = <<>> /\ Len(<<>>) = 0
        BY <1>4, <2>1
      <3>2. Empty'
        BY <1>6, <1>7, <1>10, <2>1, <3>1 DEF Empty
      <3>3. QED
        BY <1>2, <1>3, <1>6, <2>1, <3>2 DEF HwPc, Ready, Waiting, ZResetting
    <2>2. CASE pc' = "data"
      <3>1. Run(inp', msg', Len(rx')) /\ Len(inp') = wcntReg' /\ wcntReg' + Len(rx') = msg'.n + 1
        BY <1>2, <1>4, <1>6, <1>7
      <3>2. Sending' => Behind(outReg', out', quiet', Len(rx'), msg'.n)
        BY <1>2, <1>9
      <3>3. QED
        BY <1>2, <1>3, <1>6, <2>2, <3>1, <3>2 DEF HwPc, Ready, Waiting, ZResetting
    <2>3. QED
      BY <1>2, <2>1, <2>2
  <1>13. QED
    BY <1>1, <1>2, <1>4, <1>5, <1>6, <1>11, <1>12, TmemWhole

-----------------------------------------------------------------------------
(* Steps of the driver that do not touch the hardware: what they do to xfer() *)

\* A transfer begins, with a new message or the same again.
LEMMA BeginXfer ==
    ASSUME Begin, MsgInv'
    PROVE  XferInv' /\ i' = 0 /\ pc' = "tx"
  <1>1. msg'.n \in Nat
    BY DEF MsgInv, Msgs
  <1>2. 0 <= 2 * msg'.n
    BY <1>1
  <1>3. QED
    BY <1>2 DEF XferInv, Begin, Ready, Resetting, ZResetting, Waiting

\* A process starts.
LEMMA StartXfer ==
    ASSUME Start, MsgInv
    PROVE  MsgInv' /\ XferInv'
  <1>1. msg' = NoMsg /\ nCalls' = nCalls /\ pc' \in {"magic", "zrst"} /\ i' = 0 /\ got' = 0 /\ rx' = <<>> /\ stored' = 0
    BY DEF Start
  <1>2. MsgInv'
    <2>1. 1 + 2 * 0 <= Depth
      BY DepthAssumption
    <2>2. QED
      BY <1>1, <2>1, NoMessage DEF MsgInv
  <1>3. QED
    BY <1>1, <1>2 DEF XferInv, Ready, Resetting, ZResetting, Waiting

\* query() or sendVectors(), with a message that fits.
LEMMA CallXfer ==
    ASSUME FramesFit, NEW size \in Sizes \cup {0}, Call(size), MsgInv
    PROVE  MsgInv' /\ XferInv' /\ i' = 0 /\ pc' = "tx"
  <1>1. size \in Nat /\ nCalls \in Nat /\ Depth \in Nat \ {0}
    BY FifoAssumption, DepthAssumption DEF MsgInv
  <1>2. /\ nCalls' = nCalls + 1 /\ Begin
        /\ msg' = [m |-> nCalls + 1, n |-> (size + 3) \div 4, size |-> size]
    BY DEF Call
  <1>3. (size + 3) \div 4 \in Nat /\ nCalls + 1 \in Nat
    BY <1>1
  <1>4. 1 + 2 * ((size + 3) \div 4) <= Depth
    <2>1. CASE size = 0
      BY <1>1, <2>1
    <2>2. CASE size # 0
      BY <2>2 DEF FramesFit
    <2>3. QED
      BY <2>1, <2>2
  <1>5. MsgInv'
    BY <1>1, <1>2, <1>3, <1>4 DEF MsgInv, Msgs
  <1>6. QED
    BY <1>2, <1>5, BeginXfer

\* xfer() returns, or xferRel() calls it again.
LEMMA DoneXfer ==
    ASSUME MsgInv, XferInv, Done
    PROVE  /\ MsgInv' /\ XferInv' /\ pc' \in {"idle", "tx"}
           /\ pc' = "tx" => i' = 0
  <1>1. pc = "done" /\ (Begin \/ (pc' = "idle" /\ UNCHANGED xferVars)) /\ UNCHANGED <<msg, nCalls>>
    BY DEF Done
  <1>2. MsgInv'
    BY <1>1 DEF MsgInv
  <1>3. CASE Begin
    BY <1>2, <1>3, BeginXfer
  <1>4. CASE pc' = "idle" /\ UNCHANGED xferVars
    BY <1>1, <1>2, <1>4 DEF XferInv, xferVars, Ready, Resetting, ZResetting, Waiting
  <1>5. QED
    BY <1>1, <1>3, <1>4

\* The process ends.
LEMMA KillXfer ==
    ASSUME MsgInv, XferInv, Kill
    PROVE  MsgInv' /\ XferInv'
  BY DEF MsgInv, XferInv, Kill, drvVars, xferVars, Ready, Resetting, ZResetting, Waiting

-----------------------------------------------------------------------------
(* JtagDriverTmemFifo: steps that do not touch the hardware *)

\* Nothing is under way before and after.
LEMMA SameStill ==
    ASSUME HwType, HwReset, HwSending, UNCHANGED <<tmemVars, quiet, tgt, zf>>, ~Sending
    PROVE  HwType' /\ HwReset' /\ HwSending'
  BY SameHw DEF HwSending, tmemVars

\* The same, if a message may be under way.
LEMMA SameSending ==
    ASSUME HwType, HwReset, HwSending, UNCHANGED <<tmemVars, quiet, tgt, mem, zf, msg>>,
           pc' \in Waiting \cup {"down"}
    PROVE  HwType' /\ HwReset' /\ HwSending'
  <1>1. CASE Sending
    BY <1>1, SameHw DEF HwSending, tmemVars, Reading, Waiting
  <1>2. CASE ~Sending
    BY <1>2, SameStill
  <1>3. QED
    BY <1>1, <1>2

\* Start: the new process finds the FIFOs as the last one left them.
LEMMA TmemStart ==
    ASSUME FifoInv, kind = "tmem", Start
    PROVE  FifoInv'
  <1>1. useIrq \in BOOLEAN /\ MsgInv /\ XferInv /\ HwType /\ HwReset /\ HwSending /\ HwPc
    BY TmemParts
  <1>2. UNCHANGED <<tmemVars, quiet, tgt, zf, kind, useIrq>> /\ pc' = "magic" /\ Quiescent
    BY DEF Start, tgtVars
  <1>3. ~Sending
    BY <1>2 DEF Quiescent, Sending
  <1>4. HwType' /\ HwReset' /\ HwSending'
    BY <1>1, <1>2, <1>3, SameStill
  <1>5. HwPc'
    BY <1>2 DEF HwPc, Ready, Waiting, ZResetting
  <1>6. QED
    BY <1>1, <1>2, <1>4, <1>5, StartXfer, TmemWhole

\* Kill.
LEMMA TmemKill ==
    ASSUME FifoInv, kind = "tmem", Kill
    PROVE  FifoInv'
  <1>1. useIrq \in BOOLEAN /\ MsgInv /\ XferInv /\ HwType /\ HwReset /\ HwSending /\ HwPc
    BY TmemParts
  <1>2. UNCHANGED <<tmemVars, quiet, tgt, mem, zf, msg, kind, useIrq>> /\ pc' = "down"
    BY DEF Kill, drvVars, tgtVars
  <1>3. HwType' /\ HwReset' /\ HwSending'
    BY <1>1, <1>2, SameSending
  <1>4. HwPc'
    BY <1>2 DEF HwPc, Ready, Waiting, ZResetting
  <1>5. QED
    BY <1>1, <1>2, <1>3, <1>4, KillXfer, TmemWhole

\* Call.
LEMMA TmemCall ==
    ASSUME FramesFit, FifoInv, kind = "tmem", NEW size \in Sizes \cup {0}, Call(size)
    PROVE  FifoInv'
  <1>1. useIrq \in BOOLEAN /\ MsgInv /\ XferInv /\ HwType /\ HwReset /\ HwSending /\ HwPc
    BY TmemParts
  <1>2. UNCHANGED <<tmemVars, quiet, tgt, zf, kind, useIrq>> /\ pc = "idle"
    BY DEF Call, tgtVars
  <1>3. MsgInv' /\ XferInv' /\ i' = 0 /\ pc' = "tx"
    BY <1>1, CallXfer
  <1>4. ~Sending
    BY <1>1, <1>2, StillNow DEF Reading, Waiting
  <1>5. HwType' /\ HwReset' /\ HwSending'
    BY <1>1, <1>2, <1>4, SameStill
  <1>6. Empty /\ ~usrRst /\ ien = useIrq
    BY <1>1, <1>2 DEF HwPc, Ready
  <1>7. /\ out' = <<>> /\ inp' = <<>> /\ wcntReg' = 0 /\ Empty' /\ ~usrRst' /\ ien' = useIrq'
        /\ Run(out', msg', 0) /\ Len(out') = i'
    BY <1>2, <1>3, <1>6, RunEmpty DEF Empty, tmemVars
  <1>8. HwPc'
    BY <1>3, <1>7 DEF HwPc, Ready, Waiting, ZResetting
  <1>9. QED
    BY <1>1, <1>2, <1>3, <1>5, <1>8, TmemWhole

\* Done.
LEMMA TmemDone ==
    ASSUME FifoInv, kind = "tmem", Done
    PROVE  FifoInv'
  <1>1. useIrq \in BOOLEAN /\ MsgInv /\ XferInv /\ HwType /\ HwReset /\ HwSending /\ HwPc
    BY TmemParts
  <1>2. UNCHANGED <<tmemVars, quiet, tgt, zf, kind, useIrq>> /\ pc = "done"
    BY DEF Done, tgtVars
  <1>3. /\ MsgInv' /\ XferInv' /\ pc' \in {"idle", "tx"}
        /\ pc' = "tx" => i' = 0
    BY <1>1, DoneXfer
  <1>4. ~Sending
    BY <1>1, <1>2, StillNow DEF Reading, Waiting
  <1>5. HwType' /\ HwReset' /\ HwSending'
    BY <1>1, <1>2, <1>4, SameStill
  <1>6. Empty /\ ~usrRst /\ ien = useIrq
    BY <1>1, <1>2 DEF HwPc, Ready
  <1>7. /\ out' = <<>> /\ inp' = <<>> /\ wcntReg' = 0 /\ Empty' /\ ~usrRst' /\ ien' = useIrq'
        /\ Run(out', msg', 0) /\ Len(out') = 0
    BY <1>2, <1>6, RunEmpty DEF Empty, tmemVars
  <1>8. HwPc'
    BY <1>3, <1>7 DEF HwPc, Ready, Waiting, ZResetting
  <1>9. QED
    BY <1>1, <1>2, <1>3, <1>5, <1>8, TmemWhole

\* The driver sleeps and wakes.
LEMMA TmemWait ==
    ASSUME FifoInv, kind = "tmem", Arm \/ Interrupt \/ Wake
    PROVE  FifoInv'
  <1>1. useIrq \in BOOLEAN /\ MsgInv /\ XferInv /\ HwType /\ HwReset /\ HwSending /\ HwPc
    BY TmemParts
  <1>2. UNCHANGED <<tmemVars, quiet, tgt, mem, zf, kind, useIrq, msg, nCalls, xferVars, csr>>
    BY DEF Arm, Interrupt, Wake, drvVars, tgtVars
  <1>3. pc' = pc \/ (pc \in Waiting /\ pc' \in Waiting)
    BY <1>1 DEF Arm, Interrupt, Wake, Waiting, HwPc, ZResetting
  <1>4. CASE pc' = pc
    <2>1. MsgInv' /\ XferInv'
      BY <1>1, <1>2, <1>4, SameXfer
    <2>2. HwType' /\ HwReset' /\ HwSending'
      BY <1>1, <1>2, <1>4, SameHw DEF HwSending, tmemVars
    <2>3. HwPc'
      BY <1>1, <1>2, <1>4, SameHw DEF HwPc, Replied, tmemVars, xferVars
    <2>4. QED
      BY <1>1, <1>2, <2>1, <2>2, <2>3, TmemWhole
  <1>5. CASE pc \in Waiting /\ pc' \in Waiting
    <2>1. MsgInv' /\ XferInv'
      BY <1>1, <1>2, <1>5, HandOver
    <2>2. HwType' /\ HwReset' /\ HwSending'
      BY <1>1, <1>2, <1>5, SameSending
    <2>3. HwPc'
      <3>1. pc # "down" /\ pc' # "down" /\ pc \in Ready
        BY <1>5 DEF Waiting, Ready
      <3>2. usrRst' = FALSE /\ ien' = ien /\ useIrq' = useIrq /\ (seq' = 0 \/ Empty')
        BY <1>1, <1>2, <3>1, SameHw DEF HwPc, HwType, tmemVars
      <3>3. ~Sending' \/ wcntReg' # 0 => Replied'
        <4>1. (~Sending' => ~Sending) /\ (~Sending => ~Sending')
          BY <1>1, <1>2, SameHw
        <4>2. ~Sending \/ wcntReg # 0 => Replied
          BY <1>1, <1>5 DEF HwPc
        <4>3. QED
          BY <1>2, <4>1, <4>2 DEF tmemVars, Replied
      <3>4. QED
        BY <1>1, <1>5, <3>1, <3>2, <3>3, WaitingPc
    <2>4. QED
      BY <1>1, <1>2, <2>1, <2>2, <2>3, TmemWhole
  <1>6. QED
    BY <1>3, <1>4, <1>5

\* Every step.
LEMMA TmemNext ==
    ASSUME FramesFit, FifoInv, kind = "tmem", Next
    PROVE  FifoInv'
  <1>1. HwType /\ HwPc
    BY TmemParts
  <1>2. ~ZReset("rx") /\ ~ZReset("tx") /\ ~ZOut /\ ~ZIn
    BY <1>1 DEF HwType, ZReset, ZOut, ZIn
  <1>3. ~ZRst /\ ~ZRx /\ ~ZTx /\ ~ZDone /\ ~End /\ ~Clear /\ ~Cnt
    BY DEF ZRst, ZRx, ZTx, ZDone, End, Clear, Cnt, ZSet, ZAccess
  <1>4. CASE Reset
    BY <1>3, <1>4, TmemMagic, TmemVers, TmemRst, TmemUnrst, TmemIen DEF Reset
  <1>5. CASE Xfer
    BY <1>3, <1>5, TmemTx, TmemRmw, TmemEof, TmemPoll, TmemReadHdr, TmemReadWord, TmemDone DEF Xfer
  <1>6. QED
    BY <1>2, <1>4, <1>5, TmemStart, TmemKill, TmemWait, TmemCall, TmemTick DEF Next, Driver, Vendor

-----------------------------------------------------------------------------
(* JtagDriverZynqFifo, a step at a time: what the steps have in common *)

\* The invariant, taken apart.
LEMMA ZynqParts ==
    ASSUME FifoInv, kind = "zynq"
    PROVE  /\ useIrq \in BOOLEAN /\ MsgInv /\ XferInv /\ ZType /\ ZFlow /\ ZPc
  BY DEF FifoInv, ZynqInv

\* And put together.
LEMMA ZynqWhole ==
    ASSUME kind' = "zynq", useIrq' \in BOOLEAN, MsgInv', XferInv', ZType', ZFlow', ZPc'
    PROVE  FifoInv'
  BY DEF FifoInv, ZynqInv

\* Only while the driver waits is a message under way.
LEMMA ZIdle ==
    ASSUME ZFlow, pc \notin Waiting \cup {"down"}
    PROVE  ~ZSending
  BY DEF ZFlow

\* With nothing under way, nothing begins by itself.
LEMMA ZStill ==
    ASSUME ~ZSending, zf'.go = zf.go, tgt' = tgt
    PROVE  ZFlow' /\ ~ZSending'
  BY DEF ZFlow, ZSending, Fresh

\* The vendor's FIFO as it was.
LEMMA SameZynq ==
    ASSUME ZType, ZFlow, UNCHANGED <<zf, tgt, set, msg>>,
           pc \in Waiting \cup {"down"} => pc' \in Waiting \cup {"down"}
    PROVE  /\ ZType' /\ ZFlow' /\ (ZSending' => ZSending) /\ (ZSending => ZSending')
  BY DEF ZType, ZFlow, ZSending, Fresh

\* Start.
LEMMA ZynqStart ==
    ASSUME FifoInv, kind = "zynq", Start
    PROVE  FifoInv'
  <1>1. useIrq \in BOOLEAN /\ MsgInv /\ XferInv /\ ZType /\ ZFlow /\ ZPc
    BY ZynqParts
  <1>2. UNCHANGED <<tgt, zf, kind, useIrq>> /\ pc' = "zrst" /\ set' = {} /\ Quiescent
    BY DEF Start, tgtVars
  <1>3. ~ZSending
    BY <1>2 DEF Quiescent, ZSending
  <1>4. ZFlow'
    BY <1>2, <1>3, ZStill
  <1>5. ZType'
    BY <1>1, <1>2 DEF ZType
  <1>6. ZPc'
    BY <1>2 DEF ZPc, Ready, Waiting, ZResetting
  <1>7. QED
    BY <1>1, <1>2, <1>4, <1>5, <1>6, StartXfer, ZynqWhole

\* Kill.
LEMMA ZynqKill ==
    ASSUME FifoInv, kind = "zynq", Kill
    PROVE  FifoInv'
  <1>1. useIrq \in BOOLEAN /\ MsgInv /\ XferInv /\ ZType /\ ZFlow /\ ZPc
    BY ZynqParts
  <1>2. UNCHANGED <<tgt, zf, set, msg, kind, useIrq>> /\ pc' = "down"
    BY DEF Kill, drvVars, tgtVars
  <1>3. ZType' /\ ZFlow'
    BY <1>1, <1>2, SameZynq
  <1>4. ZPc'
    BY <1>2 DEF ZPc, Ready, Waiting, ZResetting
  <1>5. QED
    BY <1>1, <1>2, <1>3, <1>4, KillXfer, ZynqWhole

\* Call.
LEMMA ZynqCall ==
    ASSUME FramesFit, FifoInv, kind = "zynq", NEW size \in Sizes \cup {0}, Call(size)
    PROVE  FifoInv'
  <1>1. useIrq \in BOOLEAN /\ MsgInv /\ XferInv /\ ZType /\ ZFlow /\ ZPc
    BY ZynqParts
  <1>2. UNCHANGED <<tgt, zf, set, kind, useIrq>> /\ pc = "idle"
    BY DEF Call, tgtVars
  <1>3. MsgInv' /\ XferInv' /\ i' = 0 /\ pc' = "tx"
    BY <1>1, CallXfer
  <1>4. ~ZSending
    BY <1>1, <1>2, ZIdle DEF Waiting
  <1>5. ZFlow' /\ ZType'
    BY <1>1, <1>2, <1>4, ZStill DEF ZType
  <1>6. zf'.rst = {} /\ zf'.tx = <<>> /\ zf'.rx = <<>> /\ zf'.sta = {} /\ Run(<<>>, msg', 0) /\ Len(<<>>) = 0
    BY <1>1, <1>2, RunEmpty DEF ZPc, Ready
  <1>7. ZPc'
    BY <1>3, <1>6 DEF ZPc, Ready, Waiting, ZResetting
  <1>8. QED
    BY <1>1, <1>2, <1>3, <1>5, <1>7, ZynqWhole

\* Done.
LEMMA ZynqDone ==
    ASSUME FifoInv, kind = "zynq", Done
    PROVE  FifoInv'
  <1>1. useIrq \in BOOLEAN /\ MsgInv /\ XferInv /\ ZType /\ ZFlow /\ ZPc
    BY ZynqParts
  <1>2. UNCHANGED <<tgt, zf, set, kind, useIrq>> /\ pc = "done"
    BY DEF Done, tgtVars
  <1>3. /\ MsgInv' /\ XferInv' /\ pc' \in {"idle", "tx"}
        /\ pc' = "tx" => i' = 0
    BY <1>1, DoneXfer
  <1>4. ~ZSending
    BY <1>1, <1>2, ZIdle DEF Waiting
  <1>5. ZFlow' /\ ZType'
    BY <1>1, <1>2, <1>4, ZStill DEF ZType
  <1>6. zf'.rst = {} /\ zf'.tx = <<>> /\ zf'.rx = <<>> /\ zf'.sta = {} /\ Run(<<>>, msg', 0) /\ Len(<<>>) = 0
    BY <1>1, <1>2, RunEmpty DEF ZPc, Ready
  <1>7. ZPc'
    BY <1>3, <1>6 DEF ZPc, Ready, Waiting, ZResetting
  <1>8. QED
    BY <1>1, <1>2, <1>3, <1>5, <1>7, ZynqWhole

\* The driver sleeps and wakes, in xfer() or in reset().
LEMMA ZynqWait ==
    ASSUME FifoInv, kind = "zynq", Arm \/ Interrupt \/ Wake
    PROVE  FifoInv'
  <1>1. useIrq \in BOOLEAN /\ MsgInv /\ XferInv /\ ZType /\ ZFlow /\ ZPc
    BY ZynqParts
  <1>2. UNCHANGED <<tgt, zf, set, kind, useIrq, msg, nCalls, xferVars>>
    BY DEF Arm, Interrupt, Wake, drvVars, tgtVars
  <1>3. pc' = pc \/ (pc \in Waiting /\ pc' \in Waiting) \/ (pc \in ZResetting /\ pc' \in ZResetting)
    BY DEF Arm, Interrupt, Wake, Waiting, ZResetting
  <1>4. pc \in Waiting \cup {"down"} => pc' \in Waiting \cup {"down"}
    BY <1>3 DEF Waiting, ZResetting
  <1>5. ZType' /\ ZFlow' /\ (ZSending' => ZSending) /\ (ZSending => ZSending')
    BY <1>1, <1>2, <1>4, SameZynq
  <1>6. CASE pc' = pc
    <2>1. MsgInv' /\ XferInv'
      BY <1>1, <1>2, <1>6, SameXfer
    <2>2. ZPc'
      BY <1>1, <1>2, <1>5, <1>6 DEF ZPc, xferVars
    <2>3. QED
      BY <1>1, <1>2, <1>5, <2>1, <2>2, ZynqWhole
  <1>7. CASE pc \in Waiting /\ pc' \in Waiting
    <2>1. MsgInv' /\ XferInv'
      BY <1>1, <1>2, <1>7, HandOver
    <2>2. ZPc'
      BY <1>1, <1>2, <1>5, <1>7 DEF ZPc, Ready, Waiting, ZResetting
    <2>3. QED
      BY <1>1, <1>2, <1>5, <2>1, <2>2, ZynqWhole
  <1>8. CASE pc \in ZResetting /\ pc' \in ZResetting
    <2>1. MsgInv' /\ XferInv'
      BY <1>1, <1>2, <1>8, ResettingXfer DEF Resetting
    <2>2. ZPc'
      BY <1>1, <1>2, <1>8 DEF ZPc, Ready, Waiting, ZResetting
    <2>3. QED
      BY <1>1, <1>2, <1>5, <2>1, <2>2, ZynqWhole
  <1>9. QED
    BY <1>3, <1>6, <1>7, <1>8

-----------------------------------------------------------------------------
(* JtagDriverZynqFifo: reset() *)

\* ZRst: both sides are reset, and the status bits are cleared.
LEMMA ZynqZRst ==
    ASSUME FifoInv, kind = "zynq", ZRst
    PROVE  FifoInv'
  <1>1. useIrq \in BOOLEAN /\ MsgInv /\ XferInv /\ ZType /\ ZFlow /\ ZPc
    BY ZynqParts
  <1>2. /\ pc = "zrst" /\ pc' = "zrx" /\ UNCHANGED <<tgt, set, kind, useIrq, msg, nCalls, xferVars>>
        /\ zf' = [zf EXCEPT !.rst = {"rx", "tx"}, !.sta = {}, !.ien = IF useIrq THEN {"rx", "tx", "rdy"} ELSE @]
    BY DEF ZRst, ZAccess, drvVars, tgtVars
  <1>3. ZType' /\ zf'.rst = {"rx", "tx"} /\ zf'.sta = {} /\ zf'.go = zf.go
    BY <1>1, <1>2 DEF ZType, Sides
  <1>4. ZFlow'
    BY <1>1, <1>2, <1>3, ZIdle, ZStill DEF Waiting
  <1>5. set' = {}
    BY <1>1, <1>2 DEF ZPc
  <1>6. ZSide(zf', set', "rx") /\ ZSide(zf', set', "tx")
    BY <1>3, <1>5 DEF ZSide
  <1>7. ZPc'
    BY <1>2, <1>3, <1>6 DEF ZPc, Ready, Waiting, ZResetting
  <1>8. MsgInv' /\ XferInv'
    BY <1>1, <1>2, ResettingXfer DEF Resetting, ZResetting
  <1>9. QED
    BY <1>1, <1>2, <1>3, <1>4, <1>7, <1>8, ZynqWhole

\* The driver looks at one of the two reset registers.
LEMMA ZSetSide ==
    ASSUME ZType, ZFlow, ZPc, pc \in ZResetting, NEW x \in Sides, ZSet(x)
    PROVE  /\ ZType' /\ ZFlow' /\ ZSide(zf', set', "rx") /\ ZSide(zf', set', "tx") /\ "rdy" \notin zf'.sta
  <1>1. /\ zf' = IF x \notin set /\ RstBit(x) THEN [zf EXCEPT !.sta = @ \ {x}] ELSE zf
        /\ set' = IF RstBit(x) THEN set \cup {x} ELSE set
        /\ tgt' = tgt
    BY DEF ZSet, ZAccess, tgtVars
  <1>2. /\ ZType' /\ zf'.go = zf.go /\ zf'.rst = zf.rst /\ zf'.tx = zf.tx /\ zf'.rx = zf.rx
        /\ zf'.sta = IF x \notin set /\ RstBit(x) THEN zf.sta \ {x} ELSE zf.sta
    <2>1. CASE x \notin set /\ RstBit(x)
      BY <1>1, <2>1 DEF ZType, Sides
    <2>2. CASE ~(x \notin set /\ RstBit(x))
      BY <1>1, <2>2 DEF ZType, Sides
    <2>3. QED
      BY <2>1, <2>2
  <1>3. ZFlow'
    BY <1>1, <1>2, ZIdle, ZStill DEF Waiting, ZResetting
  <1>4. ZSide(zf, set, "rx") /\ ZSide(zf, set, "tx") /\ "rdy" \notin zf.sta
    BY DEF ZPc
  <1>5. ZSide(zf', set', "rx")
    BY <1>1, <1>2, <1>4 DEF ZSide, Sides, RstBit
  <1>6. ZSide(zf', set', "tx")
    BY <1>1, <1>2, <1>4 DEF ZSide, Sides, RstBit
  <1>7. QED
    BY <1>2, <1>3, <1>4, <1>5, <1>6

\* ZRx and ZTx.
LEMMA ZynqZSet ==
    ASSUME FifoInv, kind = "zynq", ZRx \/ ZTx
    PROVE  FifoInv'
  <1>1. useIrq \in BOOLEAN /\ MsgInv /\ XferInv /\ ZType /\ ZFlow /\ ZPc
    BY ZynqParts
  <1>2. /\ pc \in ZResetting /\ pc' \in ZResetting /\ (ZSet("rx") \/ ZSet("tx"))
        /\ UNCHANGED <<kind, useIrq, msg, nCalls, xferVars>>
    BY DEF ZRx, ZTx, ZSet, ZResetting
  <1>3. ZType' /\ ZFlow' /\ ZSide(zf', set', "rx") /\ ZSide(zf', set', "tx") /\ "rdy" \notin zf'.sta
    BY <1>1, <1>2, ZSetSide DEF Sides
  <1>4. ZPc'
    BY <1>2, <1>3 DEF ZPc, Ready, Waiting, ZResetting
  <1>5. MsgInv' /\ XferInv'
    BY <1>1, <1>2, ResettingXfer DEF Resetting
  <1>6. QED
    BY <1>1, <1>2, <1>3, <1>4, <1>5, ZynqWhole

\* Once both bits were seen, both FIFOs are empty and the status register is.
LEMMA ZynqZDone ==
    ASSUME FifoInv, kind = "zynq", ZDone
    PROVE  FifoInv'
  <1>1. useIrq \in BOOLEAN /\ MsgInv /\ XferInv /\ ZType /\ ZFlow /\ ZPc
    BY ZynqParts
  <1>2. /\ pc = "zset" /\ UNCHANGED <<zf, tgt, kind, useIrq, msg, nCalls, xferVars>>
        /\ \/ set = {"rx", "tx"} /\ pc' \in {"idle", "zrst"} /\ set' = {}
           \/ pc' \in {"zarm", "zrx"} /\ set' = set
    BY DEF ZDone, ResetEnd, ZAccess, drvVars, tgtVars
  <1>3. ~ZSending
    BY <1>1, <1>2, ZIdle DEF Waiting
  <1>4. ZFlow' /\ ZType'
    BY <1>1, <1>2, <1>3, ZStill DEF ZType
  <1>5. ZSide(zf, set, "rx") /\ ZSide(zf, set, "tx") /\ "rdy" \notin zf.sta
    BY <1>1, <1>2 DEF ZPc, ZResetting
  <1>6. ZPc'
    <2>1. CASE set = {"rx", "tx"} /\ pc' \in {"idle", "zrst"} /\ set' = {}
      <3>1. /\ "rx" \notin zf.rst /\ "tx" \notin zf.rst /\ zf.rx = <<>> /\ zf.tx = <<>>
            /\ "rx" \notin zf.sta /\ "tx" \notin zf.sta
        BY <1>5, <2>1 DEF ZSide
      <3>2. zf.rst = {} /\ zf.sta = {}
        BY <1>1, <1>5, <3>1 DEF ZType, Sides
      <3>3. QED
        BY <1>2, <2>1, <3>1, <3>2 DEF ZPc, Ready, Waiting, ZResetting
    <2>2. CASE pc' \in {"zarm", "zrx"} /\ set' = set
      BY <1>2, <1>5, <2>2 DEF ZPc, Ready, Waiting, ZResetting
    <2>3. QED
      BY <1>2, <2>1, <2>2
  <1>7. MsgInv' /\ XferInv'
    BY <1>1, <1>2, ResettingXfer DEF Resetting, ZResetting
  <1>8. QED
    BY <1>1, <1>2, <1>4, <1>6, <1>7, ZynqWhole

\* One side of the vendor's FIFO is through with its reset.
LEMMA ZynqZReset ==
    ASSUME FifoInv, kind = "zynq", NEW x \in Sides, ZReset(x)
    PROVE  FifoInv'
  <1>1. useIrq \in BOOLEAN /\ MsgInv /\ XferInv /\ ZType /\ ZFlow /\ ZPc
    BY ZynqParts
  <1>2. /\ x \in zf.rst /\ zf' = [zf EXCEPT !.rst = @ \ {x}, !.sta = @ \cup {x}, ![x] = <<>>]
        /\ UNCHANGED <<tgt, kind, useIrq, set, msg, nCalls, xferVars, pc>>
    BY DEF ZReset, drvVars, tgtVars
  <1>3. <<>> \in Seq(Words)
    OBVIOUS
  <1>4. /\ ZType' /\ zf'.go = zf.go /\ zf'.rst = zf.rst \ {x} /\ zf'.sta = zf.sta \cup {x}
        /\ x = "rx" => zf'.rx = <<>> /\ zf'.tx = zf.tx
        /\ x = "tx" => zf'.tx = <<>> /\ zf'.rx = zf.rx
    <2>1. CASE x = "rx"
      BY <1>1, <1>2, <1>3, <2>1 DEF ZType, Sides
    <2>2. CASE x = "tx"
      BY <1>1, <1>2, <1>3, <2>2 DEF ZType, Sides
    <2>3. QED
      BY <2>1, <2>2 DEF Sides
  <1>5. ~ZSending
    BY <1>1, <1>2 DEF ZFlow
  <1>6. ZFlow'
    BY <1>2, <1>4, <1>5, ZStill
  <1>7. ZPc'
    <2>1. pc \notin Ready
      BY <1>1, <1>2 DEF ZPc
    <2>2. ASSUME pc \in ZResetting
          PROVE  ZSide(zf', set', "rx") /\ ZSide(zf', set', "tx") /\ "rdy" \notin zf'.sta
      <3>1. ZSide(zf, set, "rx") /\ ZSide(zf, set, "tx") /\ "rdy" \notin zf.sta
        BY <1>1, <2>2 DEF ZPc
      <3>2. CASE x = "rx"
        BY <1>2, <1>4, <3>1, <3>2 DEF ZSide
      <3>3. CASE x = "tx"
        BY <1>2, <1>4, <3>1, <3>3 DEF ZSide
      <3>4. QED
        BY <3>2, <3>3 DEF Sides
    <2>3. QED
      BY <1>1, <1>2, <2>1, <2>2 DEF ZPc, Ready, Waiting, ZResetting
  <1>8. QED
    BY <1>1, <1>2, <1>4, <1>6, <1>7, SameXfer, ZynqWhole

-----------------------------------------------------------------------------
(* JtagDriverZynqFifo: xfer() *)

\* Tx.
LEMMA ZynqTx ==
    ASSUME FifoInv, kind = "zynq", Tx
    PROVE  FifoInv'
  <1>1. useIrq \in BOOLEAN /\ MsgInv /\ XferInv /\ ZType /\ ZFlow /\ ZPc
    BY ZynqParts
  <1>2. /\ pc = "tx" /\ zf' = [zf EXCEPT !.tx = Append(@, Word(i))] /\ i' = i + 1
        /\ pc' = "tx" => ~LastWord
        /\ pc' \in {"rmw", "end"} => LastWord
        /\ pc' \in {"tx", "end"}
        /\ UNCHANGED <<tgt, set, msg, nCalls, rx, stored, got, kind, useIrq>>
    BY DEF Tx, Access, Clock, ZAccess, drvVars, tgtVars
  <1>3. MsgInv' /\ XferInv' /\ Word(i) = WordOf(msg, i) /\ i \in Nat
    BY <1>1, <1>2, WordSent
  <1>4. Run(zf.tx, msg, 0) /\ Len(zf.tx) = i /\ zf.rx = <<>> /\ zf.sta = {} /\ zf.rst = {} /\ msg \in Msgs
    BY <1>1, <1>2 DEF ZPc, Ready, MsgInv
  <1>5. Run(Append(zf.tx, Word(i)), msg, 0) /\ Len(Append(zf.tx, Word(i))) = i'
    <2>1. Word(i) = WordOf(msg, 0 + Len(zf.tx)) /\ 0 \in Nat
      BY <1>3, <1>4
    <2>2. msg \in Msgs /\ Run(zf.tx, msg, 0)
      BY <1>4
    <2>3. Run(Append(zf.tx, Word(i)), msg, 0) /\ Len(Append(zf.tx, Word(i))) = Len(zf.tx) + 1
      BY <2>1, <2>2, RunAppend
    <2>4. QED
      BY <1>2, <1>4, <2>3
  <1>6. Append(zf.tx, Word(i)) \in Seq(Words)
    BY <1>5 DEF Run
  <1> DEFINE s == Append(zf.tx, Word(i))
  <1>7. s = Append(zf.tx, Word(i))
    OBVIOUS
  <1> HIDE DEF s
  <1>8. /\ ZType' /\ zf'.tx = s /\ zf'.go = zf.go /\ zf'.rx = zf.rx /\ zf'.sta = zf.sta /\ zf'.rst = zf.rst
    BY <1>1, <1>2, <1>6, <1>7 DEF ZType
  <1>9. ZFlow'
    BY <1>1, <1>2, <1>8, ZIdle, ZStill DEF Waiting
  <1>10. Run(zf'.tx, msg', 0) /\ Len(zf'.tx) = i' /\ zf'.rx = <<>> /\ zf'.sta = {} /\ zf'.rst = {}
    BY <1>2, <1>4, <1>5, <1>7, <1>8
  <1>11. ZPc'
    BY <1>2, <1>10 DEF ZPc, Ready, Waiting, ZResetting
  <1>12. QED
    BY <1>1, <1>2, <1>3, <1>8, <1>9, <1>11, ZynqWhole

\* The length is written, and the frame goes out.
LEMMA ZynqEnd ==
    ASSUME FifoInv, kind = "zynq", End
    PROVE  FifoInv'
  <1>1. useIrq \in BOOLEAN /\ MsgInv /\ XferInv /\ ZType /\ ZFlow /\ ZPc
    BY ZynqParts
  <1>2. /\ pc = "end" /\ zf' = [zf EXCEPT !.go = zf.tx, !.tx = <<>>] /\ pc' = "poll"
        /\ UNCHANGED <<tgt, set, msg, nCalls, xferVars, kind, useIrq>>
    BY DEF End, ZAccess, drvVars, tgtVars
  <1>3. MsgInv' /\ XferInv'
    BY <1>1, <1>2, HandOver
  <1>4. /\ Run(zf.tx, msg, 0) /\ Len(zf.tx) = 1 + 2 * msg.n /\ zf.rx = <<>> /\ zf.sta = {} /\ zf.rst = {}
        /\ msg \in Msgs /\ msg.n \in Nat
    BY <1>1, <1>2 DEF ZPc, XferInv, Ready, MsgInv, Msgs
  <1>5. <<>> \in Seq(Words)
    OBVIOUS
  <1>6. /\ ZType' /\ zf'.tx = <<>> /\ zf'.go = zf.tx /\ zf'.rx = zf.rx /\ zf'.sta = zf.sta /\ zf'.rst = zf.rst
    BY <1>1, <1>2, <1>5 DEF ZType
  <1>7. ~ZSending
    BY <1>1, <1>2, ZIdle DEF Waiting
  <1>8. tgt' = Fresh
    BY <1>2, <1>7 DEF ZSending
  <1>9. Flow(Fresh, <<>>, zf.tx, <<>>, msg)
    <2>1. /\ Len(<<>>) = 0 /\ 0 + 0 = 0 /\ 0 + (0 + Len(zf.tx)) = 1 + 2 * msg.n /\ 0 + Len(zf.tx) # 0 /\ 0 <= msg.n
      BY <1>4
    <2>2. QED
      BY <1>4, <2>1, RunEmpty, FreshTarget DEF Flow
  <1>10. ZFlow'
    BY <1>2, <1>4, <1>6, <1>8, <1>9 DEF ZFlow, Waiting
  <1>11. ZSending'
    <2>1. Len(zf.tx) # 0 /\ Len(<<>>) = 0
      BY <1>4
    <2>2. zf'.go # <<>>
      BY <1>6, <2>1
    <2>3. QED
      BY <2>2 DEF ZSending
  <1>12. ZPc'
    BY <1>2, <1>4, <1>6, <1>11 DEF ZPc, Ready, Waiting, ZResetting
  <1>13. QED
    BY <1>1, <1>2, <1>3, <1>6, <1>10, <1>12, ZynqWhole

\* Poll: the bit is set only once the whole reply has come.
LEMMA ZynqPoll ==
    ASSUME FifoInv, kind = "zynq", Poll
    PROVE  FifoInv'
  <1>1. useIrq \in BOOLEAN /\ MsgInv /\ XferInv /\ ZType /\ ZFlow /\ ZPc
    BY ZynqParts
  <1>2. /\ pc = "poll" /\ UNCHANGED <<zf, tgt, set, msg, nCalls, xferVars, kind, useIrq>>
        /\ "rdy" \notin zf.sta => pc' \in {"poll", "arm"}
        /\ "rdy" \in zf.sta => pc' = "clear"
    BY DEF Poll, Access, Clock, ZAccess, NotYet, drvVars, xferVars, tgtVars
  <1>3. zf.rst = {} /\ pc \in Waiting
    BY <1>1, <1>2 DEF ZPc, Ready, Waiting
  <1>4. CASE ZSending
    <2>1. pc' \in Waiting
      BY <1>1, <1>2, <1>4 DEF ZFlow, Waiting
    <2>2. MsgInv' /\ XferInv'
      BY <1>1, <1>2, <1>3, <2>1, HandOver
    <2>3. ZType' /\ ZFlow' /\ ZSending'
      BY <1>1, <1>2, <1>4, <2>1, SameZynq
    <2>4. ZPc'
      BY <1>2, <1>3, <2>1, <2>3 DEF ZPc, Ready, Waiting, ZResetting
    <2>5. QED
      BY <1>1, <1>2, <2>2, <2>3, <2>4, ZynqWhole
  <1>5. CASE ~ZSending
    <2>1. zf.tx = <<>> /\ Whole(zf.rx, msg) /\ zf.cnt = msg.n + 1 /\ zf.sta = {"rdy"}
      BY <1>1, <1>3, <1>5 DEF ZPc
    <2>2. pc' = "clear"
      BY <1>2, <2>1
    <2>3. MsgInv' /\ XferInv'
      BY <1>1, <1>2, <2>2 DEF MsgInv, XferInv, xferVars, Ready, Resetting, ZResetting, Waiting
    <2>4. ZType' /\ ZFlow'
      BY <1>1, <1>2, <1>5, ZStill DEF ZType
    <2>5. ZPc'
      BY <1>2, <1>3, <2>1, <2>2 DEF ZPc, Ready, Waiting, ZResetting
    <2>6. QED
      BY <1>1, <1>2, <2>3, <2>4, <2>5, ZynqWhole
  <1>6. QED
    BY <1>4, <1>5

\* Clear.
LEMMA ZynqClear ==
    ASSUME FifoInv, kind = "zynq", Clear
    PROVE  FifoInv'
  <1>1. useIrq \in BOOLEAN /\ MsgInv /\ XferInv /\ ZType /\ ZFlow /\ ZPc
    BY ZynqParts
  <1>2. /\ pc = "clear" /\ pc' = "cnt" /\ zf' = [zf EXCEPT !.sta = @ \ {"rdy"}]
        /\ UNCHANGED <<tgt, set, msg, nCalls, xferVars, kind, useIrq>>
    BY DEF Clear, ZAccess, drvVars, tgtVars
  <1>3. zf.rst = {} /\ zf.tx = <<>> /\ Whole(zf.rx, msg) /\ zf.cnt = msg.n + 1 /\ zf.sta = {"rdy"}
    BY <1>1, <1>2 DEF ZPc, Ready
  <1>4. /\ ZType' /\ zf'.go = zf.go /\ zf'.rst = zf.rst /\ zf'.tx = zf.tx /\ zf'.rx = zf.rx /\ zf'.cnt = zf.cnt
        /\ zf'.sta = zf.sta \ {"rdy"}
    BY <1>1, <1>2 DEF ZType
  <1>5. zf'.sta = {}
    BY <1>3, <1>4
  <1>6. ZFlow'
    BY <1>1, <1>2, <1>4, ZIdle, ZStill DEF Waiting
  <1>7. MsgInv' /\ XferInv'
    BY <1>1, <1>2 DEF MsgInv, XferInv, xferVars, Ready, Resetting, ZResetting, Waiting
  <1>8. ZPc'
    BY <1>2, <1>3, <1>4, <1>5 DEF ZPc, Ready, Waiting, ZResetting
  <1>9. QED
    BY <1>1, <1>2, <1>4, <1>6, <1>7, <1>8, ZynqWhole

\* Cnt.
LEMMA ZynqCnt ==
    ASSUME FifoInv, kind = "zynq", Cnt
    PROVE  FifoInv'
  <1>1. useIrq \in BOOLEAN /\ MsgInv /\ XferInv /\ ZType /\ ZFlow /\ ZPc
    BY ZynqParts
  <1>2. /\ pc = "cnt" /\ pc' = "hdr" /\ got' = 4 * zf.cnt
        /\ UNCHANGED <<zf, tgt, set, msg, nCalls, i, rx, stored, kind, useIrq>>
    BY DEF Cnt, ZAccess, drvVars, tgtVars
  <1>3. zf.rst = {} /\ zf.tx = <<>> /\ Whole(zf.rx, msg) /\ zf.cnt = msg.n + 1 /\ zf.sta = {}
    BY <1>1, <1>2 DEF ZPc, Ready
  <1>4. MsgInv' /\ XferInv'
    BY <1>1, <1>2, <1>3, Counted
  <1>5. ~ZSending
    BY <1>1, <1>2, ZIdle DEF Waiting
  <1>6. ZType' /\ ZFlow'
    BY <1>1, <1>2, <1>5, ZStill DEF ZType
  <1>7. ZPc'
    BY <1>2, <1>3 DEF ZPc, Ready, Waiting, ZResetting
  <1>8. QED
    BY <1>1, <1>2, <1>4, <1>6, <1>7, ZynqWhole

\* A word of the reply is read.
LEMMA ZRead ==
    ASSUME ZType, ZFlow, pc \in {"hdr", "data"}, zf.rx # <<>>, zf' = [zf EXCEPT !.rx = Tail(@)], UNCHANGED <<tgt, set>>
    PROVE  /\ ZType' /\ ZFlow' /\ zf'.rx = Tail(zf.rx)
           /\ zf'.rst = zf.rst /\ zf'.tx = zf.tx /\ zf'.sta = zf.sta
  <1>1. Tail(zf.rx) \in Seq(Words)
    BY DEF ZType
  <1> DEFINE s == Tail(zf.rx)
  <1>2. s = Tail(zf.rx)
    OBVIOUS
  <1> HIDE DEF s
  <1>3. ZType' /\ zf'.rx = s /\ zf'.go = zf.go /\ zf'.rst = zf.rst /\ zf'.tx = zf.tx /\ zf'.sta = zf.sta
    BY <1>1, <1>2 DEF ZType
  <1>4. ZFlow'
    BY <1>3, ZIdle, ZStill DEF Waiting
  <1>5. QED
    BY <1>2, <1>3, <1>4

\* ReadHdr.
LEMMA ZynqReadHdr ==
    ASSUME FifoInv, kind = "zynq", ReadHdr
    PROVE  FifoInv'
  <1>1. useIrq \in BOOLEAN /\ MsgInv /\ XferInv /\ ZType /\ ZFlow /\ ZPc
    BY ZynqParts
  <1>2. /\ pc = "hdr" /\ zf.rx # <<>> /\ zf' = [zf EXCEPT !.rx = Tail(@)] /\ rx' = Append(rx, Head(zf.rx))
        /\ got' = got - 4 /\ i' = 0 /\ pc' = (IF got = 4 THEN "done" ELSE "data")
        /\ UNCHANGED <<tgt, set, msg, nCalls, kind, useIrq, stored>>
    BY DEF ReadHdr, ReadFifo, Access, Clock, ZAccess, drvVars, tgtVars
  <1>3. zf.rst = {} /\ zf.tx = <<>> /\ Whole(zf.rx, msg) /\ zf.sta = {} /\ msg.n \in Nat
    BY <1>1, <1>2 DEF ZPc, Ready, MsgInv, Msgs
  <1>4. /\ XferInv' /\ Len(Tail(zf.rx)) = msg.n
        /\ pc' = "done" => Tail(zf.rx) = <<>>
        /\ pc' = "data" => Len(rx') = 1 /\ Run(Tail(zf.rx), msg, 1)
    BY <1>1, <1>2, <1>3, HdrRead
  <1>5. MsgInv'
    BY <1>1, <1>2 DEF MsgInv
  <1>6. /\ ZType' /\ ZFlow' /\ zf'.rx = Tail(zf.rx)
        /\ zf'.rst = zf.rst /\ zf'.tx = zf.tx /\ zf'.sta = zf.sta
    BY <1>1, <1>2, ZRead
  <1>7. pc' = "data" => Run(zf'.rx, msg', Len(rx')) /\ Len(zf'.rx) + Len(rx') = msg'.n + 1
    BY <1>2, <1>4, <1>6
  <1>8. ZPc'
    BY <1>2, <1>3, <1>4, <1>6, <1>7 DEF ZPc, Ready, Waiting, ZResetting
  <1>9. QED
    BY <1>1, <1>2, <1>4, <1>5, <1>6, <1>8, ZynqWhole

\* ReadWord.
LEMMA ZynqReadWord ==
    ASSUME FifoInv, kind = "zynq", ReadWord
    PROVE  FifoInv'
  <1>1. useIrq \in BOOLEAN /\ MsgInv /\ XferInv /\ ZType /\ ZFlow /\ ZPc
    BY ZynqParts
  <1>2. /\ pc = "data" /\ zf.rx # <<>> /\ zf' = [zf EXCEPT !.rx = Tail(@)] /\ rx' = Append(rx, Head(zf.rx))
        /\ got' = got /\ i' = i + 4 /\ pc' = (IF MoreWords THEN "data" ELSE "done")
        /\ stored' = Min({i + 4, got, msg.size})
        /\ UNCHANGED <<tgt, set, msg, nCalls, kind, useIrq>>
    BY DEF ReadWord, ReadFifo, Access, Clock, ZAccess, drvVars, tgtVars
  <1>3. zf.rst = {} /\ zf.tx = <<>> /\ Run(zf.rx, msg, Len(rx)) /\ Len(zf.rx) + Len(rx) = msg.n + 1 /\ zf.sta = {}
    BY <1>1, <1>2 DEF ZPc, Ready
  <1>4. /\ XferInv' /\ Run(Tail(zf.rx), msg, Len(rx')) /\ Len(Tail(zf.rx)) + Len(rx') = msg.n + 1
        /\ pc' = "done" => Tail(zf.rx) = <<>>
    BY <1>1, <1>2, <1>3, WordRead
  <1>5. MsgInv'
    BY <1>1, <1>2 DEF MsgInv
  <1>6. /\ ZType' /\ ZFlow' /\ zf'.rx = Tail(zf.rx)
        /\ zf'.rst = zf.rst /\ zf'.tx = zf.tx /\ zf'.sta = zf.sta
    BY <1>1, <1>2, ZRead
  <1>7. Run(zf'.rx, msg', Len(rx')) /\ Len(zf'.rx) + Len(rx') = msg'.n + 1
    BY <1>2, <1>4, <1>6
  <1>8. ZPc'
    BY <1>2, <1>3, <1>4, <1>6, <1>7 DEF ZPc, Ready, Waiting, ZResetting
  <1>9. QED
    BY <1>1, <1>2, <1>4, <1>5, <1>6, <1>8, ZynqWhole

-----------------------------------------------------------------------------
(* The vendor's FIFO passes words *)

\* A message under way: what the target has heard of it, and what is left of it.
LEMMA ZHeard ==
    ASSUME MsgInv, ZType, ZFlow, ZSending
    PROVE  /\ msg \in Msgs /\ msg.n \in Nat /\ Heard(tgt, msg) /\ Len(tgt.frame) \in Nat /\ Len(zf.go) \in Nat
           /\ Run(zf.go, msg, Len(tgt.frame)) /\ Len(tgt.frame) + Len(zf.go) = 1 + 2 * msg.n
           /\ Run(zf.rx, msg, 0) /\ Len(zf.rx) = tgt.sent /\ tgt.sent \in Nat
  <1>1. Flow(tgt, <<>>, zf.go, zf.rx, msg)
    BY DEF ZFlow
  <1>2. /\ msg \in Msgs /\ msg.n \in Nat /\ tgt \in Targets /\ tgt.sent \in Nat /\ tgt.frame \in Seq(Words)
        /\ zf.go \in Seq(Words) /\ tgt.ended \in BOOLEAN
    BY DEF MsgInv, Msgs, ZType, Targets
  <1>3. Len(tgt.frame) \in Nat /\ Len(zf.go) \in Nat /\ Len(<<>>) = 0
    BY <1>2
  <1>4. /\ Run(tgt.frame, msg, 0) /\ Run(zf.go, msg, Len(tgt.frame) + 0)
        /\ Len(tgt.frame) + (0 + Len(zf.go)) = 1 + 2 * msg.n
        /\ 0 + Len(zf.go) = 0 => tgt.ended
        /\ tgt.ended => 0 + Len(zf.go) = 0
        /\ tgt.sent <= msg.n /\ Run(zf.rx, msg, 0) /\ Len(zf.rx) = tgt.sent
    BY <1>1, <1>3 DEF Flow
  <1>5. Len(tgt.frame) + 0 = Len(tgt.frame) /\ 0 + Len(zf.go) = Len(zf.go) /\ 0 \in Nat
    BY <1>3
  <1>6. /\ Len(tgt.frame) <= 1 + 2 * msg.n
        /\ 0 + Len(zf.go) = 0 => Len(tgt.frame) = 1 + 2 * msg.n
        /\ Len(tgt.frame) = 1 + 2 * msg.n => 0 + Len(zf.go) = 0
    <2> DEFINE l == Len(tgt.frame)
               g == Len(zf.go)
               n == msg.n
    <2>1. l \in Nat /\ g \in Nat /\ n \in Nat /\ l + (0 + g) = 1 + 2 * n
      BY <1>2, <1>3, <1>4
    <2> HIDE DEF l, g, n
    <2>2. l <= 1 + 2 * n /\ (0 + g = 0 => l = 1 + 2 * n) /\ (l = 1 + 2 * n => 0 + g = 0)
      BY <2>1
    <2>3. QED
      BY <2>2 DEF l, g, n
  <1>7. Heard(tgt, msg)
    BY <1>2, <1>4, <1>6 DEF Heard
  <1>8. QED
    BY <1>2, <1>3, <1>4, <1>5, <1>7

\* And back.
LEMMA ZFlows ==
    ASSUME NEW p \in Msgs, NEW t, NEW g, NEW a, Heard(t, p), Run(g, p, Len(t.frame)), Len(t.frame) \in Nat,
           Len(t.frame) + Len(g) = 1 + 2 * p.n, Run(a, p, 0), Len(a) = t.sent
    PROVE  Flow(t, <<>>, g, a, p)
  <1>1. /\ Run(t.frame, p, 0) /\ t.sent <= p.n /\ p.n \in Nat /\ Len(g) \in Nat
        /\ t.ended => Len(t.frame) = 1 + 2 * p.n
        /\ Len(t.frame) = 1 + 2 * p.n => t.ended
    BY DEF Heard, Msgs, Run
  <1>2. Len(<<>>) = 0 /\ Len(t.frame) + 0 = Len(t.frame) /\ 0 + Len(g) = Len(g) /\ 0 \in Nat
    BY <1>1
  <1>3. /\ Len(t.frame) + (0 + Len(g)) = 1 + 2 * p.n
    BY <1>2
  <1>4. /\ 0 + Len(g) = 0 => Len(t.frame) = 1 + 2 * p.n
        /\ Len(t.frame) = 1 + 2 * p.n => 0 + Len(g) = 0
    BY <1>1, <1>2, <1>3, Parts
  <1>5. QED
    BY <1>1, <1>2, <1>3, <1>4, RunEmpty DEF Flow

\* ZOut: a word of the request, with TLAST on the last one.
LEMMA ZynqZOut ==
    ASSUME FifoInv, kind = "zynq", ZOut
    PROVE  FifoInv'
  <1>1. useIrq \in BOOLEAN /\ MsgInv /\ XferInv /\ ZType /\ ZFlow /\ ZPc
    BY ZynqParts
  <1>2. /\ zf.go # <<>> /\ Target(<<Head(zf.go)>>, Len(zf.go) = 1, FALSE) /\ zf' = [zf EXCEPT !.go = Tail(@)]
        /\ UNCHANGED <<kind, useIrq, set, msg, nCalls, xferVars, pc>>
    BY DEF ZOut, drvVars
  <1>3. ZSending
    BY <1>2 DEF ZSending
  <1>4. /\ msg \in Msgs /\ msg.n \in Nat /\ Heard(tgt, msg) /\ Len(tgt.frame) \in Nat /\ Len(zf.go) \in Nat
        /\ Run(zf.go, msg, Len(tgt.frame)) /\ Len(tgt.frame) + Len(zf.go) = 1 + 2 * msg.n
        /\ Run(zf.rx, msg, 0) /\ Len(zf.rx) = tgt.sent
    BY <1>1, <1>3, ZHeard
  <1>5. /\ Head(zf.go) = WordOf(msg, Len(tgt.frame)) /\ Run(Tail(zf.go), msg, Len(tgt.frame) + 1)
        /\ Len(zf.go) = Len(Tail(zf.go)) + 1 /\ Len(Tail(zf.go)) \in Nat
    BY <1>2, <1>4, RunTail
  <1> DEFINE l == Len(tgt.frame)
             g == Len(zf.go)
             r == Len(Tail(zf.go))
             n == msg.n
             w == <<Head(zf.go)>>
  <1>6. l \in Nat /\ g \in Nat /\ r \in Nat /\ n \in Nat /\ l + g = 1 + 2 * n /\ g = r + 1
    BY <1>4, <1>5
  <1>7. /\ l < 1 + 2 * n /\ (g = 1 => l = 2 * n) /\ (l = 2 * n => g = 1) /\ (l + 1) + r = 1 + 2 * n
    <2> HIDE DEF l, g, r, n
    <2>1. QED
      BY <1>6
  <1>8. w = <<WordOf(msg, l)>> /\ Len(w) = 1 /\ (g = 1) \in BOOLEAN
    BY <1>5, LenOne
  <1>9. Heard(tgt', msg) /\ Len(tgt'.frame) = l + 1 /\ tgt'.sent = tgt.sent
    <2>1. Target(w, g = 1, FALSE)
      BY <1>2
    <2>2. /\ w = <<WordOf(msg, Len(tgt.frame))>> /\ Len(tgt.frame) < 1 + 2 * msg.n
          /\ g = 1 => Len(tgt.frame) = 2 * msg.n
          /\ Len(tgt.frame) = 2 * msg.n => g = 1
      BY <1>7, <1>8
    <2> HIDE DEF w, g
    <2>3. /\ Heard(tgt', msg) /\ Len(tgt'.frame) = Len(tgt.frame) + Len(w)
          /\ tgt'.sent = IF FALSE THEN tgt.sent + 1 ELSE tgt.sent
      BY <1>4, <1>8, <2>1, <2>2, TargetStep
    <2>4. QED
      BY <1>8, <2>3
  <1>10. Tail(zf.go) \in Seq(Words) /\ tgt' \in Targets
    BY <1>5, <1>9 DEF Run, Heard
  <1>11. ZType' /\ zf'.go = Tail(zf.go) /\ zf'.rst = zf.rst /\ zf'.sta = zf.sta /\ zf'.tx = zf.tx /\ zf'.rx = zf.rx
    BY <1>1, <1>2, <1>10 DEF ZType
  <1>12. Flow(tgt', <<>>, zf'.go, zf'.rx, msg')
    <2>1. /\ Run(Tail(zf.go), msg, Len(tgt'.frame)) /\ Len(tgt'.frame) + Len(Tail(zf.go)) = 1 + 2 * msg.n
          /\ Len(tgt'.frame) \in Nat /\ Len(zf.rx) = tgt'.sent
      <3>1. l + 1 \in Nat
        BY <1>6
      <3>2. Run(Tail(zf.go), msg, l + 1) /\ Len(zf.rx) = tgt'.sent
        BY <1>4, <1>5, <1>9
      <3> HIDE DEF l, r, n
      <3>3. Run(Tail(zf.go), msg, Len(tgt'.frame)) /\ Len(tgt'.frame) + r = 1 + 2 * n /\ Len(tgt'.frame) \in Nat
        BY <1>7, <1>9, <3>1, <3>2
      <3>4. QED
        BY <3>2, <3>3 DEF r, n
    <2>2. Flow(tgt', <<>>, Tail(zf.go), zf.rx, msg)
      BY <1>4, <1>9, <2>1, ZFlows
    <2>3. QED
      BY <1>2, <1>11, <2>2
  <1>13. pc \in Waiting \cup {"down"} /\ zf.rst = {} /\ zf.sta = {} /\ zf.tx = <<>>
    BY <1>1, <1>3 DEF ZFlow
  <1>14. ZFlow'
    BY <1>2, <1>11, <1>12, <1>13 DEF ZFlow
  <1>15. ZSending'
    <2>1. Len(tgt'.frame) # 0 /\ Len(<<>>) = 0
      BY <1>6, <1>9
    <2>2. tgt' # Fresh
      BY <2>1, FreshTarget
    <2>3. QED
      BY <2>2 DEF ZSending, Fresh
  <1>16. ZPc'
    BY <1>1, <1>2, <1>11, <1>13, <1>15 DEF ZPc, Ready, Waiting, ZResetting
  <1>17. QED
    BY <1>1, <1>2, <1>11, <1>14, <1>16, SameXfer, ZynqWhole

\* ZIn: a word of the reply.
LEMMA ZynqZIn ==
    ASSUME FifoInv, kind = "zynq", ZIn
    PROVE  FifoInv'
  <1>1. useIrq \in BOOLEAN /\ MsgInv /\ XferInv /\ ZType /\ ZFlow /\ ZPc
    BY ZynqParts
  <1>2. /\ CanGive /\ (GivenLast => tgt.ended) /\ Target(<<>>, FALSE, TRUE)
        /\ zf' = [zf EXCEPT !.rx = Append(@, Given),
                            !.cnt = IF GivenLast THEN Len(zf.rx) + 1 ELSE @,
                            !.sta = IF GivenLast THEN @ \cup {"rdy"} ELSE @]
        /\ UNCHANGED <<kind, useIrq, set, msg, nCalls, xferVars, pc>>
    BY DEF ZIn, drvVars
  <1>3. ZSending
    <2>1. tgt # Fresh
      BY <1>2, FreshTarget DEF CanGive
    <2>2. QED
      BY <2>1 DEF ZSending
  <1>4. /\ msg \in Msgs /\ msg.n \in Nat /\ Heard(tgt, msg) /\ Len(tgt.frame) \in Nat /\ Len(zf.go) \in Nat
        /\ Run(zf.go, msg, Len(tgt.frame)) /\ Len(tgt.frame) + Len(zf.go) = 1 + 2 * msg.n
        /\ Run(zf.rx, msg, 0) /\ Len(zf.rx) = tgt.sent /\ tgt.sent \in Nat
    BY <1>1, <1>3, ZHeard
  <1>5. /\ Given = WordOf(msg, tgt.sent)
        /\ GivenLast => tgt.ended = TRUE /\ tgt.sent = msg.n
        /\ ~GivenLast => tgt.sent < msg.n
    <2>1. /\ Given = WordOf(msg, tgt.sent)
          /\ GivenLast => tgt.sent = msg.n
          /\ ~GivenLast => tgt.sent < msg.n
      BY <1>2, <1>4, GivenNext
    <2>2. tgt.ended \in BOOLEAN
      BY <1>4 DEF Heard, Targets
    <2>3. QED
      BY <1>2, <2>1, <2>2
  <1> DEFINE s == Append(zf.rx, Given)
  <1>6. Run(s, msg, 0) /\ Len(s) = tgt.sent + 1
    <2>1. Given = WordOf(msg, 0 + Len(zf.rx)) /\ 0 \in Nat
      BY <1>4, <1>5
    <2>2. msg \in Msgs /\ Run(zf.rx, msg, 0)
      BY <1>4
    <2>3. Run(Append(zf.rx, Given), msg, 0) /\ Len(Append(zf.rx, Given)) = Len(zf.rx) + 1
      BY <2>1, <2>2, RunAppend
    <2>4. QED
      BY <1>4, <2>3
  <1>7. s = Append(zf.rx, Given) /\ s \in Seq(Words)
    BY <1>6 DEF Run
  <1> HIDE DEF s
  <1>8. /\ tgt.sent = msg.n => Unmoved
        /\ tgt.sent # msg.n =>
              /\ Heard(tgt', msg) /\ Len(tgt'.frame) = Len(tgt.frame) + Len(<<>>)
              /\ tgt'.sent = tgt.sent + 1
    <2>1. TRUE => CanGive
      BY <1>2
    <2>2. /\ TRUE /\ tgt.sent = msg.n =>
                \/ Finished(tgt', tgt.frame, <<>>, msg)
                \/ /\ Overtaken(tgt', msg) /\ mem' = msg.m /\ tgt.ended = FALSE
                   /\ Len(tgt'.frame) = Len(tgt.frame) + Len(<<>>)
          /\ ~(TRUE /\ tgt.sent = msg.n) =>
                /\ Heard(tgt', msg) /\ Len(tgt'.frame) = Len(tgt.frame) + Len(<<>>)
                /\ tgt'.sent = IF TRUE THEN tgt.sent + 1 ELSE tgt.sent
      BY <1>2, <1>4, <2>1, TargetStep
    <2>3. tgt.sent = msg.n => tgt.ended = TRUE
      <3>1. tgt.sent = msg.n => GivenLast
        BY <1>4, <1>5
      <3>2. QED
        BY <1>5, <3>1
    <2>4. tgt.sent = msg.n => tgt' = Fresh
      BY <2>2, <2>3 DEF Finished
    <2>5. QED
      BY <2>2, <2>4 DEF Unmoved
  <1>9. Len(zf.rx) + 1 \in Nat /\ zf.sta = {} /\ zf.rst = {} /\ zf.tx = <<>> /\ pc \in Waiting \cup {"down"}
    BY <1>1, <1>3, <1>4 DEF ZFlow
  <1>10. CASE GivenLast
    <2>1. tgt' = Fresh /\ tgt.sent = msg.n
      BY <1>5, <1>8, <1>10 DEF Unmoved
    <2>2. zf' = [zf EXCEPT !.rx = s, !.cnt = Len(zf.rx) + 1, !.sta = zf.sta \cup {"rdy"}]
      BY <1>2, <1>7, <1>10
    <2> DEFINE c == Len(zf.rx) + 1
               b == zf.sta \cup {"rdy"}
    <2>3. c \in Nat /\ b \subseteq Sides \cup {"rdy"} /\ c = Len(zf.rx) + 1 /\ b = zf.sta \cup {"rdy"}
      BY <1>9
    <2>4. zf' = [zf EXCEPT !.rx = s, !.cnt = c, !.sta = b]
      BY <2>2
    <2> HIDE DEF c, b
    <2>5. tgt' \in Targets
      BY <2>1, FreshTarget
    <2>6. /\ ZType' /\ zf'.go = zf.go /\ zf'.rst = zf.rst /\ zf'.tx = zf.tx /\ zf'.rx = s
           /\ zf'.cnt = c /\ zf'.sta = b
      BY <1>1, <1>2, <1>7, <2>3, <2>4, <2>5 DEF ZType
    <2>7. /\ ZType' /\ zf'.go = zf.go /\ zf'.rst = zf.rst /\ zf'.tx = zf.tx /\ zf'.rx = s
          /\ zf'.cnt = Len(zf.rx) + 1 /\ zf'.sta = zf.sta \cup {"rdy"}
      BY <2>3, <2>6
    <2>8. zf'.sta = {"rdy"} /\ zf'.cnt = msg.n + 1 /\ Whole(zf'.rx, msg)
      BY <1>4, <1>6, <1>9, <2>1, <2>7 DEF Whole
    <2>9. ~ZSending'
      <3>1. Len(tgt.frame) = 1 + 2 * msg.n
        BY <1>4, <1>5, <1>10 DEF Heard
      <3>2. Len(zf.go) = 0
        BY <1>4, <3>1
      <3>3. zf.go = <<>>
        BY <1>1, <3>2, NoWords DEF ZType
      <3>4. QED
        BY <2>1, <2>7, <3>3 DEF ZSending, Fresh
    <2>10. ZFlow'
      BY <2>9 DEF ZFlow
    <2>11. ZPc'
      BY <1>2, <1>9, <2>7, <2>8 DEF ZPc, Ready, Waiting, ZResetting
    <2>12. QED
      BY <1>1, <1>2, <2>7, <2>10, <2>11, SameXfer, ZynqWhole
  <1>11. CASE ~GivenLast
    <2>1. tgt.sent # msg.n
      BY <1>4, <1>5, <1>11
    <2>2. Heard(tgt', msg) /\ Len(tgt'.frame) = Len(tgt.frame) + Len(<<>>) /\ tgt'.sent = tgt.sent + 1
      BY <1>8, <2>1
    <2>3. Len(tgt'.frame) = Len(tgt.frame)
      <3>1. Len(<<>>) = 0
        OBVIOUS
      <3>2. QED
        BY <1>4, <2>2, <3>1
    <2>4. zf' = [zf EXCEPT !.rx = s, !.cnt = zf.cnt, !.sta = zf.sta]
      BY <1>2, <1>7, <1>11
    <2>5. tgt' \in Targets
      BY <2>2 DEF Heard
    <2>6. /\ ZType' /\ zf'.go = zf.go /\ zf'.rst = zf.rst /\ zf'.tx = zf.tx /\ zf'.rx = s /\ zf'.sta = zf.sta
      BY <1>1, <1>2, <1>7, <2>4, <2>5 DEF ZType
    <2>7. Flow(tgt', <<>>, zf.go, s, msg)
      BY <1>4, <1>6, <2>2, <2>3, ZFlows
    <2>8. ZFlow'
      BY <1>2, <1>9, <2>6, <2>7 DEF ZFlow
    <2>9. ZSending'
      <3>1. tgt'.sent # 0
        BY <1>4, <2>2
      <3>2. tgt' # Fresh
        BY <3>1, FreshTarget
      <3>3. QED
        BY <3>2 DEF ZSending, Fresh
    <2>10. ZPc'
      BY <1>2, <1>9, <2>6, <2>9 DEF ZPc, Ready, Waiting, ZResetting
    <2>11. QED
      BY <1>1, <1>2, <2>6, <2>8, <2>10, SameXfer, ZynqWhole
  <1>12. QED
    BY <1>10, <1>11

\* Every step.
LEMMA ZynqNext ==
    ASSUME FramesFit, FifoInv, kind = "zynq", Next
    PROVE  FifoInv'
  <1>1. ~Magic /\ ~Vers /\ ~Rst /\ ~Unrst /\ ~Ien /\ ~Rmw /\ ~Eof
    BY DEF Magic, Vers, Rst, Unrst, Ien, Rmw, Eof, Access, Clock
  <1>2. ~(\E take, give \in BOOLEAN : Tick(take, give))
    BY DEF Tick, Clock
  <1>3. CASE Reset
    BY <1>1, <1>3, ZynqZRst, ZynqZSet, ZynqZDone DEF Reset
  <1>4. CASE Xfer
    BY <1>1, <1>4, ZynqTx, ZynqEnd, ZynqPoll, ZynqClear, ZynqCnt, ZynqReadHdr, ZynqReadWord, ZynqDone DEF Xfer
  <1>5. CASE Vendor
    BY <1>5, ZynqZReset, ZynqZOut, ZynqZIn DEF Vendor, Sides
  <1>6. QED
    BY <1>2, <1>3, <1>4, <1>5, ZynqStart, ZynqKill, ZynqWait, ZynqCall DEF Next, Driver

-----------------------------------------------------------------------------
(* The theorems *)

\* The invariant holds at first.
LEMMA InitInv ==
    ASSUME Init
    PROVE  FifoInv
  <1>1. /\ kind \in {"tmem", "zynq"} /\ useIrq \in BOOLEAN /\ <<>> \in Seq(Words) /\ Len(<<>>) = 0
        /\ 0 \in 0..Gap /\ 1 + 2 * 0 <= Depth
    BY FifoAssumption, DepthAssumption DEF Init
  <1>2. tgt = Fresh
    BY DEF Init, Fresh
  <1>3. MsgInv
    BY <1>1, NoMessage DEF Init, MsgInv
  <1>4. XferInv
    BY DEF Init, XferInv, Ready, Resetting, ZResetting, Waiting
  <1>5. HwType
    <2>1. zf.rst = {} /\ zf.go = <<>> /\ seq = 0 /\ wcntReg = 0 /\ wcntCnt = 0 /\ quiet = 0
      BY DEF Init, TmemInit
    <2>2. usrRst = FALSE /\ owner = FALSE /\ ien = FALSE /\ out = <<>> /\ outReg = <<>> /\ inp = <<>>
      BY DEF Init, TmemInit
    <2>3. seq \in 0..7 /\ wcntReg \in Nat
      BY <2>1
    <2>4. QED
      BY <1>1, <1>2, <2>1, <2>2, <2>3, FreshTarget DEF HwType
  <1>6. HwReset /\ HwPc
    BY DEF Init, TmemInit, HwReset, HwPc, Ready, ZResetting, Waiting
  <1>7. HwSending
    BY <1>2 DEF Init, TmemInit, HwSending, Sending
  <1>8. ZType
    BY <1>1, <1>2, FreshTarget DEF Init, ZType, Sides
  <1>9. ZFlow
    BY <1>2 DEF Init, ZFlow, ZSending
  <1>10. ZPc
    BY DEF Init, ZPc, Ready, ZResetting, Waiting
  <1>11. QED
    BY <1>1, <1>3, <1>4, <1>5, <1>6, <1>7, <1>8, <1>9, <1>10 DEF FifoInv, TmemInv, ZynqInv

\* It says nothing that a step of others could change.
LEMMA Stutter ==
    ASSUME FifoInv, UNCHANGED vars
    PROVE  FifoInv'
  <1>1. kind \in {"tmem", "zynq"}
    BY DEF FifoInv
  <1>2. UNCHANGED <<tmemVars, kind, useIrq, set, msg, nCalls, csr, xferVars, pc, quiet, tgt, mem, zf>>
    BY DEF vars, drvVars, tgtVars
  <1>3. CASE kind = "tmem"
    <2>1. useIrq \in BOOLEAN /\ MsgInv /\ XferInv /\ HwType /\ HwReset /\ HwSending /\ HwPc
      BY <1>3, TmemParts
    <2>2. HwType' /\ HwReset' /\ (Sending' => Sending) /\ (Sending => Sending') /\ (Empty => Empty')
      BY <1>2, <2>1, SameHw
    <2>3. HwSending'
      BY <1>2, <2>1, <2>2 DEF HwSending, tmemVars
    <2>4. HwPc'
      <3>1. Replied => Replied'
        BY <1>2, <2>2 DEF Replied, tmemVars
      <3>2. QED
        BY <1>2, <2>1, <2>2, <3>1 DEF HwPc, tmemVars, xferVars
    <2>5. QED
      BY <1>2, <1>3, <2>1, <2>2, <2>3, <2>4, SameXfer, TmemWhole
  <1>4. CASE kind = "zynq"
    <2>1. useIrq \in BOOLEAN /\ MsgInv /\ XferInv /\ ZType /\ ZFlow /\ ZPc
      BY <1>4, ZynqParts
    <2>2. ZType' /\ ZFlow' /\ (ZSending' => ZSending) /\ (ZSending => ZSending')
      BY <1>2, <2>1, SameZynq
    <2>3. ZPc'
      BY <1>2, <2>1, <2>2 DEF ZPc, xferVars
    <2>4. QED
      BY <1>2, <1>4, <2>1, <2>2, <2>3, SameXfer, ZynqWhole
  <1>5. QED
    BY <1>1, <1>3, <1>4

\* Every state of both drivers satisfies FifoInv.
LEMMA FifoInvariant ==
    ASSUME FramesFit
    PROVE  Spec => []FifoInv
  <1>1. Init => FifoInv
    BY InitInv
  <1>2. FifoInv /\ [Next]_vars => FifoInv'
    <2>1. FifoInv => kind \in {"tmem", "zynq"}
      BY DEF FifoInv
    <2>2. QED
      BY <2>1, TmemNext, ZynqNext, Stutter
  <1>3. QED
    BY <1>1, <1>2, PTL DEF Spec

\* What FrameWhole says of a frame that a message is the source of.
LEMMA HeardWhole ==
    ASSUME NEW p \in Msgs, Heard(tgt, p) \/ Overtaken(tgt, p)
    PROVE  FrameWhole
  <1>1. /\ Run(tgt.frame, p, 0) /\ tgt.ended \in BOOLEAN
        /\ tgt.ended => Len(tgt.frame) = 1 + 2 * p.n
        /\ Len(tgt.frame) = 1 + 2 * p.n => tgt.ended
    <2>1. CASE Heard(tgt, p)
      BY <2>1 DEF Heard, Targets
    <2>2. CASE Overtaken(tgt, p)
      <3>1. /\ Run(tgt.frame, p, 0) /\ tgt.ended = FALSE /\ Len(tgt.frame) < 1 + 2 * p.n
            /\ Len(tgt.frame) \in Nat /\ p.n \in Nat
        BY <2>2 DEF Overtaken, Run, Msgs
      <3>2. Len(tgt.frame) # 1 + 2 * p.n
        BY <3>1
      <3>3. QED
        BY <3>1, <3>2
    <2>3. QED
      BY <2>1, <2>2
  <1>2. ASSUME tgt.frame # <<>>
        PROVE  /\ \A k \in 1..Len(tgt.frame) :
                     tgt.frame[k] = [m |-> tgt.frame[1].m, k |-> k - 1, n |-> tgt.frame[1].n]
               /\ tgt.ended = (Len(tgt.frame) = 1 + 2 * tgt.frame[1].n)
    <2>1. tgt.frame[1].m = p.m /\ tgt.frame[1].n = p.n
      BY <1>1, <1>2, FrameHead
    <2>2. ASSUME NEW k \in 1..Len(tgt.frame)
          PROVE  tgt.frame[k] = [m |-> p.m, k |-> k - 1, n |-> p.n]
      <3>1. tgt.frame[k] = WordOf(p, 0 + (k - 1))
        BY <1>1 DEF Run
      <3>2. 0 + (k - 1) = k - 1
        OBVIOUS
      <3>3. QED
        BY <3>1, <3>2 DEF WordOf
    <2>3. tgt.ended = (Len(tgt.frame) = 1 + 2 * p.n)
      BY <1>1
    <2>4. QED
      BY <2>1, <2>2, <2>3
  <1>3. QED
    BY <1>2 DEF FrameWhole

\* Nor is a target without a frame a counterexample.
LEMMA FreshWhole ==
    ASSUME tgt = Fresh
    PROVE  FrameWhole
  BY FreshTarget DEF FrameWhole

\* For every size of the FIFO and of the messages that fit it, for the driver of
\* xvcDrvAxisTmem.cc and that of xvcDrvAxisFifo.cc, polled and with interrupts: however
\* often the process is ended, in whatever place, and a new one resets the FIFOs,
\* the target sees each frame whole, with TLAST where it belongs.
THEOREM FramesWhole ==
    ASSUME FramesFit
    PROVE  Spec => []FrameWhole
  <1>1. FifoInv => FrameWhole
    <2>1. SUFFICES ASSUME FifoInv PROVE FrameWhole
      OBVIOUS
    <2>2. CASE kind = "tmem"
      <3>1. MsgInv /\ HwType /\ HwSending
        BY <2>1, <2>2, TmemParts
      <3>2. CASE Sending
        <4>1. CASE wcntReg = 0
          <5>1. Moving(tgt, outReg, out, inp, owner, msg)
            BY <3>1, <3>2, <4>1 DEF HwSending
          <5>2. msg \in Msgs /\ Heard(tgt, msg)
            BY <3>1, <5>1, FlowParts
          <5>3. QED
            BY <5>2, HeardWhole
        <4>2. CASE wcntReg # 0
          <5>1. msg \in Msgs /\ Overtaken(tgt, msg)
            BY <3>1, <3>2, <4>2 DEF HwSending, Draining, MsgInv
          <5>2. QED
            BY <5>1, HeardWhole
        <4>3. QED
          BY <4>1, <4>2
      <3>3. CASE ~Sending
        BY <3>3, FreshWhole DEF Sending
      <3>4. QED
        BY <3>2, <3>3
    <2>3. CASE kind = "zynq"
      <3>1. MsgInv /\ ZType /\ ZFlow
        BY <2>1, <2>3, ZynqParts
      <3>2. CASE ZSending
        BY <3>1, <3>2, ZHeard, HeardWhole
      <3>3. CASE ~ZSending
        BY <3>3, FreshWhole DEF ZSending
      <3>4. QED
        BY <3>2, <3>3
    <2>4. QED
      BY <2>1, <2>2, <2>3 DEF FifoInv
  <1>2. QED
    BY <1>1, FifoInvariant, PTL

\* For the same instances: what xfer() returns is the whole reply to its own message,
\* with every octet of it, in spite of replies that the test mode drops and of the
\* words that earlier processes left behind.
THEOREM ReplyIsOwn ==
    ASSUME FramesFit
    PROVE  Spec => []OwnReply
  <1>1. FifoInv => OwnReply
    <2>1. SUFFICES ASSUME FifoInv, pc = "idle", msg # NoMsg
                   PROVE  /\ rx = [k \in 1..(1 + msg.n) |-> [m |-> msg.m, k |-> k - 1, n |-> msg.n]]
                          /\ stored = msg.size
      BY DEF OwnReply
    <2>2. Run(rx, msg, 0) /\ Len(rx) = msg.n + 1 /\ stored = msg.size /\ msg.n \in Nat
      BY <2>1 DEF FifoInv, XferInv, MsgInv, Msgs, Whole
    <2>3. rx \in Seq(Words) /\ Len(rx) = 1 + msg.n
      BY <2>2 DEF Run
    <2>4. ASSUME NEW k \in 1..(1 + msg.n)
          PROVE  rx[k] = [m |-> msg.m, k |-> k - 1, n |-> msg.n]
      <3>1. rx[k] = WordOf(msg, 0 + (k - 1))
        BY <2>2, <2>3 DEF Run
      <3>2. 0 + (k - 1) = k - 1
        BY <2>2
      <3>3. QED
        BY <3>1, <3>2 DEF WordOf
    <2>5. rx = [k \in 1..(1 + msg.n) |-> rx[k]]
      BY <2>3
    <2>6. QED
      BY <2>2, <2>4, <2>5
  <1>2. QED
    BY <1>1, FifoInvariant, PTL

\* For the same instances: between two transfers, and after the resets of a new
\* process, the FIFOs are empty, the counters agree and the streams own nothing.
THEOREM FifosClean ==
    ASSUME FramesFit
    PROVE  Spec => []FifoClean
  <1>1. FifoInv => FifoClean
    <2>1. SUFFICES ASSUME FifoInv, pc = "idle" PROVE FifoClean
      BY DEF FifoClean
    <2>2. CASE kind = "tmem"
      <3>1. MsgInv /\ HwType /\ HwSending /\ HwPc
        BY <2>1, <2>2, TmemParts
      <3>2. Still
        BY <2>1, <3>1, StillNow DEF Reading, Waiting
      <3>3. Empty /\ ~usrRst /\ ien = useIrq
        BY <2>1, <3>1 DEF HwPc, Ready
      <3>4. wcntCnt = 0
        BY <3>1, <3>3 DEF HwType, Empty
      <3>5. QED
        BY <2>2, <3>2, <3>3, <3>4 DEF FifoClean, Still, Empty
    <2>3. CASE kind = "zynq"
      <3>1. ZType /\ ZFlow /\ ZPc
        BY <2>1, <2>3, ZynqParts
      <3>2. ~ZSending
        BY <2>1, <3>1, ZIdle DEF Waiting
      <3>3. tgt = Fresh /\ zf.go = <<>> /\ zf.tx = <<>> /\ zf.rx = <<>> /\ zf.sta = {} /\ zf.rst = {}
        BY <2>1, <3>1, <3>2 DEF ZPc, Ready, ZSending
      <3>4. <<>> \o <<>> \o <<>> = <<>>
        OBVIOUS
      <3>5. QED
        BY <2>3, <3>3, <3>4 DEF FifoClean
    <2>4. QED
      BY <2>1, <2>2, <2>3 DEF FifoInv
  <1>2. QED
    BY <1>1, FifoInvariant, PTL
================================================================================
