----------------------------- MODULE AxisToJtagRef -----------------------------
(***************************************************************************)
(* What AxisToJtag promises of a whole stream of requests, one request at  *)
(* a time, and the properties that compare the clocked design with it.     *)
(* This is the behaviour that AxisToJtagMsg takes for granted.             *)
(***************************************************************************)
EXTENDS AxisToJtag
LOCAL INSTANCE SequencesExt

\* Pairs of words that the bits of m fill, and that it brings
PairsNeeded(m) == (m.len + WIDTH - 1) \div WIDTH
Pairs(m) == IF m.words \div 2 < PairsNeeded(m) THEN m.words \div 2 ELSE PairsNeeded(m)
BitsDone(m) == IF Pairs(m) < PairsNeeded(m) THEN Pairs(m) * WIDTH ELSE m.len

RefInit == [n |-> 0, xid |-> 0, valid |-> FALSE, mem |-> <<>>, jtag |-> <<>>, out |-> <<>>]

\* The TDO words of a shift whose first bit goes out at rising edge number base + 1
TdoWords(m, base) ==
    [j \in 1..Pairs(m) |->
       Tdo([i \in 0..(WIDTH - 1) |->
              LET k == (j - 1) * WIDTH + i + 1 IN IF k <= BitsDone(m) THEN base + k ELSE NoTdo])]

\* A header and the words behind it; the last word has TLAST
Reply(h, ws) ==
    LET s == <<h>> \o ws
    IN  [i \in 1..Len(s) |-> [last |-> i = Len(s), data |-> s[i]]]

\* The reference's state r after request m
RefRequest(r, m) ==
    LET n == r.n + 1
        answer(what) == [r EXCEPT !.n = n, !.out = @ \o Reply(Hdr(n, what), <<>>)]
        tdo == TdoWords(m, Len(r.jtag))
    IN  CASE m.version = "bad" -> answer("bad version")
          [] m.version = "ok" /\ m.cmd = "query" -> [answer("query") EXCEPT !.valid = FALSE]
          [] m.version = "ok" /\ m.cmd = "other" -> answer("bad command")
          [] m.version = "ok" /\ m.cmd = "shift" ->
               IF m.words = 0 \/ (MEM_DEPTH > 0 /\ PairsNeeded(m) > MEM_DEPTH)
               THEN answer("truncated")
               ELSE IF MEM_DEPTH > 0 /\ r.valid /\ r.xid = m.xid
               THEN [r EXCEPT !.n = n, !.out = @ \o Reply(Hdr(n, "echo"), r.mem)]
               ELSE IF m.words = 1
               THEN [answer("truncated") EXCEPT !.xid = m.xid, !.valid = FALSE]
               ELSE [r EXCEPT !.n = n, !.xid = m.xid, !.valid = MEM_DEPTH > 0, !.mem = tdo,
                              !.jtag = @ \o [k \in 1..BitsDone(m) |-> <<<<n, k>>, <<n, k>>>>],
                              !.out = @ \o Reply(Hdr(n, "echo"), tdo)]

Ref == FoldLeft(RefRequest, RefInit, reqs)

\* Replies come out in order, complete and framed: every bit of TDO is what the
\* device showed when the bits of TMS and TDI in the same place were driven, and
\* a replay repeats the stored words, whatever the pauses of the two streams.
\* TMS and TDI are driven bit by bit, each once, in order; nothing else is.
RepliesMatch == IsPrefix(out, Ref.out) /\ IsPrefix(jtag, Ref.jtag)

\* The words of a response stay inside the buffer memory (checkLen, widx).
WritesInRange ==
    MEM_DEPTH > 0 /\ top.passTdo /\ mTdoValid => top.widx < MEM_DEPTH

\* When the next header is looked at, nothing of the last request is left in the
\* core or in the serialiser (WAIT_STOPPED_S, tLast).
CoreQuiet == top.state = "IDLE_S" => ~core.running /\ ~core.tdoValid /\ sd.state = "IDLE_S"

\* Every request is answered in the end, and the design is ready for the next
AllAnswered ==
    <>[](out = Ref.out /\ jtag = Ref.jtag /\ top.state = "IDLE_S" /\ core.state = "IDLE_S")
===============================================================================
