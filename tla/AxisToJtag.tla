------------------------------ MODULE AxisToJtag ------------------------------
(***************************************************************************)
(* AxisToJtag.vhd and the AxiStreamSelector in it, clock cycle by clock    *)
(* cycle, on top of the core and the serialiser.  It looks at the header   *)
(* of a request, answers it by itself (queries, errors), passes it to the  *)
(* core (a shift with a new transaction id) or plays the stored response   *)
(* back (a shift with the id of the last one).                             *)
(*                                                                         *)
(* The words come from a master that may pause at any time, and go to a    *)
(* slave that may be busy at any time.  The records top and selBuf are the *)
(* registers of the two architectures (r.nstate, which never changes, is   *)
(* left out, and so are TKEEP and the reset).                              *)
(***************************************************************************)
EXTENDS AxisToJtagCore
LOCAL INSTANCE SequencesExt

CONSTANT RequestStreams(_)  \* the sequences of requests that the master of a design may send

\* A request: its header, and how many words of TMS and TDI follow it.  A well
\* formed one has two words for every WIDTH bits; TLAST is on the last word.
RequestType ==
    [version : {"ok", "bad"}, cmd : {"query", "shift", "other"}, xid : Nat,
     len : Nat \ {0}, words : Nat]

ASSUME TopAssumption ==
    \A d \in Designs : \A s \in RequestStreams(d) : \A n \in DOMAIN s : s[n] \in RequestType

VARIABLES
    top, selBuf,     \* r, and r.streamBuf of the selector
    bufMem, memOut,  \* buffer memory and its readout register
    reqs,            \* the requests (they do not change)
    stream,          \* words that the master has not sent yet
    valid,           \* it presents the next one now
    out              \* words that the slave took

vars == <<design, sd, jtag, core, top, selBuf, bufMem, memOut, reqs, stream, valid, out>>

MEM_DEPTH == design.MEM_DEPTH  \* MEM_DEPTH_G

\* Word j of request n: the header is word 0, then TMS and TDI take turns
RequestWord(n, m, j) ==
    [last |-> j = m.words,
     data |-> [hdr |-> m, req |-> n, len |-> IF j = 0 THEN m.len - 1 ELSE 0,
               bits |-> [i \in 0..(WIDTH - 1) |-> <<n, ((j - 1) \div 2) * WIDTH + i + 1>>]]]

WordsOf(n, m) == [j \in 1..(m.words + 1) |-> RequestWord(n, m, j - 1)]

Hdr(n, what) == <<"hdr", n, what>>
Tdo(w) == <<"tdo", w>>
Bogus == <<"bogus">>
Word(v, l, d) == [valid |-> v, last |-> l, data |-> d]

Init ==
    /\ design \in Designs
    /\ SdInit /\ CoreInit
    /\ top = [state |-> "IDLE_S", replyData |-> Word(FALSE, FALSE, Bogus), tLastSeen |-> FALSE,
              ackInput |-> FALSE, passTdo |-> FALSE, passTdi |-> FALSE, ridx |-> 0,
              widx |-> 0, memValid |-> FALSE, xid |-> 0]
    /\ selBuf = Word(FALSE, FALSE, Bogus)
    /\ bufMem = [i \in 0..(MEM_DEPTH - 1) |-> Bogus]
    /\ memOut = Bogus
    /\ reqs \in RequestStreams(design)
    /\ stream = FlattenSeq([n \in 1..Len(reqs) |-> WordsOf(n, reqs[n])])
    /\ valid = FALSE
    /\ out = <<>>

-----------------------------------------------------------------------------
(* Combinatorial signals.  rdy is the slave's tReady. *)

\* The request stream, as the module and (s.mTdi) as the core see it
mAxisReq == Word(valid, Head(stream).last, Head(stream).data)
mTdi == IF valid THEN [mAxisReq EXCEPT !.valid = top.passTdi] ELSE Word(FALSE, FALSE, Bogus)
reqReady == IF top.passTdi THEN core.sReady ELSE top.ackInput
lastReq == valid /\ reqReady /\ Head(stream).last
lastTdi == top.passTdi /\ lastReq

\* The selector takes a word from the side that passTdo says
selReady(rdy) == ~selBuf.valid \/ rdy
sTdoReady(rdy) == selReady(rdy) /\ top.passTdo
locConsumed(rdy) == selReady(rdy) /\ ~top.passTdo /\ top.replyData.valid

tdoXfer(rdy) == sTdoReady(rdy) /\ mTdoValid
\* A mutant of lastTdo: the two streams have to end in the same clock
lastTdoWithTdi(rdy) == tdoXfer(rdy) /\ core.tLast /\ lastTdi
lastTdo(rdy) == tdoXfer(rdy) /\ core.tLast
\* A mutant of tdoWen: a word is stored in each clock that it waits
tdoWenWaiting(rdy) == mTdoValid /\ top.passTdo
tdoWen(rdy) == tdoXfer(rdy) /\ top.passTdo
tdoRen(rdy) == top.state = "REPLAY_S" => locConsumed(rdy)

-----------------------------------------------------------------------------
(* P_COMB *)

sendHeaderNow(v, what) ==
    [v EXCEPT !.replyData = Word(TRUE, TRUE, Hdr(mAxisReq.data.req, what)), !.state = "SEND_REP_S"]

xidIsNew(m) == MEM_DEPTH = 0 \/ ~top.memValid \/ m.xid # top.xid

\* log2 of StdRtlPkg rounds up
log2(n) == IF n < 2 THEN 1 ELSE CHOOSE k \in 1..n : 2^k >= n /\ 2^(k - 1) < n

\* Words are counted as if their size were a power of two
checkLen(m) == MEM_DEPTH > 0 => (m.len + 2^log2(WIDTH) - 1) \div 2^log2(WIDTH) <= MEM_DEPTH

\* A new request: its header is echoed, and consumed unless the core needs it
TopIdle ==
    LET m == mAxisReq.data.hdr
        echo == Word(FALSE, mAxisReq.last, Hdr(mAxisReq.data.req, "echo"))
        v == [top EXCEPT !.replyData = echo, !.ackInput = TRUE, !.tLastSeen = mAxisReq.last,
                         !.ridx = 0]
    IN  CASE ~valid -> [top EXCEPT !.tLastSeen = FALSE]
          [] valid /\ m.version = "bad" -> sendHeaderNow(v, "bad version")
          [] valid /\ m.version = "ok" /\ m.cmd = "query" ->
               [sendHeaderNow(v, "query") EXCEPT !.memValid = FALSE]
          [] valid /\ m.version = "ok" /\ m.cmd = "other" -> sendHeaderNow(v, "bad command")
          [] valid /\ m.version = "ok" /\ m.cmd = "shift" ->
               IF mAxisReq.last \/ ~checkLen(m)
               THEN sendHeaderNow(v, "truncated")
               ELSE IF xidIsNew(m)
               THEN [v EXCEPT !.widx = 0, !.xid = m.xid, !.state = "WAIT_STARTED_S",
                              !.ackInput = FALSE, !.passTdi = TRUE, !.memValid = FALSE]
               ELSE [v EXCEPT !.replyData = [echo EXCEPT !.valid = TRUE, !.last = FALSE],
                              !.state = "REPLAY_S", !.ridx = 1]

\* The header is held back until the core has started; if the request ends
\* before that then it is turned into an error.
TopWaitStarted ==
    CASE core.running ->
           [top EXCEPT !.passTdi = @ /\ ~lastTdi, !.state = "WAIT_HDR_READY_S",
                       !.replyData.valid = TRUE]
      [] ~core.running /\ lastReq ->
           [top EXCEPT !.replyData = Word(TRUE, TRUE, Hdr(@.data[2], "truncated")),
                       !.passTdi = FALSE, !.tLastSeen = TRUE, !.state = "SEND_REP_S"]
      [] OTHER -> top

\* The reply has to go out and the rest of the request to come in
TopSendRep(rdy) ==
    LET seen == top.tLastSeen \/ lastReq
        busy == top.replyData.valid /\ ~locConsumed(rdy)
    IN  [top EXCEPT !.tLastSeen = seen, !.ackInput = @ /\ ~seen, !.replyData.valid = busy,
                    !.state = IF seen /\ ~busy THEN "IDLE_S" ELSE @]

TopWaitHdrReady(rdy) ==
    LET v == [top EXCEPT !.passTdi = @ /\ ~lastTdi]
    IN  IF locConsumed(rdy)
        THEN [v EXCEPT !.passTdo = TRUE, !.replyData.valid = FALSE, !.state = "WAIT_STOPPED_S"]
        ELSE v

\* A mutant of TopWaitStopped: the end of the request is enough
TopWaitStoppedTdi(rdy) ==
    LET pTdi == top.passTdi /\ ~lastTdi
        pTdo == top.passTdo /\ ~lastTdo(rdy)
        write == MEM_DEPTH > 0 /\ tdoWen(rdy)
    IN  [top EXCEPT !.passTdi = pTdi, !.passTdo = pTdo,
                    !.state = IF ~pTdi THEN "IDLE_S" ELSE @,
                    !.memValid = @ \/ (write /\ core.tLast),
                    !.widx = IF write THEN @ + 1 ELSE @]

\* Both streams have to end; the response is stored as it passes
TopWaitStopped(rdy) ==
    LET pTdi == top.passTdi /\ ~lastTdi
        pTdo == top.passTdo /\ ~lastTdo(rdy)
        write == MEM_DEPTH > 0 /\ tdoWen(rdy)
    IN  [top EXCEPT !.passTdi = pTdi, !.passTdo = pTdo,
                    !.state = IF ~pTdi /\ ~pTdo THEN "IDLE_S" ELSE @,
                    !.memValid = @ \/ (write /\ core.tLast),
                    !.widx = IF write THEN @ + 1 ELSE @]

\* Header and stored words go out while the request is absorbed; ridx is one
\* ahead of the word in memOut
TopReplay(rdy) ==
    LET ack == top.ackInput /\ ~lastReq
        v == [top EXCEPT !.ackInput = ack]
        w == [v EXCEPT !.replyData.data = memOut, !.ridx = @ + 1]
        x == CASE ~locConsumed(rdy) -> v
               [] locConsumed(rdy) /\ top.ridx = top.widx ->
                    [w EXCEPT !.replyData.last = TRUE, !.ridx = 0]
               [] locConsumed(rdy) /\ top.ridx # top.widx /\ top.replyData.last ->
                    [w EXCEPT !.replyData.valid = FALSE, !.ridx = 0]
               [] OTHER -> w
    IN  [x EXCEPT !.state = IF ~ack /\ ~x.replyData.valid THEN "IDLE_S" ELSE @]

Top(rdy) ==
    top' = CASE top.state = "IDLE_S" -> TopIdle
             [] top.state = "WAIT_STARTED_S" -> TopWaitStarted
             [] top.state = "SEND_REP_S" -> TopSendRep(rdy)
             [] top.state = "WAIT_HDR_READY_S" -> TopWaitHdrReady(rdy)
             [] top.state = "WAIT_STOPPED_S" -> TopWaitStopped(rdy)
             [] top.state = "REPLAY_S" -> TopReplay(rdy)

\* P_RAM.  A read behind the end of the memory yields anything.
Ram(rdy) ==
    /\ bufMem' = IF MEM_DEPTH > 0 /\ tdoWen(rdy)
                 THEN [bufMem EXCEPT ![top.widx] = Tdo(core.tdo)] ELSE bufMem
    /\ memOut' = IF MEM_DEPTH > 0 /\ tdoRen(rdy)
                 THEN IF top.ridx \in DOMAIN bufMem THEN bufMem[top.ridx] ELSE Bogus
                 ELSE memOut

\* AxiStreamSelector
Selector(rdy) ==
    selBuf' = CASE ~selReady(rdy) -> selBuf
                [] selReady(rdy) /\ top.passTdo -> Word(mTdoValid, core.tLast, Tdo(core.tdo))
                [] selReady(rdy) /\ ~top.passTdo -> top.replyData

-----------------------------------------------------------------------------
\* The master sends the next word when it likes, but does not withdraw one; the
\* slave takes a word when it is ready.
Environment(present, rdy) ==
    LET taken == valid /\ reqReady
    IN  /\ stream' = IF taken THEN Tail(stream) ELSE stream
        /\ valid' = (stream' # <<>> /\ (present \/ (valid /\ ~taken)))
        /\ out' = IF selBuf.valid /\ rdy
                  THEN Append(out, [last |-> selBuf.last, data |-> selBuf.data]) ELSE out
        /\ UNCHANGED <<reqs, design>>

\* One clock cycle
Clock(present, rdy) ==
    /\ Top(rdy)
    /\ Core(mTdi, sTdoReady(rdy))
    /\ Ram(rdy)
    /\ Selector(rdy)
    /\ Environment(present, rdy)

Next == \E present, rdy \in BOOLEAN : Clock(present, rdy)

Spec == Init /\ [][Next]_vars

\* The master does not pause forever and the slave is not busy forever
FairSpec ==
    /\ Spec
    /\ WF_vars(\E rdy \in BOOLEAN : Clock(TRUE, rdy))
    /\ WF_vars(\E present \in BOOLEAN : Clock(present, TRUE))
===============================================================================
