------------------------------- MODULE XvcConn -------------------------------
(***************************************************************************)
(* The XVC server: XvcServer::run accepts one client at a time and         *)
(* XvcConn::run (xvcConn.cc) serves it until the connection breaks.        *)
(*                                                                         *)
(* TCP is a stream: a read may return any part of what was sent, a client  *)
(* may send requests without waiting for answers, and it may disappear in  *)
(* the middle of a request.  A byte of the stream is named by the request  *)
(* it belongs to and its offset there, so that the model can tell which    *)
(* bytes the server takes for a command, for TMS and for TDI.              *)
(*                                                                         *)
(* The driver below is abstract: each of its calls returns, or throws.     *)
(***************************************************************************)
EXTENDS Naturals, Sequences, SequencesExt

CONSTANTS
    MaxVecLen,    \* maxVecLen_, server option -M (octets)
    Overhead,     \* overhead of allocBufs (128)
    TagLen,       \* octets that tell the commands apart (2)
    GetInfoLen,   \* octets of "getinfo:" (8)
    SetTckLen,    \* octets of "settck:" and the period (11)
    ShiftHdrLen,  \* octets of "shift:" and the bit count (10)
    InfoLen,      \* octets of the answer to getinfo
    PeriodLen,    \* octets of the answer to settck (4)
    Wrap,         \* 2^32, the range of the bit count
    PeriodNs,     \* the driver's TCK period, 0 if unknown
    SupVecLens,   \* vector sizes that target and driver may support
    Once,         \* server option -o
    Requests,     \* what clients may ask for: [kind, arg]
    MaxRequests, MaxClients, MaxErrors  \* bounds

ASSUME ConnAssumption ==
    /\ MaxVecLen \in Nat /\ Overhead \in Nat /\ Wrap \in Nat \ {0}
    /\ TagLen \in Nat \ {0} /\ PeriodNs \in Nat
    /\ GetInfoLen \in TagLen..Overhead
    /\ SetTckLen \in TagLen..Overhead
    /\ ShiftHdrLen \in TagLen..Overhead
    /\ InfoLen \in 0..Overhead /\ PeriodLen \in 0..Overhead
    /\ SupVecLens \subseteq 1..MaxVecLen
    /\ Once \in BOOLEAN
    /\ Requests \subseteq [kind : {"getinfo", "settck", "shift", "other"}, arg : 0..(Wrap - 1)]
    /\ MaxRequests \in Nat /\ MaxClients \in Nat /\ MaxErrors \in Nat

VARIABLES
    \* the clients
    pending,    \* connections waiting in the listen queue
    nClients,   \* clients so far
    isOpen,     \* the client served has not closed its end
    sent,       \* its requests so far
    wire,       \* its bytes not yet read
    answer,     \* the bytes it was sent
    \* XvcConn
    pc,         \* "accept"; "top" of the loop; "tag", "getinfo", "settck",
                \* "shift", "vectors": in fill(); "chunks"; "flush"; "exit"
    rxb, rp, rl,          \* rxb_, offset of rp_, rl_
    txb, tl, tp,          \* txb_, tl_, offset of flush()'s p
    supVecLen,
    bits, bitsLeft, off,  \* locals of the shift command
    \* the driver
    driven,     \* the sendVectors calls for this client: [first, n, msg]
    errors      \* exceptions thrown so far

clientVars == <<pending, nClients, isOpen, sent, wire>>
bufVars == <<rxb, rp, rl>>
txVars == <<txb, tl, tp>>
shiftVars == <<bits, bitsLeft, off>>
vars == <<clientVars, answer, pc, bufVars, txVars, supVecLen, shiftVars, driven, errors>>

NoByte == [msg |-> 0, off |-> 0]
chunk == 2 * MaxVecLen + Overhead
RxSize == 2 * chunk
TxSize == MaxVecLen + Overhead
NoRx == [i \in 0..(RxSize - 1) |-> NoByte]
NoTx == [i \in 0..(TxSize - 1) |-> <<>>]

\* The octets that hold n bits, in the 32-bit arithmetic of XvcConn::run
BytesOf(n) == ((n + 7) % Wrap) \div 8

MessageLen(m) ==
    CASE m.kind = "getinfo" -> GetInfoLen
      [] m.kind = "settck"  -> SetTckLen
      [] m.kind = "shift"   -> ShiftHdrLen + 2 * BytesOf(m.arg)
      [] m.kind = "other"   -> TagLen

MessageBytes(n, m) == [k \in 1..MessageLen(m) |-> [msg |-> n, off |-> k - 1]]

Init ==
    /\ pending = 0 /\ nClients = 0
    /\ isOpen = FALSE /\ sent = <<>> /\ wire = <<>> /\ answer = <<>>
    /\ pc = "accept"
    /\ rxb = NoRx /\ rp = 0 /\ rl = 0
    /\ txb = NoTx /\ tl = 0 /\ tp = 0
    /\ supVecLen = 0
    /\ bits = 0 /\ bitsLeft = 0 /\ off = 0
    /\ driven = <<>> /\ errors = 0

-----------------------------------------------------------------------------
(* Clients *)

ClientConnects ==
    /\ nClients < MaxClients
    /\ nClients' = nClients + 1
    /\ pending' = pending + 1
    /\ UNCHANGED <<isOpen, sent, wire, answer, pc, bufVars, txVars, supVecLen, shiftVars, driven, errors>>

ClientSends(m) ==
    /\ isOpen
    /\ Len(sent) < MaxRequests
    /\ sent' = Append(sent, m)
    /\ wire' = wire \o MessageBytes(Len(sent) + 1, m)
    /\ UNCHANGED <<pending, nClients, isOpen, answer, pc, bufVars, txVars, supVecLen, shiftVars, driven, errors>>

\* The client goes away; the last part of what it sent may never arrive.
ClientCloses ==
    /\ isOpen
    /\ isOpen' = FALSE
    /\ \E k \in 0..Len(wire) : wire' = SubSeq(wire, 1, k)
    /\ UNCHANGED <<pending, nClients, sent, answer, pc, bufVars, txVars, supVecLen, shiftVars, driven, errors>>

-----------------------------------------------------------------------------
(* XvcServer::run *)

\* SysErr leaves XvcConn::run: the destructor closes the socket and run() goes
\* on to the next client unless it is to serve only one.
CloseConnection ==
    /\ pc' = IF Once THEN "exit" ELSE "accept"
    /\ isOpen' = FALSE
    /\ wire' = <<>>

\* A driver call or system call throws.  SysErr ends the connection, TimeoutErr
\* and ProtoErr end the process.
Throws ==
    /\ errors < MaxErrors
    /\ errors' = errors + 1
    /\ \/ CloseConnection
       \/ pc' = "exit" /\ UNCHANGED <<isOpen, wire>>

\* XvcConn::XvcConn and allocBufs, whose query() tells what is supported
Accept ==
    /\ pc = "accept"
    /\ pending > 0
    /\ pending' = pending - 1
    /\ sent' = <<>> /\ answer' = <<>> /\ driven' = <<>>
    /\ rxb' = NoRx /\ rp' = 0 /\ rl' = 0
    /\ txb' = NoTx /\ tl' = 0 /\ tp' = 0
    /\ supVecLen' \in SupVecLens
    /\ \/ pc' = "top" /\ isOpen' = TRUE /\ wire' = <<>> /\ UNCHANGED errors
       \/ Throws
    /\ UNCHANGED <<nClients, shiftVars>>

-----------------------------------------------------------------------------
(* XvcConn::read, fill and bump *)

\* How far the code at pc wants the buffer filled
Need ==
    CASE pc = "tag" -> TagLen
      [] pc = "getinfo" -> GetInfoLen
      [] pc = "settck" -> SetTckLen
      [] pc = "shift" -> ShiftHdrLen
      [] pc = "vectors" -> 2 * BytesOf(bits)
      [] OTHER -> 0

Filling == pc \in {"tag", "getinfo", "settck", "shift", "vectors"} /\ rl < Need
Filled(where) == pc = where /\ rl >= Need

Store(b, at, s) ==
    [i \in DOMAIN b |-> IF at <= i /\ i < at + Len(s) THEN s[i - at + 1] ELSE b[i]]

\* A mutant of RejectPending: the connection is not accepted
RejectNone == UNCHANGED pending
\* select() reports the listening socket as well: another client is accepted
\* and its connection closed at once.
RejectPending == pending' = IF pending > 0 THEN pending - 1 ELSE 0

\* The client is quiet while another one knocks
RejectWhileWaiting ==
    /\ pc = "top" \/ Filling
    /\ wire = <<>> /\ isOpen
    /\ pending > 0
    /\ RejectPending
    /\ UNCHANGED <<nClients, isOpen, sent, wire, answer, pc, bufVars, txVars, supVecLen, shiftVars, driven, errors>>

\* A read of at most max octets behind the n octets in the buffer
ReadSome(n, max) ==
    \E got \in 1..max :
        /\ got <= Len(wire)
        /\ rxb' = Store(rxb, rp + n, SubSeq(wire, 1, got))
        /\ rl' = n + got
        /\ wire' = SubSeq(wire, got + 1, Len(wire))
        /\ RejectPending
        /\ UNCHANGED <<rp, nClients, isOpen, sent, answer, txVars, supVecLen, shiftVars, driven, errors>>

\* Top of the outer loop
ReadTop == pc = "top" /\ ReadSome(0, chunk) /\ pc' = "tag"

Fill == Filling /\ ReadSome(rl, Need - rl) /\ UNCHANGED pc

\* read() returns 0: SysErr
ReadEnd ==
    /\ pc = "top" \/ Filling
    /\ wire = <<>> /\ ~isOpen
    /\ CloseConnection
    /\ RejectPending
    /\ UNCHANGED <<nClients, sent, answer, bufVars, txVars, supVecLen, shiftVars, driven, errors>>

\* A mutant of bump: rp_ is not reset when the buffer is empty
bumpKeepsRp(n) == rl' = rl - n /\ rp' = rp + n
bump(n) ==
    /\ rl' = rl - n
    /\ rp' = IF rl - n = 0 THEN 0 ELSE rp + n

-----------------------------------------------------------------------------
(* XvcConn::run: the commands *)

\* The command whose first octets are at rp_
Tag ==
    LET first == rxb[rp]
        isTag == /\ first.msg > 0
                 /\ \A k \in 0..(TagLen - 1) : rxb[rp + k] = [msg |-> first.msg, off |-> k]
    IN  IF isTag THEN sent[first.msg].kind ELSE "other"

\* The argument that the octets of a command carry
Arg == sent[rxb[rp].msg].arg

Dispatch ==
    /\ Filled("tag")
    /\ pc' = IF Tag = "other" THEN "exit" ELSE Tag
    /\ UNCHANGED <<clientVars, answer, bufVars, txVars, supVecLen, shiftVars, driven, errors>>

\* The answer s goes to txb_
Put(s) == txb' = Store(txb, 0, s) /\ tl' = Len(s) /\ tp' = 0

InfoAnswer == [k \in 1..InfoLen |-> <<"info", k>>]

\* setPeriodNs: a driver that does not know its period agrees to any
setPeriodNs(p) == IF p = 0 THEN PeriodNs ELSE IF PeriodNs = 0 THEN p ELSE PeriodNs
PeriodAnswer(p) == [k \in 1..PeriodLen |-> <<"period", setPeriodNs(p), k>>]

GetInfo ==
    /\ Filled("getinfo")
    /\ \/ /\ Put(InfoAnswer)
          /\ bump(GetInfoLen)
          /\ pc' = "flush"
          /\ UNCHANGED <<isOpen, wire, errors>>
       \/ Throws /\ UNCHANGED <<bufVars, txVars>>
    /\ UNCHANGED <<pending, nClients, sent, answer, rxb, supVecLen, shiftVars, driven>>

SetTck ==
    /\ Filled("settck")
    /\ Put(PeriodAnswer(Arg))
    /\ bump(SetTckLen)
    /\ pc' = "flush"
    /\ UNCHANGED <<clientVars, answer, rxb, supVecLen, shiftVars, driven, errors>>

\* The bit count is there.  A vector that is too long is a ProtoErr.
ShiftHeader ==
    /\ Filled("shift")
    /\ bits' = Arg /\ bitsLeft' = Arg /\ off' = 0
    /\ IF BytesOf(Arg) > MaxVecLen
       THEN pc' = "exit" /\ UNCHANGED <<rp, rl>>
       ELSE pc' = "vectors" /\ bump(ShiftHdrLen)
    /\ UNCHANGED <<clientVars, answer, rxb, txVars, supVecLen, driven, errors>>

ShiftVectors ==
    /\ Filled("vectors")
    /\ pc' = "chunks"
    /\ UNCHANGED <<clientVars, answer, bufVars, txVars, supVecLen, shiftVars, driven, errors>>

\* A mutant of vecLen: the whole vector at once
vecLenWhole == BytesOf(bits)
vecLen == IF BytesOf(bits) > supVecLen THEN supVecLen ELSE BytesOf(bits)

\* A mutant of bitsSent: the last chunk is as long as the others
bitsSentWhole == 8 * vecLen
bitsSent == IF bitsLeft < 8 * vecLen THEN bitsLeft ELSE 8 * vecLen

\* A mutant of Tdo: every chunk takes the first octets of TDI
TdoFirstTdi(n) == [k \in 1..BytesOf(n) |->
             <<"tdo", rxb[rp + off + k - 1], rxb[rp + BytesOf(bits) + k - 1]>>]
\* The TDO octets that sendVectors makes of n bits: each is the answer to the
\* octets of TMS and TDI that it was given
Tdo(n) == [k \in 1..BytesOf(n) |->
             <<"tdo", rxb[rp + off + k - 1], rxb[rp + BytesOf(bits) + off + k - 1]>>]

\* One turn of the loop over the chunks
ShiftChunk ==
    /\ pc = "chunks"
    /\ bitsLeft > 0
    /\ \/ /\ txb' = Store(txb, off, Tdo(bitsSent))
          /\ driven' = Append(driven, [msg |-> rxb[rp].msg, first |-> 8 * off, n |-> bitsSent])
          /\ bitsLeft' = bitsLeft - bitsSent
          /\ off' = off + vecLen
          /\ UNCHANGED <<pc, isOpen, wire, errors>>
       \/ Throws /\ UNCHANGED <<txb, driven, bitsLeft, off>>
    /\ UNCHANGED <<pending, nClients, sent, answer, bufVars, tl, tp, supVecLen, bits>>

ShiftDone ==
    /\ pc = "chunks"
    /\ bitsLeft = 0
    /\ tl' = BytesOf(bits) /\ tp' = 0
    /\ bump(2 * BytesOf(bits))
    /\ pc' = "flush"
    /\ UNCHANGED <<clientVars, answer, rxb, txb, supVecLen, shiftVars, driven, errors>>

\* One write of flush(): any part of what is left goes out, as soon as the client
\* has read enough.  As long as it does not, write() blocks: Spec does not say that
\* this step is ever taken.  With a client that is gone it may still succeed.
FlushSome ==
    /\ pc = "flush"
    /\ tl > 0
    /\ \E put \in 1..tl :
          /\ answer' = answer \o [k \in 1..put |-> txb[tp + k - 1]]
          /\ tl' = tl - put
          /\ tp' = tp + put
    /\ UNCHANGED <<clientVars, pc, bufVars, txb, supVecLen, shiftVars, driven, errors>>

\* The client is gone: write() fails, which is a SysErr, or it comes with SIGPIPE,
\* which nobody handles, and the process ends.
FlushFails ==
    /\ pc = "flush"
    /\ tl > 0
    /\ ~isOpen
    /\ \/ CloseConnection
       \/ pc' = "exit" /\ UNCHANGED <<isOpen, wire>>
    /\ UNCHANGED <<pending, nClients, sent, answer, bufVars, txVars, supVecLen, shiftVars, driven, errors>>

\* A mutant of FlushDone: requests in the buffer wait for the next read
FlushDoneReads ==
    /\ pc = "flush"
    /\ tl = 0
    /\ pc' = "top"
    /\ UNCHANGED <<clientVars, answer, bufVars, txVars, supVecLen, shiftVars, driven, errors>>
\* Requests that are in the buffer already are served before the next read
FlushDone ==
    /\ pc = "flush"
    /\ tl = 0
    /\ pc' = IF rl > 0 THEN "tag" ELSE "top"
    /\ UNCHANGED <<clientVars, answer, bufVars, txVars, supVecLen, shiftVars, driven, errors>>

Server ==
    \/ Accept \/ RejectWhileWaiting \/ ReadTop \/ Fill \/ ReadEnd \/ Dispatch
    \/ GetInfo \/ SetTck \/ ShiftHeader \/ ShiftVectors \/ ShiftChunk \/ ShiftDone
    \/ FlushFails \/ FlushDone

Next ==
    \/ Server
    \/ FlushSome
    \/ ClientConnects
    \/ \E m \in Requests : ClientSends(m)
    \/ ClientCloses

Spec == Init /\ [][Next]_vars

\* The server's thread runs, where it does not wait for the client to read; clients
\* do what they like.
FairSpec == Spec /\ WF_vars(Server)

-----------------------------------------------------------------------------
Bytes == [msg : Nat, off : Nat]

TypeOK ==
    /\ pending \in 0..MaxClients /\ nClients \in 0..MaxClients
    /\ isOpen \in BOOLEAN
    /\ sent \in Seq(Requests)
    /\ wire \in Seq(Bytes)
    /\ pc \in {"accept", "top", "tag", "getinfo", "settck", "shift", "vectors",
              "chunks", "flush", "exit"}
    /\ rxb \in [0..(RxSize - 1) -> Bytes]
    /\ DOMAIN txb = 0..(TxSize - 1)
    /\ rp \in Nat /\ rl \in Nat /\ tl \in Nat /\ tp \in Nat
    /\ supVecLen \in 0..MaxVecLen
    /\ bits \in Nat /\ bitsLeft \in Nat /\ off \in Nat
    /\ errors \in 0..MaxErrors

\* Whatever a client sends and however TCP cuts it up, nothing is read or
\* written outside rxb_ and txb_ (the sizes chosen by allocBufs, the reset of
\* rp_ in bump(), the test against maxVecLen_).
InBounds ==
    /\ pc = "top" => rp + chunk <= RxSize
    /\ Filling => rp + Need <= RxSize
    /\ pc \in {"vectors", "chunks"} => BytesOf(bits) <= TxSize
    /\ pc = "chunks" => rp + 2 * BytesOf(bits) <= RxSize
    /\ pc = "chunks" /\ bitsLeft > 0 => off + BytesOf(bitsSent) <= BytesOf(bits)
    /\ tp + tl <= TxSize

\* The answer to request n, octet by octet
AnswerTo(n, m) ==
    CASE m.kind = "getinfo" -> InfoAnswer
      [] m.kind = "settck"  -> PeriodAnswer(m.arg)
      [] m.kind = "shift"   ->
           [k \in 1..BytesOf(m.arg) |->
              <<"tdo", [msg |-> n, off |-> ShiftHdrLen + k - 1],
                       [msg |-> n, off |-> ShiftHdrLen + BytesOf(m.arg) + k - 1]>>]
      [] OTHER -> <<>>

AnswersTo(ms) == FlattenSeq([n \in 1..Len(ms) |-> AnswerTo(n, ms[n])])

\* A client that pipelines its requests gets the answers in order, complete,
\* and every TDO octet is the answer to the TMS and TDI octets of that place of
\* that request (framing by fill() and bump(), the chunks' offsets).
AnswersMatch == IsPrefix(answer, AnswersTo(sent))

\* The bits of the shift requests are driven once each and in order, in chunks
\* that target and driver support (the loop over the chunks).
EachBitOnce ==
    \A i \in 1..Len(driven) :
        LET c == driven[i]
            follows(p) == \/ p.msg = c.msg /\ c.first = p.first + p.n
                          \/ p.msg < c.msg /\ c.first = 0 /\ p.first + p.n = sent[p.msg].arg
        IN  /\ c.n \in 1..(8 * supVecLen)
            /\ c.first + c.n <= sent[c.msg].arg
            /\ IF i = 1 THEN c.first = 0 ELSE follows(driven[i - 1])

\* write() waits for a client that keeps its connection but does not read
Blocked == pc = "flush" /\ tl > 0 /\ isOpen

\* Every request is answered, unless the connection is closed, the process ends, or
\* the client does not take its answers: no cut of the stream leaves the server
\* waiting for octets that it has.
Answered ==
    \/ <>[]Blocked
    \/ \A n \in 1..MaxRequests :
         isOpen /\ Len(sent) >= n
             ~> \/ Len(sent) >= n /\ Len(answer) >= Len(AnswersTo(SubSeq(sent, 1, n)))
                \/ ~isOpen \/ pc = "exit"

\* A client that connects while another one is served is turned away or becomes the
\* next one: the only way to leave it hanging is to be served, to keep the connection
\* and never to read the answer, since read() alone looks at the listening socket and
\* flush() does not time out.
ClientsHandled == <>[]Blocked \/ (pending > 0 ~> pending = 0 \/ pc = "exit")
===============================================================================
