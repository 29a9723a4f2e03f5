------------------------------ MODULE SendVectors ------------------------------
(***************************************************************************)
(* How JtagDriverAxisToJtag::sendVectors (xvcSrv.cc) lays the TMS and TDI  *)
(* vectors out in its transmit buffer: a header word, then a word of TMS   *)
(* and a word of TDI in turn.  The vectors are at most as long as          *)
(* XvcConn::allocBufs allows; the buffer is as long as query() makes it.   *)
(*                                                                         *)
(* That is not enough for every limit, and nothing checks it: see Overrun. *)
(*                                                                         *)
(* An octet of the buffer is the call that wrote it and where it is from.  *)
(* What becomes of the message is up to the driver below (RegDrivers).     *)
(***************************************************************************)
EXTENDS Naturals, Sequences, FiniteSetsExt

CONSTANTS
    BufSz,      \* octets that the constructor reserves for txBuf_ (2048)
    MaxVecLen,  \* server option -M
    Targets,    \* what there may be behind a stream: [wordSize, memDepth, maxVec],
                \* maxVec being the driver's getMaxVectorSize(), 0 for any size
    Bits,       \* bit counts that sendVectors is called with
    MaxCalls    \* bound on the calls

ASSUME SendVectorsAssumption ==
    /\ BufSz \in Nat \ {0} /\ MaxVecLen \in Nat \ {0} /\ MaxCalls \in Nat
    /\ Targets \subseteq [wordSize : 4..16, memDepth : Nat, maxVec : Nat]
    /\ \A t \in Targets : BufSz >= t.wordSize
    /\ Bits \subseteq Nat \ {0}

VARIABLES
    pc,                  \* "down", "idle", "copy", "xfer", "undefined"
    wordSize, memDepth,  \* wordSize_, memDepth_
    maxVec, supVecLen,   \* getMaxVectorSize(); supVecLen_ of the connection
    bufSz, txBuf,        \* bufSz_, and the octets at txBuf_: those reserved, and any
                         \* that were written behind them
    nCalls, bits,        \* calls so far, and the bits of this one
    idx, wp,             \* locals; wp as an offset into txBuf_
    message              \* what the last call of this connection gave to xfer()

parVars == <<wordSize, memDepth, maxVec, supVecLen>>
sendVars == <<pc, parVars, bufSz, txBuf, nCalls, bits, idx, wp, message>>

Octet(c, what, k) == [call |-> c, what |-> what, k |-> k]
Unset == Octet(0, "unset", 0)
Reserved == [i \in 0..(BufSz - 1) |-> Unset]

SendInit ==
    /\ pc = "down"
    /\ wordSize = 4 /\ memDepth = 1
    /\ maxVec = 0 /\ supVecLen = 0
    /\ bufSz = BufSz /\ txBuf = Reserved
    /\ nCalls = 0 /\ bits = 0 /\ idx = 0 /\ wp = 0
    /\ message = <<>>

\* The constructor, in a new process
Construct ==
    /\ pc = "down"
    /\ pc' = "idle"
    /\ wordSize' = 4 /\ memDepth' = 1
    /\ maxVec' = 0 /\ supVecLen' = 0
    /\ bufSz' = BufSz /\ txBuf' = Reserved
    /\ message' = <<>>
    /\ UNCHANGED <<nCalls, bits, idx, wp>>

-----------------------------------------------------------------------------
(* The limits that the drivers compute from what lies below them *)

\* JtagDriverUdp: "MTU lim; 2*vector size + header must fit!"
UdpMaxVec(mtu, wsz) == (mtu - wsz) \div 2

\* JtagDriverTmemFifo: "one header word; two vectors must fit" a FIFO of so many words
TmemMaxVec(maxWords) == ((maxWords - 1) * 4) \div 2

\* JtagDriverZynqFifo: the same, but a slot of the FIFO stays empty
ZynqMaxVec(sizWords, wsz) == ((sizWords - 2) * wsz) \div 2

\* query(): a header word and two vectors that fill the target's memory
MessageSize(t) == (2 * t.memDepth + 1) * t.wordSize

\* allocBufs(): the smaller of what the target and the driver support, 0 standing for
\* a target that can stream and for a driver that takes any size
SupVecLen(t) ==
    LET tgtVecLen == IF t.memDepth = 0 THEN MaxVecLen ELSE t.memDepth * t.wordSize
    IN  IF t.maxVec = 0 THEN tgtVecLen ELSE Min({t.maxVec, tgtVecLen})

\* A client connects: allocBufs() queries the target, which may reserve more for
\* txBuf_.  The vector's size is 0, so nothing of what it had is kept.
Connect(t) ==
    /\ pc = "idle"
    /\ wordSize' = t.wordSize /\ memDepth' = t.memDepth
    /\ maxVec' = t.maxVec
    /\ supVecLen' = SupVecLen(t)
    /\ IF MessageSize(t) > bufSz
       THEN bufSz' = MessageSize(t) /\ txBuf' = [i \in 0..(bufSz' - 1) |-> Unset]
       ELSE UNCHANGED <<bufSz, txBuf>>
    /\ message' = <<>>
    /\ UNCHANGED <<pc, nCalls, bits, idx, wp>>

-----------------------------------------------------------------------------
bytesCeil == (bits + 7) \div 8
wholeWordBytes == (bytesCeil \div wordSize) * wordSize
bytesLeft == bytesCeil - wholeWordBytes
wordCeilBytes == ((bytesCeil + wordSize - 1) \div wordSize) * wordSize
bytesTot == wordSize + 2 * wordCeilBytes

\* memcpy of n octets of a vector, from idx, to offset at of b.  What goes beyond the
\* memory reserved is kept where nobody else uses that memory; see Overrun.
Copy(b, at, what, n) ==
    [i \in DOMAIN b \cup at..(at + n - 1) |->
       IF i \in at..(at + n - 1) THEN Octet(nCalls, what, idx + i - at) ELSE b[i]]

\* sendVectors starts: the header word
Begin(n) ==
    /\ pc = "idle"
    /\ n <= 8 * supVecLen
    /\ nCalls < MaxCalls
    /\ nCalls' = nCalls + 1
    /\ bits' = n
    /\ txBuf' = [i \in DOMAIN txBuf |->
                   IF i < wordSize THEN Octet(nCalls + 1, "hdr", i) ELSE txBuf[i]]
    /\ idx' = 0 /\ wp' = wordSize
    /\ pc' = "copy"
    /\ message' = <<>>
    /\ UNCHANGED <<parVars, bufSz>>

\* A mutant of CopyWord: TDI goes where the next TMS word belongs
CopyWordGap ==
    /\ pc = "copy" /\ idx < wholeWordBytes
    /\ txBuf' = Copy(Copy(txBuf, wp, "tms", wordSize), wp + 2 * wordSize, "tdi", wordSize)
    /\ wp' = wp + 2 * wordSize
    /\ idx' = idx + wordSize
    /\ UNCHANGED <<pc, parVars, bufSz, nCalls, bits, message>>

\* A pair of whole words
CopyWord ==
    /\ pc = "copy" /\ idx < wholeWordBytes
    /\ txBuf' = Copy(Copy(txBuf, wp, "tms", wordSize), wp + wordSize, "tdi", wordSize)
    /\ wp' = wp + 2 * wordSize
    /\ idx' = idx + wordSize
    /\ UNCHANGED <<pc, parVars, bufSz, nCalls, bits, message>>

\* What is left of the vectors; behind it the buffer keeps what it had.  Then the
\* message goes to xferRel.
CopyRest ==
    /\ pc = "copy" /\ idx >= wholeWordBytes
    /\ txBuf' = Copy(Copy(txBuf, wp, "tms", bytesLeft), wp + wordSize, "tdi", bytesLeft)
    /\ message' = [i \in 1..bytesTot |-> IF i - 1 \in DOMAIN txBuf' THEN txBuf'[i - 1] ELSE Unset]
    /\ pc' = "xfer"
    /\ UNCHANGED <<parVars, bufSz, nCalls, bits, idx, wp>>

\* Octets from the start of txBuf_ to the end of what the next step writes or sends
Extent == IF idx < wholeWordBytes THEN wp + 2 * wordSize ELSE bytesTot

\* The other outcome of going beyond the memory reserved: it is somebody else's.  What
\* the process does from here on is undefined.
Overrun ==
    /\ pc = "copy" /\ Extent > bufSz
    /\ pc' = "undefined"
    /\ UNCHANGED <<parVars, bufSz, txBuf, nCalls, bits, idx, wp, message>>

\* xfer() is back
Return ==
    /\ pc = "xfer"
    /\ pc' = "idle"
    /\ UNCHANGED <<parVars, bufSz, txBuf, nCalls, bits, idx, wp, message>>

Sending == (\E n \in Bits : Begin(n)) \/ CopyWord \/ CopyRest \/ Overrun

-----------------------------------------------------------------------------
\* Everything that sendVectors writes to txBuf_ and hands to xfer() lies within
\* what was reserved for it, as the limits promise: "the driver must consider" two
\* vectors and a header "when computing the max. supported vector size"
\* (xvcDriver.h), and a limit of 0 is said to "allow any" (xvcDrvLoopBack.cc).
\* query() makes room for the target's memory only, so the limits of the debug
\* bridge and of the loopback driver go beyond the buffer.
TxFits == pc = "copy" => Extent <= bufSz

\* The firmware takes word 2n-1 behind the header for TMS and word 2n for TDI,
\* and expects as many of them as the bits fill: it finds every octet of the
\* vectors there, none of them from an earlier call; in a message that outgrew the
\* buffer as well, if the process is still there to send it.
PairsInOrder ==
    pc = "xfer" =>
        LET word(n) == [k \in 0..(wordSize - 1) |-> message[n * wordSize + k + 1]]
            pairs == (Len(message) - wordSize) \div (2 * wordSize)
        IN  /\ Len(message) = wordSize * (1 + 2 * pairs)
            /\ pairs = (bits + 8 * wordSize - 1) \div (8 * wordSize)
            /\ \A j \in 0..(bytesCeil - 1) :
                 LET n == j \div wordSize
                     k == j % wordSize
                 IN  /\ word(2 * n + 1)[k] = Octet(nCalls, "tms", j)
                     /\ word(2 * n + 2)[k] = Octet(nCalls, "tdi", j)

\* The comment on xfer() in xvcDriver.h: txBytes is "guaranteed to be at most
\* 2*maxVectorSize() + getWordSize()".
MessageFits == pc = "copy" => bytesTot <= 2 * maxVec + wordSize
===============================================================================
