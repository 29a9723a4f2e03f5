------------------------------- MODULE XvcHeader -------------------------------
(***************************************************************************)
(* The 32-bit header word that starts every message between the driver    *)
(* (JtagDriverAxisToJtag) and the firmware (AxisToJtag), kept as its three *)
(* fields: the command (bits 29:28), the byte at bits 27:20 and the low 20 *)
(* bits.  The version bits are always zero here: both ends are built from  *)
(* the same repository.                                                    *)
(*                                                                         *)
(* The same bits mean different things in different messages: bits 27:20   *)
(* are the transaction id of a shift but the TCK period of a query reply,  *)
(* and the low bits are a length or the target's parameters.  wordSize,    *)
(* memDepth and getXid do not look at the command, here and in the code.   *)
(***************************************************************************)
EXTENDS Naturals

CONSTANTS
    XidMax,   \* largest value of the 8-bit transaction id (255)
    WordSize, \* octets per word of the stream (AXIS_WIDTH_G)
    CvtTable  \* period byte -> ns: round(10^(byte/64) * 10^9 / REF_FREQ_HZ)

ASSUME ProtocolAssumption == XidMax \in Nat \ {0} /\ WordSize \in 4..16

\* The logarithmic scale of the period; the entry of byte 0 is never looked up
ASSUME CvtAssumption == CvtTable \in [0..XidMax -> Nat]

XID_ANY == 0
CMD_Q == "Q"
CMD_S == "S"
CMD_E == "E"

ERR_TRUNCATED == 3

\* 2^20: the low bits of the word
Low20 == 1048576

Header == [cmd : {CMD_Q, CMD_S, CMD_E}, xid : 0..XidMax, low : Nat]

mkQuery == [cmd |-> CMD_Q, xid |-> XID_ANY, low |-> 0]

\* len is a number of bits; the header carries len - 1
mkShift(x, len) == [cmd |-> CMD_S, xid |-> x, low |-> len - 1]

\* The firmware's answer to a query: an echo of the request with the target's
\* parameters in place of the length and of the transaction id
setQueryData(h, wordLength, depth, period) ==
    [h EXCEPT !.low = depth * 16 + (wordLength - 1), !.xid = period]

\* An error reply echoes the request's header, command and length replaced
setErr(h, e) == [h EXCEPT !.cmd = CMD_E, !.low = e]

getXid(h) == h.xid
getErr(h) == IF h.cmd = CMD_E THEN h.low % 256 ELSE 0
getLen(h) == h.low + 1

\* What query() reads out of whatever header it is given
\* A mutant of memDepth: the field is taken from the wrong bit
memDepthShift3(h) == h.low \div 8

wordSize(h) == (h.low % 16) + 1
memDepth(h) == h.low \div 16

\* The byte 0 says that the target does not know its period
UNKNOWN_PERIOD == 0
cvtPerNs(h) == IF h.xid = 0 THEN UNKNOWN_PERIOD ELSE CvtTable[h.xid]

\* The TDO words that the bits of shift h fill
NumWords(h) == (getLen(h) + 8 * WordSize - 1) \div (8 * WordSize)
===============================================================================
