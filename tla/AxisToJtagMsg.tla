---------------------------- MODULE AxisToJtagMsg ----------------------------
(***************************************************************************)
(* The AxisToJtag firmware core, one request message at a time: what the   *)
(* state machine P_COMB of AxisToJtag.vhd does between two visits to       *)
(* IDLE_S when the request stream is complete.                             *)
(*                                                                         *)
(* The vectors of a request are represented by the number of the           *)
(* sendVectors call that made it (its id), and a TDO response by the       *)
(* number of the shift that produced it.                                   *)
(***************************************************************************)
EXTENDS XvcHeader, XvcNet

CONSTANTS
    MemDepth,  \* MEM_DEPTH_G
    Period     \* TCK_BITS_C, the period byte of a query reply

ASSUME FirmwareAssumption ==
    /\ MemDepth \in Nat
    /\ Period \in 0..XidMax

VARIABLES
    fwXid,     \* r.xid
    memValid,  \* r.memValid
    mem,       \* the stored response: which shift, how many words (widx)
    tap        \* ids of the shifts driven on JTAG, in order

fwVars == <<fwXid, memValid, mem, tap>>

FwInit ==
    /\ fwXid = 0
    /\ memValid = FALSE
    /\ mem = [id |-> 0, words |-> 0]
    /\ tap = <<>>

\* A mutant of xidIsNew: every shift is driven on JTAG
xidAlwaysNew(h) == TRUE

xidIsNew(h) == MemDepth = 0 \/ ~memValid \/ getXid(h) # fwXid

\* The bits of a word, rounded up to a power of two as log2 of StdRtlPkg does
AlignedBits == IF WordSize <= 4 THEN 32 ELSE IF WordSize <= 8 THEN 64 ELSE 128

\* The words are counted as if they had that many bits.  When WordSize is not a
\* power of two a response may be longer than the memory, which AxisToJtag deals
\* with; no driver asks for one.
checkLen(h) == MemDepth > 0 => (getLen(h) + AlignedBits - 1) \div AlignedBits <= MemDepth

HeaderOnly(h) == [hdr |-> h, id |-> 0, words |-> 0]

\* A header followed by TDO words
TdoReply(h, response) == [hdr |-> h, id |-> response.id, words |-> response.words]

\* A mutant of FwQuery: the stored response stays valid across a query
FwQueryKeepsMem ==
    /\ req # <<>>
    /\ Head(req).hdr.cmd = CMD_Q
    /\ Reply(Head(req), HeaderOnly(setQueryData(Head(req).hdr, WordSize, MemDepth, Period)))
    /\ req' = Tail(req)
    /\ UNCHANGED <<fwVars, faults, epoch>>

\* CMD_QUERY_C: parameters go out; "assume a new connection"
FwQuery ==
    /\ req # <<>>
    /\ Head(req).hdr.cmd = CMD_Q
    /\ Reply(Head(req), HeaderOnly(setQueryData(Head(req).hdr, WordSize, MemDepth, Period)))
    /\ memValid' = FALSE
    /\ req' = Tail(req)
    /\ UNCHANGED <<fwXid, mem, tap, faults, epoch>>

\* CMD_TRANS_C of a length the memory cannot hold
FwTruncated ==
    /\ req # <<>>
    /\ Head(req).hdr.cmd = CMD_S
    /\ ~checkLen(Head(req).hdr)
    /\ Reply(Head(req), HeaderOnly(setErr(Head(req).hdr, ERR_TRUNCATED)))
    /\ req' = Tail(req)
    /\ UNCHANGED <<fwVars, faults, epoch>>

\* A mutant of FwExecute: the stored response is not marked valid
FwExecuteForgets ==
    /\ req # <<>>
    /\ LET m == Head(req)
           response == [id |-> m.id, words |-> NumWords(m.hdr)]
       IN  /\ m.hdr.cmd = CMD_S
           /\ checkLen(m.hdr)
           /\ xidIsNew(m.hdr)
           /\ tap' = Append(tap, m.id)
           /\ fwXid' = getXid(m.hdr)
           /\ mem' = response
           /\ UNCHANGED memValid
           /\ Reply(m, TdoReply(m.hdr, response))
    /\ req' = Tail(req)
    /\ UNCHANGED <<faults, epoch>>

\* CMD_TRANS_C with a new transaction id: drive JTAG, store and send TDO
FwExecute ==
    /\ req # <<>>
    /\ LET m == Head(req)
           response == [id |-> m.id, words |-> NumWords(m.hdr)]
       IN  /\ m.hdr.cmd = CMD_S
           /\ checkLen(m.hdr)
           /\ xidIsNew(m.hdr)
           /\ tap' = Append(tap, m.id)
           /\ fwXid' = getXid(m.hdr)
           /\ mem' = response
           /\ memValid' = (MemDepth > 0)
           /\ Reply(m, TdoReply(m.hdr, response))
    /\ req' = Tail(req)
    /\ UNCHANGED <<faults, epoch>>

\* CMD_TRANS_C with the id of the last one: play the stored response back
\* behind the header of this request
FwReplay ==
    /\ req # <<>>
    /\ LET m == Head(req)
       IN  /\ m.hdr.cmd = CMD_S
           /\ checkLen(m.hdr)
           /\ ~xidIsNew(m.hdr)
           /\ Reply(m, TdoReply(m.hdr, mem))
    /\ req' = Tail(req)
    /\ UNCHANGED <<fwVars, faults, epoch>>

Firmware == FwQuery \/ FwTruncated \/ FwExecute \/ FwReplay
===============================================================================
