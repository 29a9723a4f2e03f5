-------------------------------- MODULE XvcNet --------------------------------
(***************************************************************************)
(* The datagram transport between the UDP driver and the firmware: one     *)
(* FIFO of requests, one FIFO of replies (the network and the receive      *)
(* queue of the driver's socket together).  The transport itself is not    *)
(* part of the repository; what it may do to the datagrams is the constant *)
(* Faults, and every fault spends one unit of the budget MaxFaults.        *)
(*                                                                         *)
(*   "lose"    the next datagram of a queue vanishes                       *)
(*   "dup"     the next datagram of a queue is delivered twice             *)
(*   "swap"    two neighbouring datagrams overtake each other              *)
(*   "late"    a reply still under way misses the driver's poll timeout    *)
(*   "syserr"  a socket call of the driver fails (SysErr)                  *)
(*   "kill"    the server process is terminated                            *)
(*                                                                         *)
(* Losing only the head of a queue is as general as losing any element:    *)
(* nobody can tell a loss from a loss that happens just before delivery.   *)
(***************************************************************************)
EXTENDS Naturals, Sequences

CONSTANTS Faults, MaxFaults

FaultKinds == {"lose", "dup", "swap", "late", "syserr", "kill"}

ASSUME FaultsAssumption == Faults \subseteq FaultKinds /\ MaxFaults \in Nat

VARIABLES
    req,     \* requests under way to the firmware
    rep,     \* replies under way to, or queued at, the driver's socket
    faults,  \* faults so far
    epoch    \* the driver's current socket; each process opens a new one

netVars == <<req, rep, faults, epoch>>

NetInit == req = <<>> /\ rep = <<>> /\ faults = 0 /\ epoch = 0

Fault(kind) ==
    /\ kind \in Faults
    /\ faults < MaxFaults
    /\ faults' = faults + 1

\* The firmware answers the socket the request came from; a reply to a socket
\* that is closed by now is dropped by the receiving host.
Reply(m, r) == rep' = IF m.epoch = epoch THEN Append(rep, r) ELSE rep

LoseReq ==
    /\ req # <<>>
    /\ Fault("lose")
    /\ req' = Tail(req)
    /\ UNCHANGED <<rep, epoch>>

LoseRep ==
    /\ rep # <<>>
    /\ Fault("lose")
    /\ rep' = Tail(rep)
    /\ UNCHANGED <<req, epoch>>

DupReq ==
    /\ req # <<>>
    /\ Fault("dup")
    /\ req' = <<Head(req)>> \o req
    /\ UNCHANGED <<rep, epoch>>

DupRep ==
    /\ rep # <<>>
    /\ Fault("dup")
    /\ rep' = <<Head(rep)>> \o rep
    /\ UNCHANGED <<req, epoch>>

SwapReq ==
    /\ Fault("swap")
    /\ \E i \in 1..(Len(req) - 1) :
          req' = [req EXCEPT ![i] = req[i + 1], ![i + 1] = req[i]]
    /\ UNCHANGED <<rep, epoch>>

SwapRep ==
    /\ Fault("swap")
    /\ \E i \in 1..(Len(rep) - 1) :
          rep' = [rep EXCEPT ![i] = rep[i + 1], ![i + 1] = rep[i]]
    /\ UNCHANGED <<req, epoch>>

NetFault == LoseReq \/ LoseRep \/ DupReq \/ DupRep \/ SwapReq \/ SwapRep
===============================================================================
