------------------------------- MODULE MCXvcConn -------------------------------
(***************************************************************************)
(* The instances of XvcConn that TLC checks.  The lengths of the commands  *)
(* and the buffers are scaled down so that a few requests fill them.       *)
(***************************************************************************)
EXTENDS XvcConn

Request(k, a) == [kind |-> k, arg |-> a]

\* Vectors of no bits, of part of an octet, of two, and one too many for 2
ManyRequests ==
    {Request("getinfo", 0), Request("settck", 0), Request("settck", 7), Request("other", 0),
     Request("shift", 0), Request("shift", 5), Request("shift", 9), Request("shift", 17)}
===============================================================================
