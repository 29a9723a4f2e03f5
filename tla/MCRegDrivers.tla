----------------------------- MODULE MCRegDrivers -----------------------------
(***************************************************************************)
(* The instances of SendVectors and RegDrivers that TLC checks.            *)
(***************************************************************************)
EXTENDS RegDrivers

Target(w, d, v) == [wordSize |-> w, memDepth |-> d, maxVec |-> v]

\* Word sizes that are and are not a power of two, with and without memory, over
\* UDP with an MTU of 70 octets, behind FIFOs of 9 and 10 words, and a driver that
\* takes any size
ManyTargets ==
    {Target(4, 0, TmemMaxVec(9)), Target(4, 12, ZynqMaxVec(10, 4)), Target(6, 4, UdpMaxVec(70, 6)),
     Target(8, 0, 0), Target(8, 2, UdpMaxVec(70, 8))}

\* Tmem2BSCANWrapper.vhd in FIFO mode: a memory and a FIFO of 512 words
TmemTarget == {Target(4, 512, TmemMaxVec(512))}
===============================================================================
