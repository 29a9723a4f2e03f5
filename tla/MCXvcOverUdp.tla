----------------------------- MODULE MCXvcOverUdp -----------------------------
(***************************************************************************)
(* The instances of XvcOverUdp that TLC checks; the constants are in the   *)
(* .cfg files.                                                             *)
(***************************************************************************)
EXTENDS XvcOverUdp

\* The first entries of the scale for a reference of 200 MHz
PeriodTable == [x \in 0..XidMax |-> <<5, 5, 5, 6>>[x + 1]]
===============================================================================
