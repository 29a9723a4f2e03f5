------------------------------- MODULE JtagOnce -------------------------------
(***************************************************************************)
(* What README.md promises of a target with memory, without messages: the  *)
(* vectors of every sendVectors call are driven on JTAG at most once, in   *)
(* the order of the calls, and a call that returns has had its own vectors *)
(* driven.  A call that fails (TimeoutErr, SysErr, the process ends) may   *)
(* have been driven or not, and may even be driven later, but never after  *)
(* the vectors of a later call.                                            *)
(***************************************************************************)
EXTENDS Naturals, Sequences

VARIABLES
    issued,   \* number of sendVectors calls so far
    jtag,     \* the calls whose vectors were driven on JTAG, in order
    returned  \* the last call that returned TDO, 0 before the first

onceVars == <<issued, jtag, returned>>

LastDriven == IF jtag = <<>> THEN 0 ELSE jtag[Len(jtag)]

OnceInit == issued = 0 /\ jtag = <<>> /\ returned = 0

Issue ==
    /\ issued' = issued + 1
    /\ UNCHANGED <<jtag, returned>>

Drive(n) ==
    /\ n > LastDriven
    /\ jtag' = Append(jtag, n)
    /\ UNCHANGED <<issued, returned>>

Return ==
    /\ LastDriven = issued
    /\ returned' = issued
    /\ UNCHANGED <<issued, jtag>>

OnceNext == Issue \/ (\E n \in 1..issued : Drive(n)) \/ Return

OnceSpec == OnceInit /\ [][OnceNext]_onceVars
===============================================================================
