------------------------------- MODULE MCJtagTap -------------------------------
(***************************************************************************)
(* The instance of JtagTap that TLC checks: an instruction register of     *)
(* three bits and data registers of two, four instructions that are not    *)
(* decoded.  An int has four bits, so that its sign is reached.            *)
(***************************************************************************)
EXTENDS JtagTap

Two(low, high) == [i \in 0..1 |-> IF i = 0 THEN low ELSE high]
Code00 == Two(0, 0)
Code01 == Two(0, 1)
Code10 == Two(1, 0)
Three(a, b, c) == [i \in 0..2 |-> IF i = 0 THEN a ELSE IF i = 1 THEN b ELSE c]
Ir000 == Three(0, 0, 0)
Ir010 == Three(0, 1, 0)
Ir011 == Three(0, 1, 1)
Ir100 == Three(1, 0, 0)

\* What an x86 CPU does: it shifts by the count modulo the width
ModInt(b) == IF b % INT_BITS = INT_BITS - 1 THEN (INT_BITS - 1)..(WORD_BITS - 1) ELSE {b % INT_BITS}
===============================================================================
