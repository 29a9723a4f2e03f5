---------------------------- MODULE JtagSerDesCore ----------------------------
(***************************************************************************)
(* The serialiser JtagSerDesCore.vhd, clock cycle by clock cycle: it       *)
(* shifts words of TMS and TDI out and TDO in, makes TCK, and keeps TCK    *)
(* running from one word to the next when it can.  The record sd is the    *)
(* register r of the architecture (the pulses tck_pos and tck_neg, which   *)
(* repeat the edges of tck, are left out).                                 *)
(*                                                                         *)
(* A bit of TMS or TDI is named by its request and its place in the        *)
(* vectors.  The device on the JTAG pins is the history of what it was     *)
(* given at the rising edges of TCK; what it shows on TDO is the number of *)
(* the rising edge to come.                                                *)
(***************************************************************************)
EXTENDS Integers, Sequences

CONSTANT Designs  \* the generics that the design may be built with

ASSUME DesignsAssumption ==
    Designs \subseteq [WIDTH : Nat \ {0}, CLK_DIV2 : Nat \ {0}, TLAST_IGNORE : BOOLEAN, MEM_DEPTH : Nat]

VARIABLES
    design,  \* the generics of this one (they do not change)
    sd,   \* r
    jtag  \* TMS and TDI at the rising edges of TCK so far

WIDTH == design.WIDTH        \* WIDTH_G, bits of a word
CLK_DIV2 == design.CLK_DIV2  \* CLK_DIV2_G, half a TCK period in clock cycles

NoBit == <<0, 0>>
NoWord == [i \in 0..(WIDTH - 1) |-> NoBit]
NoTdo == 0

\* ( b & vec(left downto 1) ), where left is n
ShiftIn(b, vec, n) == [i \in 0..n |-> IF i = n THEN b ELSE vec[i + 1]]

SdInit ==
    /\ sd = [state |-> "IDLE_S", cnt |-> -1, div |-> 0, tms |-> NoWord, tdi |-> NoWord,
             tdo |-> [i \in 0..WIDTH |-> NoTdo], tck |-> 0, lastBit |-> FALSE,
             oValid |-> FALSE, iReady |-> TRUE]
    /\ jtag = <<>>

\* Combinatorial outputs
dataOut == [i \in 0..(WIDTH - 1) |-> sd.tdo[i]]
tdoPin == Len(jtag) + 1

\* TCK rises: the device takes the bits at the pins
Raise == jtag' = Append(jtag, <<sd.tms[0], sd.tdi[0]>>)

\* The inputs are one record: [numBits, tms, tdi, valid], and ready
SdIdle(in) ==
    /\ sd.state = "IDLE_S"
    /\ IF in.valid /\ sd.iReady
       THEN sd' = [sd EXCEPT !.oValid = FALSE, !.tms = in.tms, !.tdi = in.tdi,
                             !.iReady = FALSE, !.cnt = in.numBits, !.div = CLK_DIV2 - 1,
                             !.state = "SHIFT_S"]
       ELSE sd' = [sd EXCEPT !.oValid = FALSE]
    /\ UNCHANGED jtag

SdDivide ==
    /\ sd.state = "SHIFT_S" /\ sd.div > 0
    /\ sd' = [sd EXCEPT !.iReady = FALSE, !.oValid = FALSE, !.div = @ - 1]
    /\ UNCHANGED jtag

\* About to raise TCK in the middle of a word
SdRaise ==
    /\ sd.state = "SHIFT_S" /\ sd.div = 0 /\ sd.tck = 0 /\ ~sd.lastBit
    /\ Raise
    /\ sd' = [sd EXCEPT !.iReady = FALSE, !.oValid = FALSE,
                        !.tdo = ShiftIn(tdoPin, @, WIDTH), !.tck = 1, !.div = CLK_DIV2 - 1]

\* About to raise TCK when all bits of a word are out: its TDO is complete.
\* With more words to shift TCK goes on, provided that the receiver is ready.
SdLastBit(ready) ==
    /\ sd.state = "SHIFT_S" /\ sd.div = 0 /\ sd.tck = 0 /\ sd.lastBit
    /\ LET v == [sd EXCEPT !.iReady = FALSE, !.oValid = TRUE, !.lastBit = FALSE,
                           !.tdo = ShiftIn(tdoPin, @, WIDTH)]
       IN  CASE ready /\ sd.cnt >= 0 -> Raise /\ sd' = [v EXCEPT !.tck = 1, !.div = CLK_DIV2 - 1]
             [] ready /\ sd.cnt < 0  -> sd' = [v EXCEPT !.iReady = TRUE, !.state = "IDLE_S"]
                                        /\ UNCHANGED jtag
             [] ~ready               -> sd' = [v EXCEPT !.state = "WAI_S"] /\ UNCHANGED jtag

\* TCK falls: the next bit, or the next word if there is one, goes to the pins
SdFall(in) ==
    /\ sd.state = "SHIFT_S" /\ sd.div = 0 /\ sd.tck = 1
    /\ LET v == [sd EXCEPT !.iReady = FALSE, !.oValid = FALSE,
                           !.tms = ShiftIn(NoBit, @, WIDTH - 1),
                           !.tdi = ShiftIn(NoBit, @, WIDTH - 1),
                           !.cnt = @ - 1, !.tck = 0, !.div = CLK_DIV2 - 1,
                           !.lastBit = @ \/ sd.cnt = 0]
       IN  sd' = IF sd.cnt = 0 /\ in.valid
                 THEN [v EXCEPT !.tms = in.tms, !.tdi = in.tdi, !.cnt = in.numBits,
                                !.iReady = TRUE]
                 ELSE v
    /\ UNCHANGED jtag

\* The receiver was not ready for the TDO word
SdWait(ready) ==
    /\ sd.state = "WAI_S"
    /\ CASE ready /\ sd.cnt >= 0 ->
              Raise /\ sd' = [sd EXCEPT !.oValid = FALSE, !.tck = 1, !.div = CLK_DIV2 - 1,
                                        !.state = "SHIFT_S"]
         [] ready /\ sd.cnt < 0 ->
              sd' = [sd EXCEPT !.oValid = FALSE, !.iReady = TRUE, !.state = "IDLE_S"]
              /\ UNCHANGED jtag
         [] ~ready -> UNCHANGED <<sd, jtag>>

SerDes(in, ready) ==
    SdIdle(in) \/ SdDivide \/ SdRaise \/ SdLastBit(ready) \/ SdFall(in) \/ SdWait(ready)
===============================================================================
