----------------------------- MODULE MCAxisToJtag -----------------------------
(***************************************************************************)
(* The instances of AxisToJtag that TLC checks: a design with words of two *)
(* bits, a memory and no divider of the clock, and one with wider words,   *)
(* no memory and a divided clock, with short streams of requests.          *)
(***************************************************************************)
EXTENDS AxisToJtagRef

BothDesigns ==
    {[WIDTH |-> 2, CLK_DIV2 |-> 1, TLAST_IGNORE |-> FALSE, MEM_DEPTH |-> 3],
     [WIDTH |-> 4, CLK_DIV2 |-> 2, TLAST_IGNORE |-> FALSE, MEM_DEPTH |-> 0]}

\* A shift of len bits followed by so many words, or by as many of w bits as it takes
Shift(x, len, words) ==
    [version |-> "ok", cmd |-> "shift", xid |-> x, len |-> len, words |-> words]
FullShift(w, x, len) == Shift(x, len, 2 * ((len + w - 1) \div w))
Query(words) == [version |-> "ok", cmd |-> "query", xid |-> 0, len |-> 1, words |-> words]

\* Requests that are answered by a header alone
Headers(w) ==
    {Query(0), Query(3), [Query(0) EXCEPT !.version = "bad"], [Query(1) EXCEPT !.version = "bad"],
     [Query(0) EXCEPT !.cmd = "other"], [Query(2) EXCEPT !.cmd = "other"],
     Shift(1, 1, 0), FullShift(w, 1, 3 * w + 1)}

\* Shifts of one to three words, and one with more words than its bits need
Shifts(w, x) == {FullShift(w, x, len) : len \in {1, w, w + 1, 3 * w}} \cup {Shift(x, w, 5)}

\* The same id comes again, directly or after another request
RepeatStreams(w) ==
    {<<a, b, c>> : a \in Shifts(w, 1), b \in Shifts(w, 1) \cup Headers(w) \cup {FullShift(w, 2, w + 1)},
                   c \in {FullShift(w, 1, w + 1), FullShift(w, 1, 3 * w)}}

\* The stream ends with the first TMS word, or with the TDI word of a pair that is
\* not the last one
ShortStreams(w) ==
    {<<a, b, FullShift(w, 2, 2 * w)>> :
        a \in {Shift(1, 2 * w, 1), Shift(1, 2 * w, 2), Shift(1, 3 * w, 4), Shift(1, 2 * w + 1, 2)},
        b \in {FullShift(w, 1, w + 1), Shift(2, 3 * w, 4), Query(0)}}

\* Without a memory an id that comes again is an id like any other
PairStreams(w) ==
    {<<a, b>> : a \in Shifts(w, 1), b \in {FullShift(w, 1, 2 * w), Query(1), [Query(0) EXCEPT !.cmd = "other"]}}

Streams(d) == ShortStreams(d.WIDTH) \cup IF d.MEM_DEPTH > 0 THEN RepeatStreams(d.WIDTH) ELSE PairStreams(d.WIDTH)
===============================================================================
