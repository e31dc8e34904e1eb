---------------------------- MODULE MCFrameClock -----------------------------
(***************************************************************************)
(* FrameClock on a coarse clock: a second has 20 nanoseconds, a            *)
(* millisecond one, and a refresh of the display takes 13.                 *)
(***************************************************************************)
EXTENDS FrameClock

\* As slow as a punctual program may be, and one that wakes up two refreshes
\* late and paints for longer than the margin.
PunctualAndLate == {[wake |-> 6, paint |-> 6], [wake |-> 27, paint |-> 8]}

PaintsTooLong == {[wake |-> 6, paint |-> 9]}

Zero   == [sec |-> 0, nsec |-> 0]
Past   == [sec |-> -1, nsec |-> 23]
Future == [sec |-> 2, nsec |-> -15]

\* A heap that happens to hold zeros.
Zeroed == {[last_frame |-> Zero, next_frame |-> Zero, frame_num |-> 0]}

\* Members that were never set: a completion time in the past or in the future
\* that was never normalised, a frame that is negative or overflows.
Leftover ==
  Zeroed \union
    {[last_frame |-> Zero,   next_frame |-> Past,   frame_num |-> -7],
     [last_frame |-> Past,   next_frame |-> Future, frame_num |-> INT_MAX],
     [last_frame |-> Future, next_frame |-> Past,   frame_num |-> 7]}
=============================================================================
