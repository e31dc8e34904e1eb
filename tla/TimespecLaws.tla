---------------------------- MODULE TimespecLaws ----------------------------
(***************************************************************************)
(* The laws of the timespec arithmetic that the frame clock relies on: it  *)
(* is exact, and results are normalised whenever the operands are. The     *)
(* module draws operands; each law is an invariant of what can be drawn.   *)
(***************************************************************************)
EXTENDS Timespec

CONSTANTS Secs, Nsecs  \* the seconds and the nanoseconds that are drawn

ASSUME DrawsOK == Secs \subseteq Int /\ Nsecs \subseteq Int

VARIABLES a, b, n

NormalTimes == {t \in [sec : Secs, nsec : Nsecs] : Normal(t)}

Zero == [sec |-> 0, nsec |-> 0]

Init == a = Zero /\ b = Zero /\ n = 0

DrawA == a' \in NormalTimes /\ UNCHANGED <<b, n>>
DrawB == b' \in NormalTimes /\ UNCHANGED <<a, n>>
DrawN == n' \in Nsecs /\ UNCHANGED <<a, b>>

Draw == DrawA \/ DrawB \/ DrawN

Spec == Init /\ [][Draw]_<<a, b, n>>

TypeOK == Normal(a) /\ Normal(b) /\ n \in Int

\* Adding nanoseconds, negative ones too, gives the normalised time that is
\* exactly so much later (time.hpp:61-73).
AddExact ==
  LET r == timespec_add_nsec(a, n) IN
    Normal(r) /\ timespec_to_nsec(r) = timespec_to_nsec(a) + n

\* The difference of two times is exact whatever their order, and normalised
\* (time.hpp:43-52, 105-110: "to_nanoseconds(a - b)").
SubExact ==
  /\ Normal(timespec_sub(a, b))
  /\ timespec_sub_to_nsec(a, b) = timespec_to_nsec(a) - timespec_to_nsec(b)

\* Milliseconds are rounded down, for negative times too (time.hpp:117:
\* "Rounding to integer milliseconds happens always down (floor())").
MsecFloor ==
  (NSEC_PER_SEC % NSEC_PER_MSEC = 0) =>
    timespec_to_msec(a) = timespec_to_nsec(a) \div NSEC_PER_MSEC
=============================================================================
