------------------------------ MODULE Timespec ------------------------------
(***************************************************************************)
(* The arithmetic of src/src/kms/time.hpp on struct timespec, as far as    *)
(* the program uses it. How many nanoseconds a second and a millisecond    *)
(* have are parameters, so that TLC can check the laws on short seconds.   *)
(* 64-bit overflow is left out: tv_sec comes from CLOCK_MONOTONIC or from  *)
(* an unsigned 32-bit event field, and 2^32 seconds are below 2^63 ns. Of  *)
(* the times a member that was never set may hold, this leaves out those   *)
(* whose nanoseconds do not fit.                                           *)
(***************************************************************************)
EXTENDS Integers

CONSTANTS NSEC_PER_SEC, NSEC_PER_MSEC

ASSUME UnitsOK == NSEC_PER_SEC \in Nat \ {0} /\ NSEC_PER_MSEC \in Nat \ {0}

\* The division of C rounds towards zero, and a = b * (a / b) + a % b.
DivC(a, b) == IF a >= 0 THEN a \div b ELSE -((-a) \div b)
ModC(a, b) == a - b * DivC(a, b)

Times == [sec : Int, nsec : Int]

\* The nanoseconds are less than a second.
Normal(t) == t \in Times /\ 0 <= t.nsec /\ t.nsec < NSEC_PER_SEC

\* What timespec_sub does to negative nanoseconds.
Borrow(t) ==
  IF t.nsec < 0 THEN [sec |-> t.sec - 1, nsec |-> t.nsec + NSEC_PER_SEC] ELSE t

timespec_sub(a, b) == Borrow([sec |-> a.sec - b.sec, nsec |-> a.nsec - b.nsec])

\* Mutant: no carry.
Normalize_not(t) == t

\* What timespec_add_nsec does to nanoseconds that are out of range.
Normalize(t) ==
  IF t.nsec >= NSEC_PER_SEC
  THEN [sec |-> t.sec + 1, nsec |-> t.nsec - NSEC_PER_SEC]
  ELSE Borrow(t)

timespec_add_nsec(a, n) ==
  Normalize([sec  |-> a.sec + DivC(n, NSEC_PER_SEC),
             nsec |-> a.nsec + ModC(n, NSEC_PER_SEC)])

timespec_add_msec(a, m) == timespec_add_nsec(a, m * NSEC_PER_MSEC)

timespec_to_nsec(a) == a.sec * NSEC_PER_SEC + a.nsec

\* Mutant: only the seconds are subtracted.
timespec_sub_to_nsec_sec(a, b) == timespec_to_nsec([a EXCEPT !.sec = a.sec - b.sec])

timespec_sub_to_nsec(a, b) == timespec_to_nsec(timespec_sub(a, b))

\* nanoseconds / milliseconds in time.hpp is 1000000
timespec_sub_to_msec(a, b) == DivC(timespec_sub_to_nsec(a, b), NSEC_PER_MSEC)

\* Mutant: the division of the whole time, which C rounds towards zero.
timespec_to_msec_total(a) == DivC(timespec_to_nsec(a), NSEC_PER_MSEC)

timespec_to_msec(a) ==
  a.sec * DivC(NSEC_PER_SEC, NSEC_PER_MSEC) + DivC(a.nsec, NSEC_PER_MSEC)

timespec_from_nsec(n) == [sec |-> DivC(n, NSEC_PER_SEC), nsec |-> ModC(n, NSEC_PER_SEC)]
=============================================================================
