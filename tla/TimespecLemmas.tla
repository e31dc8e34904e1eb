--------------------------- MODULE TimespecLemmas ---------------------------
(***************************************************************************)
(* What the operations on timespecs return, for every length of a second.  *)
(***************************************************************************)
EXTENDS Timespec, TLAPS

\* The remainder of C is smaller than the divisor, with the sign of the dividend.
LEMMA ModCRange ==
  ASSUME NEW x \in Int, NEW m \in Nat \ {0}
  PROVE  DivC(x, m) \in Int /\ ModC(x, m) \in Int /\ -m < ModC(x, m) /\ ModC(x, m) < m
<1>1. \A y \in Nat : y \div m \in Int /\ m * (y \div m) <= y /\ y < m * (y \div m) + m
  OBVIOUS
<1>2. CASE x >= 0
  BY <1>1, <1>2 DEF DivC, ModC
<1>3. CASE x < 0
  <2> DEFINE q == (-x) \div m
  <2>1. q \in Int /\ m * q <= -x /\ -x < m * q + m
    BY <1>1, <1>3
  <2>2. DivC(x, m) = -q /\ ModC(x, m) = x - m * (-q)
    BY <1>3 DEF DivC, ModC
  <2>3. m * (-q) = -(m * q) /\ m * q \in Int
    BY <2>1
  <2> HIDE DEF q
  <2> QED
    BY <2>1, <2>2, <2>3
<1> QED
  BY <1>2, <1>3

\* Borrowing and carrying a second leave the time what it is, in range or not,
\* and normalise nanoseconds that are out of range by less than a second.
LEMMA BorrowExact ==
  ASSUME NEW t \in Times
  PROVE  /\ Borrow(t) \in Times
         /\ timespec_to_nsec(Borrow(t)) = timespec_to_nsec(t)
         /\ -NSEC_PER_SEC <= t.nsec /\ t.nsec < NSEC_PER_SEC => Normal(Borrow(t))
<1> USE UnitsOK
<1>1. t.sec \in Int /\ t.nsec \in Int
  BY DEF Times
<1>2. /\ (t.sec - 1) * NSEC_PER_SEC = t.sec * NSEC_PER_SEC - NSEC_PER_SEC
      /\ t.sec * NSEC_PER_SEC \in Int
  BY <1>1
<1>3. CASE t.nsec < 0
  <2>1. Borrow(t) = [sec |-> t.sec - 1, nsec |-> t.nsec + NSEC_PER_SEC]
    BY <1>3 DEF Borrow
  <2> QED
    BY <1>1, <1>2, <1>3, <2>1 DEF Normal, Times, timespec_to_nsec
<1>4. CASE ~(t.nsec < 0)
  BY <1>1, <1>4 DEF Borrow, Normal
<1> QED
  BY <1>3, <1>4

LEMMA NormalizeExact ==
  ASSUME NEW t \in Times
  PROVE  /\ Normalize(t) \in Times
         /\ timespec_to_nsec(Normalize(t)) = timespec_to_nsec(t)
         /\ -NSEC_PER_SEC <= t.nsec /\ t.nsec < 2 * NSEC_PER_SEC => Normal(Normalize(t))
<1> USE UnitsOK
<1>1. t.sec \in Int /\ t.nsec \in Int
  BY DEF Times
<1>2. /\ (t.sec + 1) * NSEC_PER_SEC = t.sec * NSEC_PER_SEC + NSEC_PER_SEC
      /\ t.sec * NSEC_PER_SEC \in Int
  BY <1>1
<1>3. CASE t.nsec >= NSEC_PER_SEC
  <2>1. Normalize(t) = [sec |-> t.sec + 1, nsec |-> t.nsec - NSEC_PER_SEC]
    BY <1>3 DEF Normalize
  <2> QED
    BY <1>1, <1>2, <1>3, <2>1 DEF Normal, Times, timespec_to_nsec
<1>4. CASE ~(t.nsec >= NSEC_PER_SEC)
  <2>1. Normalize(t) = Borrow(t) /\ t.nsec < NSEC_PER_SEC
    BY <1>1, <1>4 DEF Normalize
  <2> QED
    BY <2>1, BorrowExact
<1> QED
  BY <1>3, <1>4

LEMMA AddIsExact ==
  ASSUME NEW x \in Times, NEW m \in Int
  PROVE  /\ timespec_add_nsec(x, m) \in Times
         /\ timespec_to_nsec(timespec_add_nsec(x, m)) = timespec_to_nsec(x) + m
         /\ Normal(x) => Normal(timespec_add_nsec(x, m))
<1> USE UnitsOK
<1> DEFINE q == DivC(m, NSEC_PER_SEC)
           r == ModC(m, NSEC_PER_SEC)
           t == [sec |-> x.sec + q, nsec |-> x.nsec + r]
<1>1. x.sec \in Int /\ x.nsec \in Int
  BY DEF Times
<1>2. q \in Int /\ r \in Int /\ -NSEC_PER_SEC < r /\ r < NSEC_PER_SEC
  BY ModCRange
<1>3. NSEC_PER_SEC * q + r = m
  <2>1. r = m - NSEC_PER_SEC * q
    BY DEF ModC
  <2> HIDE DEF q, r
  <2>2. NSEC_PER_SEC * q \in Int
    BY <1>2
  <2> DEFINE p == NSEC_PER_SEC * q
  <2>3. p \in Int /\ r = m - p /\ m \in Int
    BY <2>1, <2>2
  <2> HIDE DEF p
  <2>4. p + r = m
    BY <2>3
  <2> QED
    BY <2>4 DEF p
<1>4. timespec_add_nsec(x, m) = Normalize(t)
  BY DEF timespec_add_nsec
<1> HIDE DEF q, r
<1>5. /\ t \in Times
      /\ Normal(x) => -NSEC_PER_SEC <= t.nsec /\ t.nsec < 2 * NSEC_PER_SEC
  BY <1>1, <1>2 DEF Times, Normal
<1>6. timespec_to_nsec(t) = timespec_to_nsec(x) + m
  <2> DEFINE p == NSEC_PER_SEC * q
             s == x.sec * NSEC_PER_SEC
  <2>1. (x.sec + q) * NSEC_PER_SEC = s + p
    BY <1>1, <1>2
  <2>2. s \in Int /\ p \in Int /\ p + r = m
    BY <1>1, <1>2, <1>3
  <2>3. timespec_to_nsec(t) = (x.sec + q) * NSEC_PER_SEC + (x.nsec + r)
    BY DEF timespec_to_nsec
  <2>4. timespec_to_nsec(x) = s + x.nsec
    BY DEF timespec_to_nsec
  <2> HIDE DEF p, s, t
  <2> QED
    BY <1>1, <1>2, <2>1, <2>2, <2>3, <2>4
<1> HIDE DEF t
<1> QED
  BY <1>4, <1>5, <1>6, NormalizeExact

LEMMA SubIsExact ==
  ASSUME NEW x \in Times, NEW y \in Times
  PROVE  /\ timespec_sub_to_nsec(x, y) = timespec_to_nsec(x) - timespec_to_nsec(y)
         /\ Normal(x) /\ Normal(y) => Normal(timespec_sub(x, y))
<1> USE UnitsOK
<1> DEFINE t == [sec |-> x.sec - y.sec, nsec |-> x.nsec - y.nsec]
<1>1. x.sec \in Int /\ x.nsec \in Int /\ y.sec \in Int /\ y.nsec \in Int
  BY DEF Times
<1>2. /\ t \in Times
      /\ Normal(x) /\ Normal(y) => -NSEC_PER_SEC <= t.nsec /\ t.nsec < NSEC_PER_SEC
  BY <1>1 DEF Times, Normal
<1>3. timespec_to_nsec(t) = timespec_to_nsec(x) - timespec_to_nsec(y)
  <2>1. (x.sec - y.sec) * NSEC_PER_SEC = x.sec * NSEC_PER_SEC - y.sec * NSEC_PER_SEC
    BY <1>1
  <2>2. x.sec * NSEC_PER_SEC \in Int /\ y.sec * NSEC_PER_SEC \in Int
    BY <1>1
  <2> QED
    BY <1>1, <2>1, <2>2 DEF timespec_to_nsec
<1>4. timespec_sub(x, y) = Borrow(t)
  BY DEF timespec_sub
<1> HIDE DEF t
<1> QED
  BY <1>2, <1>3, <1>4, BorrowExact DEF timespec_sub_to_nsec

\* The kernel hands out times that are normalised and not negative.
LEMMA FromNsecExact ==
  ASSUME NEW m \in Nat
  PROVE  /\ Normal(timespec_from_nsec(m))
         /\ timespec_to_nsec(timespec_from_nsec(m)) = m
<1> USE UnitsOK
<1> DEFINE q == m \div NSEC_PER_SEC
           p == NSEC_PER_SEC * q
<1>1. q \in Int /\ p <= m /\ m < p + NSEC_PER_SEC /\ p \in Int
  OBVIOUS
<1>2. timespec_from_nsec(m) = [sec |-> q, nsec |-> m - p]
  BY DEF timespec_from_nsec, DivC, ModC
<1>3. q * NSEC_PER_SEC = p
  BY <1>1
<1> HIDE DEF p, q
<1>4. m - p \in Int /\ 0 <= m - p /\ m - p < NSEC_PER_SEC /\ p + (m - p) = m
  BY <1>1
<1>5. Normal(timespec_from_nsec(m))
  BY <1>1, <1>2, <1>4 DEF Normal, Times
<1> QED
  BY <1>2, <1>3, <1>4, <1>5 DEF timespec_to_nsec

\* A quotient and a remainder in range are the ones of the division.
LEMMA DivModUnique ==
  ASSUME NEW m \in Nat \ {0}, NEW k \in Int, NEW r \in Int, 0 <= r, r < m
  PROVE  (m * k + r) \div m = k /\ (m * k + r) % m = r
<1> DEFINE y == m * k + r
           q == y \div m
           e == y % m
<1>1. y \in Int /\ q \in Int /\ e \in Int /\ 0 <= e /\ e < m /\ y = m * q + e
  OBVIOUS
<1> HIDE DEF q, e
<1>2. m * k + r = m * q + e /\ m * k \in Int /\ m * q \in Int
  BY <1>1
<1>3. ~(k > q)
  <2> SUFFICES ASSUME k >= q + 1 PROVE FALSE
    BY <1>1
  <2>1. m * k >= m * (q + 1) /\ m * (q + 1) = m * q + m
    BY <1>1
  <2> QED
    BY <1>1, <1>2, <2>1
<1>4. ~(k < q)
  <2> SUFFICES ASSUME q >= k + 1 PROVE FALSE
    BY <1>1
  <2>1. m * q >= m * (k + 1) /\ m * (k + 1) = m * k + m
    BY <1>1
  <2> QED
    BY <1>1, <1>2, <2>1
<1>5. k = q
  BY <1>1, <1>3, <1>4
<1>6. r = e
  BY <1>1, <1>2, <1>5
<1> QED
  BY <1>5, <1>6 DEF q, e

\* A difference of k and a whole number of rounds is k, modulo the round.
LEMMA ModRounds ==
  ASSUME NEW m \in Nat \ {0}, NEW k \in Int, NEW q \in Int
  PROVE  (k + m * q) % m = k % m
<1> DEFINE b == k \div m
           e == k % m
<1>1. b \in Int /\ e \in Int /\ 0 <= e /\ e < m /\ k = m * b + e
  OBVIOUS
<1> HIDE DEF b, e
<1>2. m * (b + q) = m * b + m * q /\ m * b \in Int /\ m * q \in Int
  BY <1>1
<1>3. k + m * q = m * (b + q) + e
  BY <1>1, <1>2
<1>4. (m * (b + q) + e) % m = e
  BY <1>1, DivModUnique
<1> QED
  BY <1>3, <1>4 DEF e
=============================================================================
