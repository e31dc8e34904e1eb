-------------------------- MODULE FrameClockProofs ---------------------------
(***************************************************************************)
(* The prediction of the next vertical blank and of its frame, for every   *)
(* refresh interval, every length of the animation, every schedule and     *)
(* whatever the members of the display hold at the start.                  *)
(***************************************************************************)
EXTENDS FrameClock, TimespecLemmas

Next_nsec == timespec_to_nsec(next_frame)
Last_nsec == timespec_to_nsec(last_frame)
Deadline  == now + 4 * NSEC_PER_MSEC

\* The same frame of the animation, which C may count from below zero.
Congruent(x, y) == \E q \in Int : x = y + NUM_ANIM_FRAMES * q

\* The prediction is a whole number of refresh intervals after the last
\* completion, and the animation is as many frames after the one on the screen.
OnGrid ==
  \E k \in Nat :
    /\ Next_nsec = Last_nsec + refreshIntervalNsec * k
    /\ shown.num # INT_MAX => Congruent(frame_num, shown.num + k)

\* No earlier prediction would do: it is the last completion itself, or the one
\* before it is too soon.
NoneEarlier == Next_nsec = Last_nsec \/ Next_nsec - refreshIntervalNsec <= Deadline

\* The while loop keeps to the grid, and its exit condition makes the margin.
PredictionInv ==
  /\ pc = "repaint" => frame_num = shown.num
  /\ pc = "advance" => Last_nsec # 0
  /\ pc = "advance" \/ Predicted => OnGrid /\ NoneEarlier
  /\ Predicted => Deadline < Next_nsec
  /\ frame_num = INT_MAX => shown.num = INT_MAX

IInv == TypeOK /\ PredictionInv

LEMMA NsecIsInt ==
  ASSUME NEW x \in Times
  PROVE  timespec_to_nsec(x) \in Int
BY UnitsOK DEF Times, timespec_to_nsec

LEMMA CongruentSelf ==
  ASSUME NEW x \in Int
  PROVE  Congruent(x, x) /\ Congruent(x, x + 0)
<1>1. x = x + NUM_ANIM_FRAMES * 0 /\ x + 0 = x
  BY ClockOK
<1> QED
  BY <1>1 DEF Congruent

\* The increment and remainder of one turn of the loop go on by one frame.
LEMMA CongruentStep ==
  ASSUME NEW x \in Int, NEW y \in Int, NEW k \in Int, Congruent(x, y + k)
  PROVE  Congruent(ModC(x + 1, NUM_ANIM_FRAMES), y + (k + 1))
<1> DEFINE N == NUM_ANIM_FRAMES
           d == DivC(x + 1, N)
<1>1. N \in Nat \ {0} /\ d \in Int
  BY ClockOK, ModCRange
<1>2. ModC(x + 1, N) = (x + 1) - N * d
  BY DEF ModC
<1> HIDE DEF d
<1>3. PICK q \in Int : x = (y + k) + N * q
  BY DEF Congruent
<1>4. N * (q - d) = N * q - N * d /\ N * q \in Int /\ N * d \in Int
  BY <1>1
<1>5. ModC(x + 1, N) = (y + (k + 1)) + N * (q - d) /\ q - d \in Int
  BY <1>1, <1>2, <1>3, <1>4
<1> QED
  BY <1>5 DEF Congruent

LEMMA CongruentSum ==
  ASSUME NEW x \in Int, NEW y \in Int, NEW z \in Int, NEW k \in Int,
         Congruent(x, y + 1), Congruent(y, z + k)
  PROVE  Congruent(x, z + (k + 1))
<1> DEFINE N == NUM_ANIM_FRAMES
<1>1. N \in Nat
  BY ClockOK
<1>2. PICK q \in Int : x = (y + 1) + N * q
  BY DEF Congruent
<1>3. PICK e \in Int : y = (z + k) + N * e
  BY DEF Congruent
<1>4. N * (q + e) = N * q + N * e /\ N * q \in Int /\ N * e \in Int
  BY <1>1
<1>5. x = (z + (k + 1)) + N * (q + e) /\ q + e \in Int
  BY <1>1, <1>2, <1>3, <1>4
<1> QED
  BY <1>5 DEF Congruent

\* The difference of two frames, modulo the length of the animation.
LEMMA CongruentDifference ==
  ASSUME NEW x \in Int, NEW y \in Int, NEW k \in Int, Congruent(x, y + k)
  PROVE  (x - y) % NUM_ANIM_FRAMES = k % NUM_ANIM_FRAMES
<1> DEFINE N == NUM_ANIM_FRAMES
<1>1. N \in Nat \ {0}
  BY ClockOK
<1>2. PICK q \in Int : x = (y + k) + N * q
  BY DEF Congruent
<1>3. N * q \in Int
  BY <1>1
<1>4. x - y = k + N * q
  BY <1>2, <1>3
<1>5. (k + N * q) % N = k % N
  BY <1>1, ModRounds
<1> QED
  BY <1>4, <1>5

\* The exit condition of the loop, in nanoseconds.
LEMMA TooSoonMeans ==
  ASSUME TypeOK
  PROVE  TooSoon <=> Next_nsec <= Deadline
<1>1. now \in Nat /\ next_frame \in Times /\ 4 * NSEC_PER_MSEC \in Int /\ Deadline \in Int
  BY UnitsOK DEF TypeOK, Deadline
<1>2. /\ timespec_from_nsec(now) \in Times
      /\ timespec_to_nsec(timespec_from_nsec(now)) = now
  BY <1>1, FromNsecExact DEF Normal
<1>3. too_soon \in Times /\ timespec_to_nsec(too_soon) = Deadline
  BY <1>1, <1>2, AddIsExact DEF too_soon, timespec_add_msec, Deadline
<1>4. timespec_sub_to_nsec(too_soon, next_frame) = Deadline - Next_nsec
  BY <1>1, <1>3, SubIsExact DEF Next_nsec
<1>5. Next_nsec \in Int
  BY <1>1, NsecIsInt DEF Next_nsec
<1> QED
  BY <1>1, <1>4, <1>5 DEF TooSoon

\* The completion of a flip is a normalised time.
LEMMA CompletionNormal ==
  ASSUME NEW m \in Nat
  PROVE  Normal(Completion(m))
<1> DEFINE ts == timespec_from_nsec(m)
           u == NSEC_PER_USEC * (ts.nsec \div NSEC_PER_USEC)
<1>1. Normal(ts)
  BY FromNsecExact
<1>2. ts.nsec \in Nat /\ ts.nsec < NSEC_PER_SEC /\ ts.sec \in Int /\ ts = [sec |-> ts.sec, nsec |-> ts.nsec]
  BY <1>1 DEF Normal, Times
<1>3. Completion(m) = [sec |-> ts.sec, nsec |-> u]
  BY <1>2 DEF Completion
<1> HIDE DEF ts
<1>4. u \in Int /\ 0 <= u /\ u <= ts.nsec
  BY <1>2, ClockOK
<1> HIDE DEF u
<1> QED
  BY <1>2, <1>3, <1>4, UnitsOK DEF Normal, Times

LEMMA InitEstablishes == Init => IInv
<1> SUFFICES ASSUME Init PROVE IInv
  OBVIOUS
<1>1. PICK m \in Memory :
        /\ last_frame = m.last_frame /\ next_frame = m.next_frame /\ frame_num = m.frame_num
        /\ shown = [num |-> m.frame_num, at |-> 0] /\ first = shown
  BY DEF Init
<1>2. m.last_frame \in Times /\ m.next_frame \in Times /\ m.frame_num \in FrameNums
  BY ClockOK DEF FrameNums
<1>3. TypeOK
  BY <1>1, <1>2 DEF Init, TypeOK, Shows
<1>4. PredictionInv
  BY <1>1 DEF Init, PredictionInv, Predicted
<1> QED
  BY <1>3, <1>4 DEF IInv

LEMMA FrameIsInt ==
  ASSUME TypeOK
  PROVE  /\ frame_num \in Ints /\ shown.num \in Ints /\ first.num \in Ints
         /\ Ints \subseteq Int
<1>1. FrameNums \subseteq Ints /\ Ints \subseteq Int
  BY ClockOK DEF FrameNums, Ints
<1> QED
  BY <1>1 DEF TypeOK, Shows

\* What one turn of the loop makes of the frame.
LEMMA Counts ==
  ASSUME TypeOK, AdvanceStep
  PROVE  /\ frame_num' \in 1 - NUM_ANIM_FRAMES .. NUM_ANIM_FRAMES - 1
         /\ frame_num # INT_MAX => frame_num' = ModC(frame_num + 1, NUM_ANIM_FRAMES)
<1>1. PICK i \in Incremented : frame_num' = ModC(i, NUM_ANIM_FRAMES)
  BY DEF AdvanceStep
<1>2. frame_num \in Ints /\ Ints \subseteq Int /\ INT_MAX \in Nat /\ NUM_ANIM_FRAMES \in Nat \ {0}
  BY FrameIsInt, ClockOK
<1>3. i \in Int /\ (frame_num # INT_MAX => i = frame_num + 1)
  BY <1>2 DEF Incremented, Ints
<1>4. ModC(i, NUM_ANIM_FRAMES) \in 1 - NUM_ANIM_FRAMES .. NUM_ANIM_FRAMES - 1
  BY <1>2, <1>3, ModCRange
<1> QED
  BY <1>1, <1>3, <1>4

LEMMA TypePreserved == TypeOK /\ [Next]_vars => TypeOK'
<1> SUFFICES ASSUME TypeOK, [Next]_vars PROVE TypeOK'
  OBVIOUS
<1> USE ClockOK DEF TypeOK, worldVars
<1>1. CASE FirstRepaint
  BY <1>1 DEF FirstRepaint
<1>2. CASE Repaint
  BY <1>2 DEF Repaint
<1>3. CASE AdvanceStep
  <2>1. /\ timespec_add_nsec(next_frame, refreshIntervalNsec) \in Times
        /\ Normal(next_frame) => Normal(timespec_add_nsec(next_frame, refreshIntervalNsec))
    BY AddIsExact
  <2>2. frame_num' \in FrameNums
    BY <1>3, Counts DEF FrameNums
  <2> QED
    BY <1>3, <2>1, <2>2 DEF AdvanceStep
<1>4. CASE AdvanceDone
  BY <1>4 DEF AdvanceDone
<1>5. CASE Ready
  BY <1>5 DEF Ready
<1>6. CASE Tick
  BY <1>6 DEF Tick
<1>7. CASE Vblank
  <2>1. clock' \in Nat /\ Normal(Completion(clock')) /\ Completion(clock') \in Times
    BY <1>7, CompletionNormal DEF Vblank, Normal
  <2>2. shown' \in Shows /\ first' \in Shows
    BY <1>7, <2>1 DEF Vblank, Shows
  <2> QED
    BY <1>7, <2>1, <2>2 DEF Vblank
<1>8. CASE UNCHANGED vars
  BY <1>8 DEF vars
<1> QED
  BY <1>1, <1>2, <1>3, <1>4, <1>5, <1>6, <1>7, <1>8 DEF Next, Loop

\* Repaint puts the prediction on the grid, each turn of the loop keeps it
\* there, and nothing else touches it until the next completion.
LEMMA PredictionPreserved == IInv /\ [Next]_vars => PredictionInv'
<1> SUFFICES ASSUME IInv, [Next]_vars PROVE PredictionInv'
  OBVIOUS
<1> USE ClockOK DEF worldVars
<1>1. TypeOK /\ PredictionInv
  BY DEF IInv
<1>2. /\ Next_nsec \in Int /\ Last_nsec \in Int /\ now \in Nat
      /\ Deadline \in Int /\ refreshIntervalNsec \in Nat \ {0}
  BY <1>1, NsecIsInt, UnitsOK DEF TypeOK, Next_nsec, Last_nsec, Deadline
<1>3. frame_num \in Int /\ shown.num \in Int
  BY <1>1, FrameIsInt
<1>4. CASE FirstRepaint
  BY <1>1, <1>4 DEF FirstRepaint, PredictionInv, Predicted
<1>5. CASE Repaint
  <2>1. Next_nsec' = Last_nsec /\ Last_nsec' = Last_nsec /\ Last_nsec # 0
    BY <1>5 DEF Repaint, Next_nsec, Last_nsec
  <2>2. frame_num' = shown.num /\ shown' = shown
    BY <1>1, <1>5 DEF Repaint, PredictionInv
  <2>3. /\ Last_nsec = Last_nsec + refreshIntervalNsec * 0
        /\ Congruent(shown.num, shown.num + 0)
    BY <1>2, <1>3, CongruentSelf
  <2>4. OnGrid'
    BY <2>1, <2>2, <2>3 DEF OnGrid
  <2>5. NoneEarlier'
    BY <2>1 DEF NoneEarlier
  <2> QED
    BY <1>1, <1>5, <2>1, <2>4, <2>5 DEF Repaint, PredictionInv, Predicted
<1>6. CASE AdvanceStep
  <2>1. Next_nsec <= Deadline
    BY <1>1, <1>6, TooSoonMeans DEF AdvanceStep
  <2>2. /\ Next_nsec' = Next_nsec + refreshIntervalNsec
        /\ Last_nsec' = Last_nsec /\ Deadline' = Deadline
    BY <1>1, <1>2, <1>6, AddIsExact
       DEF AdvanceStep, TypeOK, Next_nsec, Last_nsec, Deadline
  <2>3. pc = "advance" /\ pc' = "advance" /\ shown' = shown
    BY <1>6 DEF AdvanceStep
  <2>4. PICK k \in Nat : /\ Next_nsec = Last_nsec + refreshIntervalNsec * k
                         /\ shown.num # INT_MAX => Congruent(frame_num, shown.num + k)
    BY <1>1, <2>3 DEF PredictionInv, OnGrid
  <2>5. Next_nsec' = Last_nsec + refreshIntervalNsec * (k + 1)
    <3>1. refreshIntervalNsec * (k + 1) = refreshIntervalNsec * k + refreshIntervalNsec
      BY <1>2
    <3>2. refreshIntervalNsec * k \in Int
      BY <1>2
    <3> QED
      BY <1>2, <2>2, <2>4, <3>1, <3>2
  <2>6. shown.num # INT_MAX => Congruent(frame_num', shown.num + (k + 1))
    <3> SUFFICES ASSUME shown.num # INT_MAX
                 PROVE  Congruent(ModC(frame_num + 1, NUM_ANIM_FRAMES), shown.num + (k + 1))
      BY <1>1, <1>6, Counts DEF PredictionInv
    <3> QED
      BY <1>3, <2>4, CongruentStep
  <2>7. OnGrid'
    <3> DEFINE j == k + 1
    <3>1. /\ j \in Nat /\ Next_nsec' = Last_nsec' + refreshIntervalNsec * j
          /\ shown.num' # INT_MAX => Congruent(frame_num', shown.num' + j)
      BY <2>2, <2>3, <2>5, <2>6
    <3> HIDE DEF j
    <3> QED
      BY <3>1 DEF OnGrid, Congruent
  <2>8. NoneEarlier'
    BY <1>2, <2>1, <2>2 DEF NoneEarlier
  <2>9. frame_num' # INT_MAX
    BY <1>1, <1>6, Counts
  <2> QED
    BY <1>1, <2>2, <2>3, <2>7, <2>8, <2>9 DEF PredictionInv, Predicted
<1>7. CASE AdvanceDone
  <2>1. ~(Next_nsec <= Deadline)
    BY <1>1, <1>7, TooSoonMeans DEF AdvanceDone
  <2>2. Deadline < Next_nsec
    BY <1>2, <2>1
  <2>3. /\ pc = "advance" /\ pc' = "paint" /\ UNCHANGED <<frame_num, shown>>
        /\ UNCHANGED <<Next_nsec, Last_nsec, Deadline, OnGrid, NoneEarlier>>
    BY <1>7 DEF AdvanceDone, Next_nsec, Last_nsec, Deadline, OnGrid, NoneEarlier
  <2> QED
    BY <1>1, <2>2, <2>3 DEF PredictionInv
<1>8. CASE Ready
  <2>1. /\ pc = "paint" /\ pc' = "committed" /\ UNCHANGED <<last_frame, frame_num, shown>>
        /\ UNCHANGED <<Next_nsec, Last_nsec, Deadline, OnGrid, NoneEarlier>>
    BY <1>8 DEF Ready, Next_nsec, Last_nsec, Deadline, OnGrid, NoneEarlier
  <2> QED
    BY <1>1, <2>1 DEF PredictionInv, Predicted
<1>9. CASE Vblank
  BY <1>9 DEF Vblank, PredictionInv, Predicted
<1>10. CASE Tick \/ UNCHANGED vars
  <2>1. /\ UNCHANGED <<pc, last_frame, frame_num, shown>>
        /\ UNCHANGED <<Next_nsec, Last_nsec, Deadline, OnGrid, NoneEarlier>>
    BY <1>10 DEF Tick, vars, Next_nsec, Last_nsec, Deadline, OnGrid, NoneEarlier
  <2> QED
    BY <1>1, <2>1 DEF PredictionInv, Predicted
<1> QED
  BY <1>4, <1>5, <1>6, <1>7, <1>8, <1>9, <1>10 DEF Next, Loop

LEMMA Inductive == Spec => []IInv
<1>1. IInv /\ [Next]_vars => IInv'
  BY TypePreserved, PredictionPreserved DEF IInv
<1> QED
  BY InitEstablishes, <1>1, PTL DEF Spec

\* Whatever the members of the display hold at the start, the times are
\* normalised, tv_nsec below a second, from the first completion on, and the
\* frame is the number the memory held or a remainder of the animation's length.
THEOREM TypeCorrect == Spec => []TypeOK
<1>1. IInv => TypeOK
  BY DEF IInv
<1> QED
  BY <1>1, Inductive, PTL

\* Whatever the refresh interval and however late the loop wakes up, the
\* prediction leaves more than 4 ms, is a vertical blank of the display's
\* clock, and none before it would do.
THEOREM PredictionAlwaysTight == Spec => []PredictionTight
<1>1. IInv => PredictionTight
  <2> SUFFICES ASSUME IInv, Predicted
               PROVE  /\ Deadline < Next_nsec
                      /\ Next_nsec = Last_nsec \/ Next_nsec - refreshIntervalNsec <= Deadline
                      /\ (Next_nsec - Last_nsec) % refreshIntervalNsec = 0
    BY DEF PredictionTight, Deadline, Next_nsec, Last_nsec
  <2>1. Deadline < Next_nsec /\ OnGrid /\ NoneEarlier
    BY DEF IInv, PredictionInv
  <2>2. PICK k \in Nat : Next_nsec = Last_nsec + refreshIntervalNsec * k
    BY <2>1 DEF OnGrid
  <2>3. Last_nsec \in Int /\ refreshIntervalNsec \in Nat \ {0}
    BY NsecIsInt, ClockOK DEF IInv, TypeOK, Last_nsec
  <2>4. Next_nsec - Last_nsec = refreshIntervalNsec * k + 0
    <3> DEFINE p == refreshIntervalNsec * k
    <3>1. p \in Int
      BY <2>3
    <3> HIDE DEF p
    <3>2. (Last_nsec + p) - Last_nsec = p + 0
      BY <2>3, <3>1
    <3> QED
      BY <2>2, <3>2 DEF p
  <2>5. (refreshIntervalNsec * k + 0) % refreshIntervalNsec = 0
    BY <2>3, DivModUnique
  <2> QED
    BY <2>1, <2>4, <2>5 DEF NoneEarlier
<1> QED
  BY <1>1, Inductive, PTL

\* Whatever the length of the animation and the number of frames skipped, the
\* frame that is painted is the one that belongs to the predicted time.
THEOREM FrameAlwaysOfPrediction == Spec => []FrameOfPrediction
<1>1. IInv => FrameOfPrediction
  <2> SUFFICES ASSUME IInv, Predicted, shown.num # INT_MAX
               PROVE  (frame_num - shown.num) % NUM_ANIM_FRAMES =
                        ((Next_nsec - Last_nsec) \div refreshIntervalNsec) % NUM_ANIM_FRAMES
    BY DEF FrameOfPrediction, Next_nsec, Last_nsec
  <2>1. PICK k \in Nat : /\ Next_nsec = Last_nsec + refreshIntervalNsec * k
                         /\ Congruent(frame_num, shown.num + k)
    BY DEF IInv, PredictionInv, OnGrid
  <2>2. /\ Last_nsec \in Int /\ refreshIntervalNsec \in Nat \ {0}
        /\ shown.num \in Int /\ frame_num \in Int
    BY NsecIsInt, FrameIsInt, ClockOK DEF IInv, TypeOK, Last_nsec
  <2>3. Next_nsec - Last_nsec = refreshIntervalNsec * k + 0
    <3> DEFINE p == refreshIntervalNsec * k
    <3>1. p \in Int
      BY <2>2
    <3> HIDE DEF p
    <3>2. (Last_nsec + p) - Last_nsec = p + 0
      BY <2>2, <3>1
    <3> QED
      BY <2>1, <3>2 DEF p
  <2>4. (Next_nsec - Last_nsec) \div refreshIntervalNsec = k
    BY <2>2, <2>3, DivModUnique
  <2>5. (frame_num - shown.num) % NUM_ANIM_FRAMES = k % NUM_ANIM_FRAMES
    BY <2>1, <2>2, CongruentDifference
  <2> QED
    BY <2>4, <2>5
<1> QED
  BY <1>1, Inductive, PTL
-----------------------------------------------------------------------------
(***************************************************************************)
(* The frames of a punctual program. The completion time that is kept is   *)
(* the last vertical blank's, to the microsecond, once there was one.      *)
(***************************************************************************)
CompletionOfShown ==
  first.at # 0 => /\ IsVblank(shown.at) /\ Last_nsec # 0
                  /\ shown.at - NSEC_PER_USEC < Last_nsec /\ Last_nsec <= shown.at

\* A punctual program wakes up, predicts and paints before the next vertical
\* blank, which shows its frame.
InPeriod ==
  /\ shown.at <= clock /\ clock < shown.at + Period
  /\ pc = "repaint" => clock - shown.at <= schedule.wake
  /\ pc # "repaint" => shown.at <= now /\ now - shown.at <= schedule.wake
  /\ pc \in {"advance", "paint"} => clock - now <= schedule.paint

\* Every vertical blank since the first has shown the next frame.
Steady ==
  /\ NoOverflow => shown.num # INT_MAX
  /\ \E m \in Nat : /\ shown.at = first.at + Period * m
                    /\ NoOverflow => Congruent(shown.num, first.num + m)

PunctualInv ==
  /\ CompletionOfShown
  /\ Punctual /\ first.at # 0 => InPeriod /\ Steady

\* A completion time is at most a microsecond before its vertical blank.
LEMMA CompletionClose ==
  ASSUME NEW m \in Nat
  PROVE  /\ m - NSEC_PER_USEC < timespec_to_nsec(Completion(m))
         /\ timespec_to_nsec(Completion(m)) <= m
<1> DEFINE ts == timespec_from_nsec(m)
           u == NSEC_PER_USEC * (ts.nsec \div NSEC_PER_USEC)
<1>1. Normal(ts) /\ timespec_to_nsec(ts) = m
  BY FromNsecExact
<1>2. ts.nsec \in Nat /\ ts.sec \in Int
  BY <1>1 DEF Normal, Times
<1>3. Completion(m) = [sec |-> ts.sec, nsec |-> u]
  BY <1>2 DEF Completion
<1>4. m = ts.sec * NSEC_PER_SEC + ts.nsec
  BY <1>1 DEF timespec_to_nsec
<1> HIDE DEF ts
<1>5. u \in Int /\ u <= ts.nsec /\ ts.nsec < u + NSEC_PER_USEC
  <2>1. NSEC_PER_USEC \in Nat \ {0}
    BY ClockOK
  <2>2. \A x \in Nat : \A m_ \in Nat \ {0} :
          LET v == m_ * (x \div m_) IN v \in Int /\ v <= x /\ x < v + m_
    OBVIOUS
  <2> QED
    BY <1>2, <2>1, <2>2
<1> DEFINE s == ts.sec * NSEC_PER_SEC
<1>6. s \in Int
  BY <1>2, UnitsOK
<1>7. timespec_to_nsec(Completion(m)) = s + u
  BY <1>3 DEF timespec_to_nsec
<1> HIDE DEF u, s
<1>8. m = s + ts.nsec
  BY <1>4 DEF s
<1> QED
  BY <1>2, <1>5, <1>6, <1>7, <1>8, ClockOK

\* Vertical blanks are a period apart.
LEMMA VblanksApart ==
  ASSUME NEW x \in Nat, IsVblank(x)
  PROVE  /\ IsVblank(x + Period)
         /\ \A c \in Nat : IsVblank(c) /\ x < c /\ c <= x + Period => c = x + Period
<1> USE ClockOK
<1> DEFINE a == x \div Period
<1>1. a \in Int /\ x = Period * a
  BY DEF IsVblank
<1> HIDE DEF a
<1>2. IsVblank(x + Period)
  <2>1. Period * (a + 1) + 0 = x + Period
    <3>1. Period * (a + 1) = Period * a + Period
      BY <1>1
    <3> QED
      BY <1>1, <3>1
  <2>2. (Period * (a + 1) + 0) % Period = 0
    BY <1>1, DivModUnique
  <2> QED
    BY <2>1, <2>2 DEF IsVblank
<1>3. ASSUME NEW c \in Nat, IsVblank(c), x < c, c <= x + Period
      PROVE  c = x + Period
  <2> DEFINE b == c \div Period
  <2>1. b \in Int /\ c = Period * b
    BY <1>3 DEF IsVblank
  <2> HIDE DEF b
  <2>2. Period * b > Period * a /\ Period * b <= Period * a + Period
    BY <1>1, <1>3, <2>1
  <2>3. ~(b <= a)
    <3> SUFFICES ASSUME b <= a PROVE FALSE
      OBVIOUS
    <3>1. Period * b <= Period * a
      BY <1>1, <2>1
    <3>2. Period * b \in Int /\ Period * a \in Int
      BY <1>1, <2>1
    <3> QED
      BY <2>2, <3>1, <3>2
  <2>4. ~(b >= a + 2)
    <3> SUFFICES ASSUME b >= a + 2 PROVE FALSE
      OBVIOUS
    <3>1. Period * b >= Period * (a + 2) /\ Period * (a + 2) = Period * a + 2 * Period
      BY <1>1, <2>1
    <3>2. Period * b \in Int /\ Period * a \in Int
      BY <1>1, <2>1
    <3> QED
      BY <2>2, <3>1, <3>2
  <2>5. b = a + 1
    BY <1>1, <2>1, <2>3, <2>4
  <2>6. Period * (a + 1) = Period * a + Period
    BY <1>1
  <2> QED
    BY <1>1, <2>1, <2>5, <2>6
<1> QED
  BY <1>2, <1>3

\* The prediction of a punctual program is the first refresh after the last
\* completion.
LEMMA NextRefresh ==
  ASSUME IInv, PunctualInv, Punctual, Predicted, first.at # 0
  PROVE  /\ Next_nsec = Last_nsec + refreshIntervalNsec
         /\ shown.num # INT_MAX => Congruent(frame_num, shown.num + 1)
<1> USE ClockOK, UnitsOK
<1>1. Last_nsec # 0 /\ pc # "repaint" /\ Deadline < Next_nsec /\ OnGrid /\ NoneEarlier
  BY DEF Predicted, Last_nsec, IInv, PredictionInv
<1>2. InPeriod /\ CompletionOfShown
  BY <1>1 DEF PunctualInv
<1>3. /\ Last_nsec \in Int /\ now \in Nat /\ shown.at \in Nat /\ Deadline \in Int
      /\ schedule.wake \in Nat /\ 4 * NSEC_PER_MSEC \in Nat /\ Deadline = now + 4 * NSEC_PER_MSEC
  BY NsecIsInt DEF IInv, TypeOK, Last_nsec, Deadline, Shows
<1>4. PICK k \in Nat : /\ Next_nsec = Last_nsec + refreshIntervalNsec * k
                       /\ shown.num # INT_MAX => Congruent(frame_num, shown.num + k)
  BY <1>1 DEF OnGrid
<1> DEFINE p == refreshIntervalNsec * k
<1>5. p \in Int
  OBVIOUS
<1>6. /\ shown.at <= now /\ now - shown.at <= schedule.wake
      /\ Last_nsec <= shown.at /\ shown.at - NSEC_PER_USEC < Last_nsec
      /\ schedule.wake + 4 * NSEC_PER_MSEC + NSEC_PER_USEC <= refreshIntervalNsec
  BY <1>1, <1>2 DEF InPeriod, CompletionOfShown, Punctual
<1>7. k # 0
  <2>1. k = 0 => p = 0
    OBVIOUS
  <2> HIDE DEF p
  <2>2. Next_nsec = Last_nsec + p
    BY <1>4 DEF p
  <2> QED
    BY <1>1, <1>3, <1>5, <1>6, <2>1, <2>2
<1>8. ~(k >= 2)
  <2>1. k >= 2 => p >= 2 * refreshIntervalNsec
    OBVIOUS
  <2>2. Next_nsec = Last_nsec + p
    BY <1>4
  <2>3. Next_nsec = Last_nsec \/ Next_nsec - refreshIntervalNsec <= Deadline
    BY <1>1 DEF NoneEarlier
  <2> DEFINE R == refreshIntervalNsec
             w == schedule.wake
             M == 4 * NSEC_PER_MSEC
             at == shown.at
             next == Next_nsec
             last == Last_nsec
             d == Deadline
  <2>4. /\ R \in Nat \ {0} /\ w \in Nat /\ M \in Nat /\ at \in Nat /\ last \in Int
        /\ d = now + M /\ now \in Nat
        /\ now - at <= w /\ w + M + NSEC_PER_USEC <= R /\ at - NSEC_PER_USEC < last
        /\ next = last + p /\ p \in Int /\ (k >= 2 => p >= 2 * R)
        /\ next = last \/ next - R <= d
    BY <1>3, <1>5, <1>6, <2>1, <2>2, <2>3
  <2> HIDE DEF p, R, w, M, at, next, last, d
  <2> QED
    BY <2>4
<1>9. k = 1
  BY <1>7, <1>8
<1> QED
  BY <1>4, <1>9

LEMMA PunctualInit == Init => PunctualInv
BY DEF Init, PunctualInv, CompletionOfShown

\* What a vertical blank does: the completion of the new frame, the first
\* vertical blank or, for a punctual program, the one a period later.
LEMMA VblankPunctual ==
  ASSUME IInv, PunctualInv, Vblank
  PROVE  /\ Last_nsec' # 0 /\ CompletionOfShown'
         /\ Punctual /\ first.at # 0 =>
              /\ clock' = shown.at + Period
              /\ shown.num # INT_MAX => Congruent(frame_num, shown.num + 1)
<1> USE ClockOK
<1>1. /\ clock' \in Nat /\ clock' = clock + 1 /\ IsVblank(clock') /\ clock \in Nat
      /\ shown'.at = clock' /\ Last_nsec' = timespec_to_nsec(Completion(clock'))
  BY DEF Vblank, IInv, TypeOK, Last_nsec
<1>2. clock' >= Period
  <2> DEFINE b == clock' \div Period
  <2>1. b \in Int /\ clock' = Period * b /\ clock' > 0
    BY <1>1 DEF IsVblank
  <2> HIDE DEF b
  <2>2. ~(b <= 0)
    <3> SUFFICES ASSUME b <= 0 PROVE FALSE
      OBVIOUS
    <3>1. Period * b <= 0
      BY <2>1
    <3> QED
      BY <2>1, <3>1
  <2>3. Period * b >= Period
    BY <2>1, <2>2
  <2> QED
    BY <2>1, <2>3
<1>3. /\ Last_nsec' \in Int /\ clock' - NSEC_PER_USEC < Last_nsec' /\ Last_nsec' <= clock'
  BY <1>1, CompletionClose, CompletionNormal, NsecIsInt DEF Normal
<1>4. Last_nsec' # 0
  BY <1>1, <1>2, <1>3
<1>5. CompletionOfShown'
  BY <1>1, <1>3, <1>4 DEF CompletionOfShown, IsVblank
<1>6. ASSUME Punctual, first.at # 0
      PROVE  /\ clock' = shown.at + Period
             /\ shown.num # INT_MAX => Congruent(frame_num, shown.num + 1)
  <2>1. Predicted
    BY <1>6 DEF Vblank, Predicted, Last_nsec, PunctualInv, CompletionOfShown
  <2>2. IsVblank(shown.at) /\ shown.at <= clock /\ clock < shown.at + Period
    BY <1>6 DEF PunctualInv, CompletionOfShown, InPeriod
  <2>3. shown.at \in Nat
    BY DEF IInv, TypeOK, Shows
  <2>4. shown.at < clock' /\ clock' <= shown.at + Period
    BY <1>1, <2>2, <2>3
  <2> QED
    BY <1>1, <1>6, <2>1, <2>2, <2>3, <2>4, VblanksApart, NextRefresh
<1> QED
  BY <1>4, <1>5, <1>6

LEMMA PunctualPreserved == IInv /\ PunctualInv /\ [Next]_vars => PunctualInv'
<1> SUFFICES ASSUME IInv, PunctualInv, [Next]_vars PROVE PunctualInv'
  OBVIOUS
<1> USE ClockOK DEF worldVars
<1>1. /\ clock \in Nat /\ now \in Nat /\ shown.at \in Nat /\ first.at \in Nat
      /\ schedule.wake \in Nat /\ schedule.paint \in Nat
      /\ frame_num \in Int /\ shown.num \in Int /\ first.num \in Int
      /\ pc \in {"repaint", "advance", "paint", "committed"}
  BY FrameIsInt DEF IInv, TypeOK, Shows
<1>2. CompletionOfShown
  BY DEF PunctualInv
<1>3. CASE FirstRepaint
  <2>1. first.at = 0
    BY <1>2, <1>3 DEF FirstRepaint, CompletionOfShown, Last_nsec
  <2> QED
    BY <1>3, <2>1 DEF FirstRepaint, PunctualInv, CompletionOfShown
<1>4. CASE Repaint
  <2>1. CompletionOfShown'
    BY <1>2, <1>4 DEF Repaint, CompletionOfShown, Last_nsec
  <2>2. Steady => Steady'
    BY <1>4 DEF Repaint, Steady, NoOverflow
  <2>3. InPeriod => InPeriod'
    BY <1>1, <1>4 DEF Repaint, InPeriod
  <2>4. Punctual' = Punctual /\ first' = first
    BY <1>4 DEF Repaint, Punctual
  <2> QED
    BY <2>1, <2>2, <2>3, <2>4 DEF PunctualInv
<1>5. CASE AdvanceStep \/ AdvanceDone \/ Ready
  <2>1. CompletionOfShown'
    BY <1>2, <1>5 DEF AdvanceStep, AdvanceDone, Ready, CompletionOfShown, Last_nsec
  <2>2. Steady => Steady'
    BY <1>5 DEF AdvanceStep, AdvanceDone, Ready, Steady, NoOverflow
  <2>3. InPeriod => InPeriod'
    BY <1>1, <1>5 DEF AdvanceStep, AdvanceDone, Ready, InPeriod
  <2>4. Punctual' = Punctual /\ first' = first
    BY <1>5 DEF AdvanceStep, AdvanceDone, Ready, Punctual
  <2> QED
    BY <2>1, <2>2, <2>3, <2>4 DEF PunctualInv
<1>6. CASE Tick
  <2>1. CompletionOfShown'
    BY <1>2, <1>6 DEF Tick, CompletionOfShown, Last_nsec
  <2>2. Steady => Steady'
    BY <1>6 DEF Tick, Steady, NoOverflow
  <2>3. ASSUME Punctual, first.at # 0, InPeriod PROVE InPeriod'
    <3>1. clock + 1 < shown.at + Period
      <4>1. CASE pc = "committed"
        <5>1. IsVblank(shown.at) /\ ~IsVblank(clock + 1)
          BY <1>2, <1>6, <2>3, <4>1 DEF Tick, CompletionOfShown
        <5>2. clock + 1 # shown.at + Period
          BY <1>1, <5>1, VblanksApart
        <5> QED
          BY <1>1, <2>3, <5>2 DEF InPeriod
      <4>2. CASE pc = "repaint"
        BY <1>1, <1>6, <2>3, <4>2 DEF Tick, InTime, InPeriod, Punctual
      <4>3. CASE pc \in {"advance", "paint"}
        BY <1>1, <1>6, <2>3, <4>3 DEF Tick, InTime, InPeriod, Punctual
      <4> QED
        BY <1>1, <4>1, <4>2, <4>3
    <3> QED
      BY <1>1, <1>6, <2>3, <3>1 DEF Tick, InTime, InPeriod
  <2>4. Punctual' = Punctual /\ first' = first
    BY <1>6 DEF Tick, Punctual
  <2> QED
    BY <2>1, <2>2, <2>3, <2>4 DEF PunctualInv
<1>7. CASE Vblank
  <2>1. Last_nsec' # 0 /\ CompletionOfShown'
    BY <1>7, VblankPunctual
  <2>2. /\ clock' \in Nat /\ shown' = [num |-> frame_num, at |-> clock']
        /\ pc' = "repaint" /\ schedule' = schedule /\ clock' > 0
    BY <1>1, <1>7 DEF Vblank
  <2>3. InPeriod'
    <3> DEFINE c == clock'
    <3>1. shown'.at = c /\ schedule'.wake = schedule.wake /\ clock' = c /\ pc' = "repaint"
      BY <2>2
    <3>2. c \in Nat
      BY <2>2
    <3> HIDE DEF c
    <3>3. c <= c /\ c < c + Period /\ c - c <= schedule.wake
      BY <1>1, <3>2
    <3> QED
      BY <3>1, <3>3 DEF InPeriod
  <2>4. Punctual' = Punctual
    BY <1>7 DEF Vblank, Punctual
  <2>5. ASSUME Punctual PROVE Steady'
    <3>1. CASE first.at = 0
      <4>1. first' = shown'
        BY <1>7, <3>1 DEF Vblank
      <4>2. clock' = clock' + Period * 0
        <5>1. \A x, y \in Nat : x = x + y * 0
          OBVIOUS
        <5>2. clock' \in Nat /\ Period \in Nat
          BY <2>2
        <5> QED
          BY <5>1, <5>2, Zenon
      <4>3. Congruent(frame_num, frame_num + 0)
        BY <1>1, CongruentSelf
      <4> QED
        BY <2>2, <4>1, <4>2, <4>3 DEF Steady, NoOverflow
    <3>2. CASE first.at # 0
      <4>1. Steady /\ first' = first
        BY <1>7, <2>5, <3>2 DEF PunctualInv, Vblank
      <4>2. /\ clock' = shown.at + Period
            /\ shown.num # INT_MAX => Congruent(frame_num, shown.num + 1)
        BY <1>7, <2>5, <3>2, VblankPunctual
      <4>3. PICK m \in Nat : /\ shown.at = first.at + Period * m
                             /\ NoOverflow => Congruent(shown.num, first.num + m)
        BY <4>1 DEF Steady
      <4>4. clock' = first.at + Period * (m + 1)
        <5>1. Period * (m + 1) = Period * m + Period /\ Period * m \in Int
          OBVIOUS
        <5> QED
          BY <1>1, <4>2, <4>3, <5>1
      <4>5. NoOverflow => Congruent(frame_num, first.num + (m + 1))
        <5>1. m \in Int
          OBVIOUS
        <5>2. NoOverflow => Congruent(frame_num, shown.num + 1)
          BY <4>1, <4>2 DEF Steady
        <5> QED
          BY <1>1, <4>3, <5>1, <5>2, CongruentSum, Zenon
      <4>6. NoOverflow => frame_num # INT_MAX
        BY <4>1 DEF Steady, IInv, PredictionInv
      <4> QED
        <5> DEFINE j == m + 1
        <5>1. /\ j \in Nat /\ shown'.at = first'.at + Period * j
              /\ first'.num # INT_MAX => Congruent(shown'.num, first'.num + j)
              /\ first'.num # INT_MAX => shown'.num # INT_MAX
          BY <2>2, <4>1, <4>4, <4>5, <4>6 DEF NoOverflow
        <5> HIDE DEF j
        <5> QED
          BY <5>1 DEF Steady, NoOverflow, Congruent
    <3> QED
      BY <3>1, <3>2
  <2> QED
    BY <2>1, <2>3, <2>4, <2>5 DEF PunctualInv
<1>8. CASE UNCHANGED vars
  BY <1>8 DEF vars, PunctualInv, CompletionOfShown, InPeriod, Steady, NoOverflow, Punctual, Last_nsec
<1> QED
  BY <1>3, <1>4, <1>5, <1>6, <1>7, <1>8 DEF Next, Loop

LEMMA PunctualAlways == Spec => [](IInv /\ PunctualInv)
BY Inductive, PunctualInit, PunctualPreserved, PTL DEF Spec

\* The frames of a punctual program make the vertical blank that was predicted
\* for them, for every refresh interval, drift and rounding that the tolerance
\* covers and however long the program runs.
THEOREM FramesAlwaysOnTime == Spec => FramesOnTime
<1>1. ASSUME IInv, PunctualInv, Punctual, Vblank, first.at # 0
      PROVE  ~OffPrediction
  <2> USE ClockOK
  <2> DEFINE next == Next_nsec
             last == Last_nsec
             done == Last_nsec'
             R == refreshIntervalNsec
  <2>1. Predicted
    BY <1>1 DEF Vblank, Predicted, Last_nsec, PunctualInv, CompletionOfShown
  <2>2. next = last + R
    BY <1>1, <2>1, NextRefresh
  <2>3. clock' = shown.at + Period
    BY <1>1, VblankPunctual
  <2>4. shown.at \in Nat /\ last \in Int
    BY <1>1, NsecIsInt DEF IInv, TypeOK, Shows, Last_nsec
  <2>5. shown.at - NSEC_PER_USEC < last /\ last <= shown.at
    BY <1>1 DEF PunctualInv, CompletionOfShown
  <2>6. done = timespec_to_nsec(Completion(clock')) /\ clock' \in Nat
    BY <1>1, <2>3, <2>4 DEF Vblank, Last_nsec
  <2>7. done \in Int /\ clock' - NSEC_PER_USEC < done /\ done <= clock'
    BY <2>6, CompletionClose, CompletionNormal, NsecIsInt DEF Normal
  <2>8. Distance(Period, R) + NSEC_PER_USEC <= TOLERANCE
    BY <1>1 DEF Punctual
  <2>9. OffPrediction <=> Distance(done, next) > TOLERANCE
    BY DEF OffPrediction, Last_nsec, Next_nsec
  <2> HIDE DEF next, last, done, R
  <2>10. R \in Nat \ {0}
    BY DEF R
  <2>11. done - next < Period - R + NSEC_PER_USEC /\ next - done < R - Period + NSEC_PER_USEC
    BY <2>2, <2>3, <2>4, <2>5, <2>6, <2>7, <2>10
  <2>12. ~(Distance(done, next) > TOLERANCE)
    BY <2>2, <2>4, <2>7, <2>8, <2>10, <2>11 DEF Distance
  <2> QED
    BY <2>9, <2>12
<1>2. IInv /\ PunctualInv /\ [Next]_vars =>
        [Punctual /\ Vblank /\ first.at # 0 => ~OffPrediction]_vars
  BY <1>1
<1> QED
  BY <1>2, PunctualAlways, PTL DEF Spec, FramesOnTime

\* The animation of a punctual program is linear: at every vertical blank it is
\* one frame on per period since the first, however long the program runs.
THEOREM AlwaysLinearWhenPunctual == Spec => LinearWhenPunctual
<1>1. ASSUME IInv, PunctualInv, Punctual, NoOverflow, Vblank, first.at # 0
      PROVE  InPlace
  <2> USE ClockOK
  <2>1. Steady
    BY <1>1 DEF PunctualInv
  <2>2. clock' = shown.at + Period /\ Congruent(frame_num, shown.num + 1)
    BY <1>1, <2>1, VblankPunctual DEF Steady
  <2>3. PICK m \in Nat : /\ shown.at = first.at + Period * m
                         /\ Congruent(shown.num, first.num + m)
    BY <1>1, <2>1 DEF Steady
  <2>4. /\ frame_num \in Int /\ shown.num \in Int /\ first.num \in Int
        /\ first.at \in Nat
    BY <1>1, FrameIsInt DEF IInv, TypeOK, Shows
  <2>5. (frame_num - first.num) % NUM_ANIM_FRAMES = (m + 1) % NUM_ANIM_FRAMES
    <3>1. m \in Int /\ m + 1 \in Int
      OBVIOUS
    <3>2. Congruent(frame_num, first.num + (m + 1))
      BY <2>2, <2>3, <2>4, <3>1, CongruentSum, Zenon
    <3> QED
      BY <2>4, <3>1, <3>2, CongruentDifference, Zenon
  <2>6. clock' - first.at = Period * (m + 1) + 0
    <3>1. Period * (m + 1) = Period * m + Period /\ Period * m \in Int
      OBVIOUS
    <3> QED
      BY <2>2, <2>3, <2>4, <3>1
  <2>7. (Period * (m + 1) + 0) \div Period = m + 1
    BY DivModUnique
  <2> QED
    BY <2>5, <2>6, <2>7 DEF InPlace
<1>2. IInv /\ PunctualInv /\ [Next]_vars =>
        [Punctual /\ NoOverflow /\ Vblank /\ first.at # 0 => InPlace]_vars
  BY <1>1
<1> QED
  BY <1>2, PunctualAlways, PTL DEF Spec, LinearWhenPunctual
=============================================================================
