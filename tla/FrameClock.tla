----------------------------- MODULE FrameClock ------------------------------
(***************************************************************************)
(* The clock of one display's repaint loop: the program is told when a     *)
(* frame reached the screen (atomic_event_handler), predicts the vertical  *)
(* blank the next frame will make and advances the animation to it         *)
(* (advance_frame), paints and commits (repaint_one_output).               *)
(*                                                                         *)
(* Which buffer the frame is painted into is left to RepaintLoop. Time is  *)
(* a count of nanoseconds here, which the kernel hands out as timespecs;   *)
(* the scheduler, the painting and the display are external, with bounds   *)
(* on how long they take. Display's constructor sets none of the members   *)
(* below: they start as what the memory holds.                             *)
(***************************************************************************)
EXTENDS Timespec

CONSTANTS
  NSEC_PER_USEC,        \* completion events carry whole microseconds
  NUM_ANIM_FRAMES,      \* frames of the animation before it wraps around
  TOLERANCE,            \* FRAME_TIMING_TOLERANCE
  refreshIntervalNsec,  \* Display::refreshIntervalNsec, from the mode
  Period,               \* nanoseconds between two vertical blanks of the display
  INT_MAX,              \* the largest int
  Memory,               \* what the uninitialised members of a Display may hold
  Schedules,            \* how slow the program may be, see schedule
  Horizon               \* the time at which the model stops (bounds the clock)

Ints == -INT_MAX - 1 .. INT_MAX

ASSUME ClockOK ==
  /\ NSEC_PER_USEC \in Nat \ {0}
  /\ NUM_ANIM_FRAMES \in Nat \ {0}
  /\ TOLERANCE \in Nat
  /\ refreshIntervalNsec \in Nat \ {0}   \* millihzToNsec throws on zero
  /\ Period \in Nat \ {0}
  /\ NSEC_PER_USEC <= Period            \* events tell vertical blanks apart
  /\ Horizon \in Nat
  /\ INT_MAX \in Nat /\ NUM_ANIM_FRAMES <= INT_MAX
  /\ Memory \subseteq [last_frame : Times, next_frame : Times, frame_num : Ints]
  /\ Schedules \subseteq [wake : Nat, paint : Nat]

VARIABLES
  pc,          \* where the repaint loop of the display is
  clock,       \* CLOCK_MONOTONIC, in nanoseconds
  now,         \* what repaint_one_output read from it
  last_frame,  \* Display::last_frame
  next_frame,  \* Display::next_frame
  frame_num,   \* Display::frame_num
  shown,       \* the frame on the screen, and when it got there
  first,       \* the first frame that was shown, and when
  schedule     \* the most time from a vertical blank to the repaint it causes, and
               \* from reading the clock to a frame that is ready to show

worldVars == <<shown, first, schedule>>
vars == <<pc, clock, now, last_frame, next_frame, frame_num, worldVars>>

\* The first vertical blank is one period after the start.
IsVblank(t) == t > 0 /\ t % Period = 0

Distance(x, y) == IF x < y THEN y - x ELSE x - y

Init ==
  /\ pc = "repaint"
  /\ clock = 1 /\ now = 0
  /\ \E m \in Memory :
       /\ last_frame = m.last_frame /\ next_frame = m.next_frame
       /\ frame_num = m.frame_num
       /\ shown = [num |-> m.frame_num, at |-> 0]   \* no frame was shown yet
  /\ first = shown
  /\ schedule \in Schedules

-----------------------------------------------------------------------------
(***************************************************************************)
(* The program.                                                            *)
(***************************************************************************)

\* The 4 ms the prediction leaves for painting.
too_soon == timespec_add_msec(timespec_from_nsec(now), 4)

\* repaint_one_output reads the clock. Without a completion time to start from
\* there is no prediction, and the animation stays where it is.
FirstRepaint ==
  /\ pc = "repaint" /\ timespec_to_nsec(last_frame) = 0
  /\ now' = clock
  /\ pc' = "paint"
  /\ UNCHANGED <<clock, last_frame, next_frame, frame_num, worldVars>>

\* Mutant: the prediction goes on from the previous prediction.
Repaint_from_next ==
  /\ pc = "repaint" /\ timespec_to_nsec(last_frame) # 0
  /\ now' = clock
  /\ pc' = "advance"
  /\ UNCHANGED <<clock, last_frame, next_frame, frame_num, worldVars>>

\* advance_frame starts from the last completion.
Repaint ==
  /\ pc = "repaint" /\ timespec_to_nsec(last_frame) # 0
  /\ now' = clock
  /\ next_frame' = last_frame
  /\ pc' = "advance"
  /\ UNCHANGED <<clock, last_frame, frame_num, worldVars>>

\* Mutant: no margin.
TooSoon_unpadded == timespec_sub_to_nsec(timespec_from_nsec(now), next_frame) >= 0

\* The predicted completion leaves less than the margin.
TooSoon == timespec_sub_to_nsec(too_soon, next_frame) >= 0

\* frame_num + 1 overflows at INT_MAX, and may then be anything.
Incremented == IF frame_num < INT_MAX THEN {frame_num + 1} ELSE Ints

\* Mutants: the animation advances by one frame whatever the prediction does;
\* it wraps around one frame late; the prediction is not advanced.
AdvanceStep_once ==
  /\ pc = "advance" /\ TooSoon
  /\ next_frame' = timespec_add_nsec(next_frame, refreshIntervalNsec)
  /\ \E i \in Incremented :
       frame_num' = IF next_frame = last_frame THEN ModC(i, NUM_ANIM_FRAMES) ELSE frame_num
  /\ UNCHANGED <<pc, clock, now, last_frame, worldVars>>

AdvanceStep_wrap ==
  /\ pc = "advance" /\ TooSoon
  /\ next_frame' = timespec_add_nsec(next_frame, refreshIntervalNsec)
  /\ \E i \in Incremented : frame_num' = ModC(i, NUM_ANIM_FRAMES + 1)
  /\ UNCHANGED <<pc, clock, now, last_frame, worldVars>>

AdvanceStep_stays ==
  /\ pc = "advance" /\ TooSoon
  /\ \E i \in Incremented : frame_num' = ModC(i, NUM_ANIM_FRAMES)
  /\ UNCHANGED <<pc, clock, now, last_frame, next_frame, worldVars>>

\* One turn of the while loop: the vertical blank after that, and its frame.
AdvanceStep ==
  /\ pc = "advance" /\ TooSoon
  /\ next_frame' = timespec_add_nsec(next_frame, refreshIntervalNsec)
  /\ \E i \in Incremented : frame_num' = ModC(i, NUM_ANIM_FRAMES)
  /\ UNCHANGED <<pc, clock, now, last_frame, worldVars>>

AdvanceDone ==
  /\ pc = "advance" /\ ~TooSoon
  /\ pc' = "paint"
  /\ UNCHANGED <<clock, now, last_frame, next_frame, frame_num, worldVars>>

\* The frame is painted, committed and ready to be shown.
Ready ==
  /\ pc = "paint"
  /\ pc' = "committed"
  /\ UNCHANGED <<clock, now, last_frame, next_frame, frame_num, worldVars>>

-----------------------------------------------------------------------------
(***************************************************************************)
(* Time. A deadline that has come holds the clock: the program runs and    *)
(* its frames are ready within the times of its schedule.                  *)
(***************************************************************************)

\* The completion of a flip at time t, as the handler computes it from the
\* seconds and microseconds of the event.
Completion(t) ==
  LET ts == timespec_from_nsec(t)
  IN [sec |-> ts.sec, nsec |-> NSEC_PER_USEC * (ts.nsec \div NSEC_PER_USEC)]

InTime ==
  /\ clock < Horizon
  /\ pc = "repaint" => clock - shown.at < schedule.wake
  /\ pc \in {"advance", "paint"} => clock - now < schedule.paint

Tick ==
  /\ InTime
  /\ ~(pc = "committed" /\ IsVblank(clock + 1))
  /\ clock' = clock + 1
  /\ UNCHANGED <<pc, now, last_frame, next_frame, frame_num, worldVars>>

\* A vertical blank shows the committed frame, and atomic_event_handler asks
\* for the next repaint.
Vblank ==
  /\ pc = "committed" /\ clock < Horizon /\ IsVblank(clock + 1)
  /\ clock' = clock + 1
  /\ last_frame' = Completion(clock')
  /\ pc' = "repaint"
  /\ shown' = [num |-> frame_num, at |-> clock']
  /\ first' = IF first.at = 0 THEN shown' ELSE first
  /\ UNCHANGED <<now, next_frame, frame_num, schedule>>

-----------------------------------------------------------------------------
Loop == FirstRepaint \/ Repaint \/ AdvanceStep \/ AdvanceDone \/ Ready

Next == Loop \/ Tick \/ Vblank

Spec == Init /\ [][Next]_vars

\* The thread is scheduled.
FairSpec == Spec /\ WF_vars(Loop)
-----------------------------------------------------------------------------
(***************************************************************************)
(* Properties.                                                             *)
(***************************************************************************)
\* What the remainder of C can be, and what the memory held.
FrameNums == 1 - NUM_ANIM_FRAMES .. NUM_ANIM_FRAMES - 1 \union {m.frame_num : m \in Memory}
Shows     == [num : FrameNums, at : Nat]

\* The times are normalised once a completion was seen.
TypeOK ==
  /\ pc \in {"repaint", "advance", "paint", "committed"}
  /\ clock \in Nat /\ now \in Nat
  /\ last_frame \in Times /\ next_frame \in Times
  /\ first.at # 0 => Normal(last_frame)
  /\ first.at # 0 /\ pc = "advance" => Normal(next_frame)
  /\ frame_num \in FrameNums
  /\ shown \in Shows /\ first \in Shows
  /\ schedule \in Schedules

Predicted == pc \in {"paint", "committed"} /\ timespec_to_nsec(last_frame) # 0

\* The prediction is the first that leaves more than the 4 ms for painting,
\* counted in refreshes from the last completion (main.cpp:204-209), however
\* late the program woke up.
PredictionTight ==
  Predicted =>
    LET deadline == now + 4 * NSEC_PER_MSEC
        next == timespec_to_nsec(next_frame)
        last == timespec_to_nsec(last_frame)
    IN /\ deadline < next
       /\ next = last \/ next - refreshIntervalNsec <= deadline
       /\ (next - last) % refreshIntervalNsec = 0

\* The frame that is painted belongs to the vertical blank that is predicted:
\* the animation has moved on by as many frames as the prediction by refresh
\* intervals (main.cpp:211-212: "skip frames in the animation if necessary"),
\* from whatever number it started at, unless that one overflows.
FrameOfPrediction ==
  Predicted /\ shown.num # INT_MAX =>
    LET next == timespec_to_nsec(next_frame)
        last == timespec_to_nsec(last_frame)
    IN (frame_num - shown.num) % NUM_ANIM_FRAMES =
         ((next - last) \div refreshIntervalNsec) % NUM_ANIM_FRAMES

\* What the handler would log as EARLY or LATE.
OffPrediction ==
  Distance(timespec_to_nsec(last_frame'), timespec_to_nsec(next_frame)) > TOLERANCE

\* A program that wakes up with the margin to spare and paints before the next
\* vertical blank, on a display that keeps to the refresh interval of its mode.
Punctual ==
  /\ schedule.wake + 4 * NSEC_PER_MSEC + NSEC_PER_USEC <= refreshIntervalNsec
  /\ schedule.wake + schedule.paint < Period
  /\ Distance(Period, refreshIntervalNsec) + NSEC_PER_USEC <= TOLERANCE

\* A punctual program's frames all make the vertical blank they were predicted
\* for, from the second on: neither the microseconds of the events nor the drift
\* of the display add up (main.cpp:130-138).
FramesOnTime ==
  [][Punctual /\ Vblank /\ first.at # 0 => ~OffPrediction]_vars

\* The number the memory held could be counted on from.
NoOverflow == first.num # INT_MAX

\* The animation is where it should be at this vertical blank: one frame on per
\* refresh since the first.
InPlace ==
  (frame_num - first.num) % NUM_ANIM_FRAMES =
    ((clock' - first.at) \div Period) % NUM_ANIM_FRAMES

\* A punctual program's animation is linear over any number of frames.
LinearWhenPunctual ==
  [][Punctual /\ NoOverflow /\ Vblank /\ first.at # 0 => InPlace]_vars

\* A frame that is shown when it was predicted to be shows the animation where
\* it should be by then, whatever happened before: "aiming to achieve linear
\* animation speed: if we miss a frame, try to catch up by dropping frames"
\* (main.cpp:193-194).
LinearAnimation ==
  [][NoOverflow /\ Vblank /\ first.at # 0 /\ ~OffPrediction => InPlace]_vars

\* The while loop of advance_frame comes to an end.
AdvanceEnds == (pc = "advance") ~> (pc = "paint")
=============================================================================
