------------------------------ MODULE FlipChain ------------------------------
(***************************************************************************)
(* What the repaint loop promises of the buffers of each display, without  *)
(* saying how: a buffer is written by the application while it is free,    *)
(* waits for the next vertical blank while it is queued, is scanned out    *)
(* while it is front, and is retired from the moment another buffer took   *)
(* the screen until the application has heard of it.                       *)
(*                                                                         *)
(* RepaintLoop implements this specification (RepaintLoop!Chain).          *)
(***************************************************************************)
CONSTANTS
  Displays,  \* the outputs of the adapter
  Buffers    \* the buffers each output owns

VARIABLE role  \* role[d][b]: what buffer b of display d is used for

Role == {"free", "queued", "front", "retired"}

TypeOK == role \in [Displays -> [Buffers -> Role]]

Init == role = [d \in Displays |-> [b \in Buffers |-> "free"]]

\* A new frame is drawn into a free buffer and queued for the screen. There is
\* never more than one queued frame, and none is drawn before the buffer
\* the previous flip retired has been given back.
Submit(d, b) ==
  /\ role[d][b] = "free"
  /\ \A x \in Buffers : role[d][x] \notin {"queued", "retired"}
  /\ role' = [role EXCEPT ![d][b] = "queued"]

\* The queued frame takes the screen; the one it replaces is retired.
Flip(d) ==
  /\ \E b \in Buffers : role[d][b] = "queued"
  /\ role' = [role EXCEPT ![d] =
                [b \in Buffers |->
                   CASE role[d][b] = "queued" -> "front"
                     [] role[d][b] = "front"  -> "retired"
                     [] OTHER                 -> role[d][b]]]

\* The application learns of the flip and reuses the retired buffer.
Release(d) ==
  /\ \E b \in Buffers : role[d][b] = "retired"
  /\ role' = [role EXCEPT ![d] =
                [b \in Buffers |->
                   IF role[d][b] = "retired" THEN "free" ELSE role[d][b]]]

Next == \E d \in Displays : (\E b \in Buffers : Submit(d, b)) \/ Flip(d) \/ Release(d)

Spec == Init /\ [][Next]_role
=============================================================================
