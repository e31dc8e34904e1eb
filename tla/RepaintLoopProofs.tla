-------------------------- MODULE RepaintLoopProofs --------------------------
(***************************************************************************)
(* Theorems about RepaintLoop, for any number of displays, buffers and     *)
(* descriptors.                                                            *)
(***************************************************************************)
EXTENDS RepaintLoop, TLAPS

-----------------------------------------------------------------------------
(***************************************************************************)
(* Lemmas about the operators of the model.                                *)
(***************************************************************************)

\* A display's CRTC is one of the CRTCs.
LEMMA CrtcOfType == \A d \in Displays : CrtcOf[d] \in Crtcs
BY DEF Crtcs

\* Closing a descriptor leaves a table of fences.
LEMMA CloseType ==
  ASSUME NEW table \in [Fds -> Fence], NEW fd
  PROVE  Close(table, fd) \in [Fds -> Fence]
BY DEF Close, Fence

\* Only displays are in the request.
LEMMA RequestedType ==
  ASSUME request \in [Crtcs -> DisplayOrNone]
  PROVE  Requested \subseteq Displays
BY DEF Requested, DisplayOrNone

\* The frame of a display and one of its buffers is a frame.
LEMMA FrameType ==
  ASSUME NEW d \in Displays, NEW b \in Buffers
  PROVE  Frame(d, b) \in Frames
BY DEF Frame, Frames

\* Painting keeps the descriptor members and the table of fences well typed.
LEMMA RepaintFencesType ==
  ASSUME NEW d \in Displays, NEW b \in Buffers, RepaintFences(d, b),
         fences \in [Fds -> Fence],
         commitFenceFD \in [Displays -> FdOrNone],
         kms_fence_fd \in [Displays -> [Buffers -> FdOrNone]],
         render_fence_fd \in [Displays -> [Buffers -> FdOrNone]]
  PROVE  /\ fences' \in [Fds -> Fence]
         /\ commitFenceFD' \in [Displays -> FdOrNone]
         /\ kms_fence_fd' \in [Displays -> [Buffers -> FdOrNone]]
         /\ render_fence_fd' \in [Displays -> [Buffers -> FdOrNone]]
<1>1. CASE Fenced(d)
  <2>1. PICK newFd \in FreeFds(Close(fences, kms_fence_fd[d][b])) :
          /\ fences' = CloseCommitFence(DrawFences(d, b, newFd), d)
          /\ kms_fence_fd' = [kms_fence_fd EXCEPT ![d][b] = NoFd]
          /\ render_fence_fd' = [render_fence_fd EXCEPT ![d][b] = newFd]
    BY <1>1 DEF RepaintFences, Fenced
  <2>2. newFd \in Fds
    BY DEF FreeFds
  <2>3. DrawFences(d, b, newFd) \in [Fds -> Fence]
    <3>1. [Close(fences, kms_fence_fd[d][b]) EXCEPT ![newFd] = RenderFence] \in [Fds -> Fence]
      BY CloseType DEF Fence
    <3> QED
      BY <3>1, CloseType DEF DrawFences
  <2>4. fences' \in [Fds -> Fence]
    BY <2>1, <2>3, CloseType DEF CloseCommitFence
  <2>5. ResetCommitFence(d)
    BY <1>1 DEF RepaintFences, Fenced
  <2> QED
    BY <2>1, <2>2, <2>4, <2>5 DEF ResetCommitFence, FdOrNone
<1>2. CASE ~Fenced(d)
  BY <1>2, CloseType DEF RepaintFences, CloseCommitFence, ResetCommitFence, FdOrNone, fenceVars
<1> QED
  BY <1>1, <1>2

-----------------------------------------------------------------------------
(***************************************************************************)
(* Type correctness. A commit stores bufferPending of the displays in the  *)
(* request as their frame, so it must be a buffer by then: bufferPending   *)
(* is set in the same iteration that puts the display into the request.    *)
(***************************************************************************)
RequestHasBuffer ==
  \A c \in Crtcs :
    request[c] # NoDisplay =>
      pc \in {"scan", "aborted"} /\ bufferPending[request[c]] \in Buffers

TypeInv == TypeOK /\ RequestHasBuffer

LEMMA TypeInit == Init => TypeInv
<1> SUFFICES ASSUME Init PROVE TypeInv
  OBVIOUS
<1> USE ConstantsOK
<1>1. painted \in [Displays -> BOOLEAN]
  BY DEF Init
<1>2. bufferPending \in [Displays -> BufferPointer] /\ bufferLast \in [Displays -> BufferPointer]
  BY DEF Init, BufferPointer
<1>3. cursor \in 1 .. NumDisplays + 1
  BY DEF Init
<1>4. fences \in [Fds -> Fence] /\ request \in [Crtcs -> DisplayOrNone]
  BY DEF Init, Fence, DisplayOrNone
<1>5. /\ commitFenceFD \in [Displays -> FdOrNone]
      /\ kms_fence_fd \in [Displays -> [Buffers -> FdOrNone]]
      /\ render_fence_fd \in [Displays -> [Buffers -> FdOrNone]]
  BY DEF Init, FdOrNone
<1>6. RequestHasBuffer
  BY DEF Init, RequestHasBuffer
<1> QED
  BY <1>1, <1>2, <1>3, <1>4, <1>5, <1>6 DEF Init, TypeInv, TypeOK

LEMMA TypeStep == TypeInv /\ [Next]_vars => TypeInv'
<1> SUFFICES ASSUME TypeInv, [Next]_vars PROVE TypeInv'
  OBVIOUS
<1> USE ConstantsOK
<1> USE DEF TypeInv
<1>1. ASSUME NEW d \in Displays, SkipOutput(d) PROVE TypeInv'
  BY <1>1 DEF SkipOutput, TypeOK, RequestHasBuffer, Displays, displayVars, fenceVars,
     eventVars, kernelVars
<1>2. ASSUME NEW d \in Displays, RepaintOutput(d) PROVE TypeInv'
  <2> PICK b \in find_free_buffer(d) :
         /\ CanDraw(d, b)
         /\ RepaintFences(d, b)
         /\ rendering' = rendering \union {Frame(d, b)}
         /\ in_use' = [in_use EXCEPT ![d][b] = TRUE]
         /\ bufferPending' = [bufferPending EXCEPT ![d] = b]
    BY <1>2 DEF RepaintOutput, repaint_one_output
  <2>1. b \in Buffers
    BY DEF find_free_buffer
  <2>2. /\ fences' \in [Fds -> Fence]
        /\ commitFenceFD' \in [Displays -> FdOrNone]
        /\ kms_fence_fd' \in [Displays -> [Buffers -> FdOrNone]]
        /\ render_fence_fd' \in [Displays -> [Buffers -> FdOrNone]]
    BY <2>1, RepaintFencesType DEF TypeOK
  <2>3. rendering' \subseteq Frames
    BY <2>1, FrameType DEF TypeOK
  <2>4. /\ in_use' \in [Displays -> [Buffers -> BOOLEAN]]
        /\ bufferPending' \in [Displays -> BufferPointer]
    BY <2>1 DEF TypeOK, BufferPointer
  <2>5. /\ request' \in [Crtcs -> DisplayOrNone]
        /\ needs_repaint' \in [Displays -> BOOLEAN]
        /\ cursor' \in 1 .. NumDisplays + 1
        /\ pc' = "scan"
    BY <1>2, CrtcOfType DEF RepaintOutput, repaint_one_output, TypeOK, DisplayOrNone, Displays
  <2>6. RequestHasBuffer'
    BY <1>2, <2>1, CrtcOfType DEF RepaintOutput, repaint_one_output, TypeOK, RequestHasBuffer,
       DisplayOrNone
  <2> QED
    BY <1>2, <2>2, <2>3, <2>4, <2>5, <2>6 DEF RepaintOutput, repaint_one_output, TypeOK,
       eventVars, kernelVars
<1>3. ASSUME Abort PROVE TypeInv'
  BY <1>3 DEF Abort, TypeOK, RequestHasBuffer, displayVars, fenceVars, eventVars, kernelVars
<1>4. ASSUME NEW d \in Displays, HandoverFence(d) PROVE TypeInv'
  <2>1. CASE Fenced(d) /\ bufferLast[d] # NoBuffer
    <3>1. ReplaceKmsFence(d) /\ ResetCommitFence(d)
      BY <1>4, <2>1 DEF HandoverFence
    <3>2. fences' \in [Fds -> Fence]
      BY <3>1, CloseType DEF ReplaceKmsFence, TypeOK
    <3>3. commitFenceFD' \in [Displays -> FdOrNone]
      BY <3>1 DEF ResetCommitFence, TypeOK, FdOrNone
    <3>4. kms_fence_fd' \in [Displays -> [Buffers -> FdOrNone]]
      <4>1. commitFenceFD[d] \in FdOrNone /\ kms_fence_fd \in [Displays -> [Buffers -> FdOrNone]]
        BY DEF TypeOK
      <4>2. \/ kms_fence_fd' = kms_fence_fd
            \/ /\ bufferLast[d] \in Buffers
               /\ kms_fence_fd' = [kms_fence_fd EXCEPT ![d][bufferLast[d]] = commitFenceFD[d]]
        BY <3>1 DEF ReplaceKmsFence
      <4>3. ASSUME NEW b \in Buffers
            PROVE  [kms_fence_fd EXCEPT ![d][b] = commitFenceFD[d]]
                     \in [Displays -> [Buffers -> FdOrNone]]
        BY <4>1
      <4> QED
        BY <4>1, <4>2, <4>3
    <3> QED
      BY <1>4, <3>2, <3>3, <3>4 DEF HandoverFence, TypeOK, RequestHasBuffer, Displays, displayVars,
         eventVars, kernelVars
  <2>2. CASE ~(Fenced(d) /\ bufferLast[d] # NoBuffer)
    <3>1. UNCHANGED <<commitFenceFD, kms_fence_fd, fences>>
      BY <1>4, <2>2 DEF HandoverFence
    <3> QED
      BY <1>4, <3>1 DEF HandoverFence, TypeOK, RequestHasBuffer, Displays, displayVars,
         eventVars, kernelVars
  <2> QED
    BY <2>1, <2>2
<1>5. CASE Commit
  <2>1. inflight' \in [Crtcs -> Frames \union {NoFrame}]
    <3> SUFFICES ASSUME NEW c \in Crtcs, request[c] # NoDisplay
                 PROVE  Frame(request[c], bufferPending[request[c]]) \in Frames
      BY <1>5 DEF Commit, TypeOK
    <3> QED
      BY FrameType DEF RequestHasBuffer, TypeOK, DisplayOrNone
  <2>2. PICK out \in Injection(WantOutFence, FreeFds(fences)) :
          /\ commitFenceFD' = [d \in Displays |->
                                 IF d \in WantOutFence THEN out[d] ELSE commitFenceFD[d]]
          /\ fences' = [f \in Fds |->
                          IF \E d \in WantOutFence : out[d] = f
                          THEN OutFence(CrtcOf[CHOOSE d \in WantOutFence : out[d] = f])
                          ELSE fences[f]]
    BY <1>5 DEF Commit
  <2>3. WantOutFence \subseteq Displays
    BY RequestedType DEF WantOutFence, TypeOK
  <2>4. out \in [WantOutFence -> Fds]
    BY DEF Injection, FreeFds
  <2>5. commitFenceFD' \in [Displays -> FdOrNone]
    BY <2>2, <2>4 DEF TypeOK, FdOrNone
  <2>6. fences' \in [Fds -> Fence]
    <3> SUFFICES ASSUME NEW f \in Fds, \E d \in WantOutFence : out[d] = f
                 PROVE  OutFence(CrtcOf[CHOOSE d \in WantOutFence : out[d] = f]) \in Fence
      BY <2>2 DEF TypeOK
    <3>1. (CHOOSE d \in WantOutFence : out[d] = f) \in Displays
      BY <2>3
    <3> QED
      BY <3>1, CrtcOfType DEF Fence
  <2>7. /\ request' \in [Crtcs -> DisplayOrNone] /\ RequestHasBuffer'
        /\ modeset' \in BOOLEAN
        /\ cursor' \in 1 .. NumDisplays + 1
    BY <1>5 DEF Commit, RequestHasBuffer, DisplayOrNone, TypeOK
  <2> QED
    BY <1>5, <2>1, <2>5, <2>6, <2>7 DEF Commit, TypeOK, displayVars, eventVars
<1>6. CASE CommitFails
  BY <1>6 DEF CommitFails, TypeOK, RequestHasBuffer, DisplayOrNone, displayVars, fenceVars,
     eventVars, kernelVars
<1>7. CASE ReadEvents
  BY <1>7 DEF ReadEvents, TypeOK, RequestHasBuffer, displayVars, fenceVars, kernelVars
<1>8. CASE PollOrReadFails
  BY <1>8 DEF PollOrReadFails, TypeOK, RequestHasBuffer, displayVars, fenceVars, eventVars,
     kernelVars
<1>9. ASSUME NEW c \in Crtcs, HandleEvent(c) PROVE TypeInv'
  <2> PICK d \in DisplayOfEvent(c) :
         /\ HandlerAssertions(d)
         /\ needs_repaint' = [needs_repaint EXCEPT ![d] = TRUE]
         /\ painted' = [painted EXCEPT ![d] = TRUE]
         /\ in_use' = [in_use EXCEPT ![d] = Released(d)]
         /\ bufferLast' = [bufferLast EXCEPT ![d] = bufferPending[d]]
         /\ bufferPending' = [bufferPending EXCEPT ![d] = NoBuffer]
    BY <1>9 DEF HandleEvent
  <2>1. d \in Displays
    BY DEF DisplayOfEvent
  <2>2. /\ needs_repaint' \in [Displays -> BOOLEAN]
        /\ painted' \in [Displays -> BOOLEAN]
        /\ bufferLast' \in [Displays -> BufferPointer]
        /\ bufferPending' \in [Displays -> BufferPointer]
    BY <2>1 DEF TypeOK, BufferPointer
  <2>3. in_use' \in [Displays -> [Buffers -> BOOLEAN]]
    BY <2>1 DEF TypeOK, Released
  <2>4. batch' \in [Crtcs -> Nat]
    BY <1>9 DEF HandleEvent, TypeOK
  <2>5. RequestHasBuffer'
    BY <1>9 DEF HandleEvent, RequestHasBuffer, loopVars
  <2> QED
    BY <1>9, <2>2, <2>3, <2>4, <2>5 DEF HandleEvent, TypeOK, loopVars, fenceVars, kernelVars
<1>10. CASE DispatchDone
  BY <1>10 DEF DispatchDone, TypeOK, RequestHasBuffer, displayVars, fenceVars, eventVars,
     kernelVars
<1>11. CASE Leave
  BY <1>11 DEF Leave, TypeOK, RequestHasBuffer, displayVars, fenceVars, eventVars, kernelVars
<1>12. ASSUME NEW c \in Crtcs, KernelFlip(c) PROVE TypeInv'
  <2>1. fences' \in [Fds -> Fence]
    BY <1>12 DEF KernelFlip, TypeOK, Fence
  <2>2. /\ screen' \in [Crtcs -> Frames \union {NoFrame}]
        /\ inflight' \in [Crtcs -> Frames \union {NoFrame}]
        /\ queued' \in [Crtcs -> Nat]
    BY <1>12 DEF KernelFlip, TypeOK
  <2> QED
    BY <1>12, <2>1, <2>2 DEF KernelFlip, TypeOK, RequestHasBuffer, loopVars, displayVars
<1>13. ASSUME NEW d \in Displays, NEW b \in Buffers, GpuDone(d, b) PROVE TypeInv'
  BY <1>13 DEF GpuDone, TypeOK, RequestHasBuffer, loopVars, displayVars, fenceVars, eventVars,
     kernelVars
<1>14. CASE UNCHANGED vars
  BY <1>14 DEF vars, TypeOK, RequestHasBuffer, loopVars, displayVars, fenceVars, eventVars,
     kernelVars
<1> QED
  BY <1>1, <1>2, <1>3, <1>4, <1>5, <1>6, <1>7, <1>8, <1>9, <1>10, <1>11, <1>12, <1>13, <1>14
  DEF Next, Program, Kernel, Gpu, RepaintAsserts, HandoverAsserts, HandlerAsserts

\* Whatever the number of displays and buffers, the state of the heap and the
\* faults of the device, every variable keeps its type: a commit carries a
\* buffer for each display in it, and no handler leaves a member undefined.
THEOREM TypeCorrect == Spec => []TypeOK
<1>1. TypeInv => TypeOK
  BY DEF TypeInv
<1> QED
  BY <1>1, TypeInit, TypeStep, PTL DEF Spec
-----------------------------------------------------------------------------
(***************************************************************************)
(* Safety: IInv is inductive when each display has a CRTC of its own.      *)
(* Every action disturbs one display at most, or moves all the displays in *)
(* the request together, and the others keep their phase.                  *)
(***************************************************************************)

\* Frames of two displays, or of two buffers, are different.
LEMMA FrameInjective ==
  \A d, b, e, x : Frame(d, b) = Frame(e, x) <=> d = e /\ b = x
BY DEF Frame

\* A frame of a display is not the absence of a frame.
LEMMA FrameNotNone == \A d \in Displays : \A b : Frame(d, b) # NoFrame
BY DEF Frame, NoFrame, Displays, NoDisplay

\* A null or a wild pointer points to no buffer.
LEMMA NotBuffers == NoBuffer \notin Buffers /\ Wild \notin Buffers /\ NoBuffer # Wild
BY DEF Buffers, NoBuffer, Wild

LEMMA SaneIsApart == SaneSetup => CrtcsApart
BY DEF SaneSetup

LEMMA SafeInit == CrtcsApart /\ Init => IInv
<1> SUFFICES ASSUME CrtcsApart, Init, NEW d \in Displays
             PROVE  PhaseInv(d) /\ BuffersInv(d) /\ RenderInv(d) /\ LoopInv(d)
  BY DEF IInv
<1>1. Idle(d)
  <2>1. bufferPending[d] \in {NoBuffer, Wild} /\ bufferLast[d] \in {NoBuffer, Wild}
    BY DEF Init
  <2> QED
    BY <2>1, CrtcOfType, NotBuffers DEF Init, Idle, Shown
<1>2. BuffersInv(d)
  <2>1. /\ bufferPending[d] \in {NoBuffer, Wild} /\ bufferLast[d] \in {NoBuffer, Wild}
        /\ HeapZeroed => bufferPending[d] = NoBuffer /\ bufferLast[d] = NoBuffer
    BY DEF Init
  <2>2. \A b \in Buffers : ~in_use[d][b]
    BY DEF Init
  <2> QED
    BY <2>1, <2>2, NotBuffers DEF BuffersInv
<1>3. RenderInv(d)
  BY DEF Init, RenderInv
<1>4. LoopInv(d)
  BY CrtcOfType, ConstantsOK DEF Init, LoopInv, Displays
<1> QED
  BY <1>1, <1>2, <1>3, <1>4 DEF PhaseInv

\* What an action must leave alone for the phase of display d to stay.
SameDisplay(d) ==
  LET c == CrtcOf[d] IN
  /\ needs_repaint'[d] = needs_repaint[d]
  /\ bufferPending'[d] = bufferPending[d]
  /\ bufferLast'[d] = bufferLast[d]
  /\ \A b \in Buffers : in_use'[d][b] = in_use[d][b]
  /\ request'[c] = request[c]
  /\ inflight'[c] = inflight[c]
  /\ queued'[c] = queued[c]
  /\ batch'[c] = batch[c]
  /\ screen'[c] = screen[c]
  /\ \A b \in Buffers : Frame(d, b) \in rendering' => Frame(d, b) \in rendering

\* A display that an action leaves alone keeps its part of the invariant.
LEMMA SameDisplayInv ==
  ASSUME NEW d \in Displays, SameDisplay(d),
         PhaseInv(d), BuffersInv(d), RenderInv(d),
         Dropped(d) => pc' \in {"restore", "exited"}
  PROVE  PhaseInv(d)' /\ BuffersInv(d)' /\ RenderInv(d)'
<1>1. PhaseInv(d)'
  BY DEF SameDisplay, PhaseInv, Idle, InRequest, Committed, Presented, Dropped, Shown
<1>2. BuffersInv(d)'
  BY DEF SameDisplay, BuffersInv
<1>3. RenderInv(d)'
  BY DEF SameDisplay, RenderInv
<1> QED
  BY <1>1, <1>2, <1>3

\* A step that moves only the program counter, the cursor or the fences leaves
\* every display alone.
LEMMA UnchangedIsSame ==
  ASSUME UNCHANGED <<request, displayVars, eventVars, kernelVars>>,
         rendering' \subseteq rendering,
         NEW d \in Displays
  PROVE  SameDisplay(d)
BY DEF SameDisplay, displayVars, eventVars, kernelVars

\* A display that waits for its turn uses one buffer at most, so what is free
\* first is one of the first two.
LEMMA FreeIsOfTwo ==
  ASSUME CrtcsApart, IInv, NEW d \in Displays, needs_repaint[d], NEW b \in find_free_buffer(d)
  PROVE  b \in {1, 2}
<1>1. Idle(d) /\ BuffersInv(d)
  BY DEF IInv, PhaseInv, InRequest, Committed, Presented, Dropped
<1>2. b \in Nat \ {0} /\ \A x \in Buffers : x < b => in_use[d][x]
  BY DEF find_free_buffer, Buffers
<1>3. ASSUME b > 2 PROVE FALSE
  <2>0. 1 \in Buffers /\ 2 \in Buffers
    BY <1>3, ConstantsOK DEF find_free_buffer, Buffers
  <2>1. in_use[d][1] /\ in_use[d][2]
    BY <1>2, <1>3, <2>0
  <2>2. bufferLast[d] = 1 /\ bufferLast[d] = 2
    BY <1>1, <2>0, <2>1 DEF BuffersInv, Idle
  <2> QED
    BY <2>2
<1> QED
  BY <1>2, <1>3

\* Painting display d takes it from Idle to InRequest.
LEMMA RepaintSafe ==
  ASSUME CrtcsApart, TypeInv, IInv, NEW d \in Displays, RepaintOutput(d)
  PROVE  IInv'
<1> USE ConstantsOK, CrtcOfType
<1> PICK b \in find_free_buffer(d) :
       /\ rendering' = rendering \union {Frame(d, b)}
       /\ in_use' = [in_use EXCEPT ![d][b] = TRUE]
       /\ bufferPending' = [bufferPending EXCEPT ![d] = b]
  BY DEF RepaintOutput, repaint_one_output
<1>1. Idle(d) /\ BuffersInv(d) /\ RenderInv(d)
  BY DEF IInv, PhaseInv, InRequest, Committed, Presented, Dropped, RepaintOutput
<1>2. /\ b \in Buffers /\ ~in_use[d][b]
      /\ \A x \in Buffers : x < b => in_use[d][x]
  BY DEF find_free_buffer
<1>3. b \in {1, 2} /\ b # bufferLast[d]
  BY <1>1, <1>2, FreeIsOfTwo DEF Idle, BuffersInv, RepaintOutput
<1>4. InRequest(d)'
  BY <1>1, <1>2 DEF RepaintOutput, repaint_one_output, TypeInv, TypeOK, Idle, InRequest, Shown,
     eventVars, kernelVars
<1>5. BuffersInv(d)'
  <2>1. bufferPending'[d] = b /\ bufferLast'[d] = bufferLast[d]
    BY DEF RepaintOutput, repaint_one_output, TypeInv, TypeOK
  <2>2. \A x \in Buffers : in_use'[d][x] <=> x = b \/ in_use[d][x]
    BY <1>2 DEF TypeInv, TypeOK
  <2>3. \A x \in Buffers : in_use[d][x] <=> x = bufferLast[d]
    BY <1>1 DEF BuffersInv, Idle
  <2> QED
    BY <1>1, <1>2, <1>3, <2>1, <2>2, <2>3, NotBuffers DEF BuffersInv
<1>6. RenderInv(d)'
  <2>1. Frame(d, b) # screen[CrtcOf[d]]
    BY <1>1, <1>2, <1>3, FrameInjective, FrameNotNone DEF Idle, Shown
  <2>2. ImplicitFencing => \A x \in Buffers : Frame(d, x) \notin rendering
    BY <1>1 DEF RenderInv, Idle
  <2>3. bufferPending'[d] = b /\ screen' = screen
    BY DEF RepaintOutput, repaint_one_output, TypeInv, TypeOK, kernelVars
  <2> QED
    BY <1>2, <2>1, <2>2, <2>3, FrameInjective DEF RenderInv
<1>7. ASSUME NEW e \in Displays, e # d
      PROVE  PhaseInv(e)' /\ BuffersInv(e)' /\ RenderInv(e)'
  <2>1. CrtcOf[e] # CrtcOf[d]
    BY <1>7 DEF CrtcsApart
  <2>2. SameDisplay(e)
    BY <1>7, <2>1, FrameInjective DEF RepaintOutput, repaint_one_output, SameDisplay, TypeInv,
       TypeOK, eventVars, kernelVars
  <2>3. ~Dropped(e)
    BY DEF Dropped, RepaintOutput
  <2> QED
    BY <2>2, <2>3, SameDisplayInv DEF IInv
<1>8. ASSUME NEW e \in Displays PROVE LoopInv(e)'
  BY DEF RepaintOutput, repaint_one_output, TypeInv, TypeOK, IInv, LoopInv, Displays, eventVars
<1> QED
  BY <1>4, <1>5, <1>6, <1>7, <1>8 DEF IInv, PhaseInv

\* A commit takes every display of the request to Committed at once, and the
\* request is then empty.
LEMMA CommitSafe ==
  ASSUME CrtcsApart, TypeInv, IInv, Commit
  PROVE  IInv'
<1> USE ConstantsOK, CrtcOfType
<1>1. ASSUME NEW d \in Displays, InRequest(d) PROVE Committed(d)'
  BY <1>1 DEF Commit, InRequest, Committed, Shown, displayVars, eventVars, NoDisplay, Displays
<1>2. ASSUME NEW d \in Displays, ~InRequest(d) PROVE SameDisplay(d)
  <2>1. request[CrtcOf[d]] = NoDisplay
    BY <1>2 DEF IInv, PhaseInv, Idle, Committed, Presented, Dropped
  <2> QED
    BY <2>1 DEF Commit, SameDisplay, displayVars, eventVars
<1>3. ASSUME NEW d \in Displays PROVE PhaseInv(d)' /\ BuffersInv(d)' /\ RenderInv(d)'
  <2>1. CASE InRequest(d)
    <3>1. BuffersInv(d)' /\ RenderInv(d)'
      BY DEF IInv, BuffersInv, RenderInv, Commit, displayVars
    <3> QED
      BY <1>1, <2>1, <3>1 DEF PhaseInv
  <2>2. CASE ~InRequest(d)
    BY <1>2, <2>2, SameDisplayInv DEF IInv, Dropped, Commit
  <2> QED
    BY <2>1, <2>2
<1>4. ASSUME NEW d \in Displays PROVE LoopInv(d)'
  BY DEF Commit, TypeInv, TypeOK, IInv, LoopInv, LoopDone, Displays, displayVars, eventVars
<1> QED
  BY <1>3, <1>4 DEF IInv

\* A failed commit drops the displays of the request.
LEMMA CommitFailsSafe ==
  ASSUME TypeInv, IInv, CommitFails
  PROVE  IInv'
<1> USE ConstantsOK, CrtcOfType
<1>1. ASSUME NEW d \in Displays, InRequest(d) PROVE Dropped(d)'
  BY <1>1 DEF CommitFails, InRequest, Dropped, Shown, displayVars, eventVars, kernelVars
<1>2. ASSUME NEW d \in Displays, ~InRequest(d) PROVE SameDisplay(d)
  <2>1. request[CrtcOf[d]] = NoDisplay
    BY <1>2 DEF IInv, PhaseInv, Idle, Committed, Presented, Dropped
  <2> QED
    BY <2>1 DEF CommitFails, SameDisplay, displayVars, eventVars, kernelVars
<1>3. ASSUME NEW d \in Displays PROVE PhaseInv(d)' /\ BuffersInv(d)' /\ RenderInv(d)'
  <2>1. CASE InRequest(d)
    <3>1. BuffersInv(d)' /\ RenderInv(d)'
      BY DEF IInv, BuffersInv, RenderInv, CommitFails, displayVars, kernelVars
    <3> QED
      BY <1>1, <2>1, <3>1 DEF PhaseInv
  <2>2. CASE ~InRequest(d)
    BY <1>2, <2>2, SameDisplayInv DEF IInv, CommitFails
  <2> QED
    BY <2>1, <2>2
<1>4. ASSUME NEW d \in Displays PROVE LoopInv(d)'
  BY DEF CommitFails, TypeInv, TypeOK, IInv, LoopInv, displayVars, eventVars
<1> QED
  BY <1>3, <1>4 DEF IInv

\* Handling the event of CRTC c takes its display from Presented to Idle.
LEMMA HandleEventSafe ==
  ASSUME CrtcsApart, TypeInv, IInv, NEW c \in Crtcs, HandleEvent(c)
  PROVE  IInv'
<1> USE ConstantsOK, CrtcOfType
<1> PICK d \in DisplayOfEvent(c) :
       /\ needs_repaint' = [needs_repaint EXCEPT ![d] = TRUE]
       /\ in_use' = [in_use EXCEPT ![d] = Released(d)]
       /\ bufferLast' = [bufferLast EXCEPT ![d] = bufferPending[d]]
       /\ bufferPending' = [bufferPending EXCEPT ![d] = NoBuffer]
  BY DEF HandleEvent
<1>1. d \in Displays /\ CrtcOf[d] = c
  BY DEF DisplayOfEvent
<1>2. batch[c] \in Nat \ {0} /\ queued[c] \in Nat
  BY DEF HandleEvent, TypeInv, TypeOK
<1>3. Presented(d) /\ BuffersInv(d) /\ RenderInv(d) /\ batch[c] = 1 /\ queued[c] = 0
  <2>1. queued[c] + batch[c] # 0
    BY <1>2
  <2>2. Presented(d)
    BY <1>1, <2>1 DEF IInv, PhaseInv, Idle, InRequest, Committed, Dropped
  <2> QED
    BY <1>1, <1>2, <2>2 DEF IInv, Presented
<1>4. batch'[c] = 0 /\ queued' = queued /\ request' = request /\ inflight' = inflight /\
      screen' = screen /\ rendering' = rendering /\ pc' = "dispatch"
  BY <1>3 DEF HandleEvent, TypeInv, TypeOK, loopVars, kernelVars
<1>5. /\ needs_repaint'[d] = TRUE
      /\ bufferLast'[d] = bufferPending[d] /\ bufferPending'[d] = NoBuffer
      /\ \A x \in Buffers : in_use'[d][x] <=> x # bufferLast[d] /\ in_use[d][x]
  BY <1>1 DEF TypeInv, TypeOK, Released
<1>6. Idle(d)'
  BY <1>1, <1>3, <1>4, <1>5, NotBuffers DEF Presented, Idle, Shown
<1>7. BuffersInv(d)'
  <2>1. \A x \in Buffers : in_use'[d][x] <=> x = bufferPending[d]
    BY <1>3, <1>5 DEF Presented, BuffersInv
  <2> QED
    BY <1>3, <1>5, <2>1, NotBuffers DEF BuffersInv, Presented
<1>8. RenderInv(d)'
  <2>1. ImplicitFencing => \A x \in Buffers : Frame(d, x) \notin rendering
    BY <1>3 DEF RenderInv, Presented
  <2> QED
    BY <1>4, <2>1 DEF RenderInv
<1>9. ASSUME NEW e \in Displays, e # d
      PROVE  PhaseInv(e)' /\ BuffersInv(e)' /\ RenderInv(e)'
  <2>1. CrtcOf[e] # CrtcOf[d]
    BY <1>1, <1>9 DEF CrtcsApart
  <2>2. batch'[CrtcOf[e]] = batch[CrtcOf[e]]
    BY <1>1, <2>1 DEF HandleEvent, TypeInv, TypeOK
  <2>3. SameDisplay(e)
    BY <1>4, <1>9, <2>2 DEF SameDisplay, TypeInv, TypeOK
  <2>4. ~Dropped(e)
    BY DEF Dropped, HandleEvent
  <2> QED
    BY <2>3, <2>4, SameDisplayInv DEF IInv
<1>10. ASSUME NEW e \in Displays PROVE LoopInv(e)'
  BY <1>4 DEF IInv, LoopInv, HandleEvent
<1> QED
  BY <1>6, <1>7, <1>8, <1>9, <1>10 DEF IInv, PhaseInv

\* A flip takes the display of CRTC c from Committed to Presented.
LEMMA KernelFlipSafe ==
  ASSUME CrtcsApart, TypeInv, IInv, NEW c \in Crtcs, KernelFlip(c)
  PROVE  IInv'
<1> USE ConstantsOK, CrtcOfType
<1>1. PICK d \in Displays : CrtcOf[d] = c
  BY DEF Crtcs
<1>2. Committed(d) /\ BuffersInv(d) /\ RenderInv(d)
  BY <1>1 DEF IInv, PhaseInv, Idle, InRequest, Presented, Dropped, KernelFlip
<1>3. /\ screen'[c] = inflight[c] /\ inflight'[c] = NoFrame /\ queued'[c] = queued[c] + 1
      /\ queued[c] \in Nat /\ batch[c] \in Nat
      /\ ImplicitFencing => Frame(d, bufferPending[d]) \notin rendering
      /\ UNCHANGED <<pc, cursor, request, needs_repaint, bufferPending, bufferLast, in_use,
                     batch, rendering>>
  BY <1>1, <1>2 DEF KernelFlip, TypeInv, TypeOK, loopVars, displayVars, Committed, CrtcsApart
<1>4. Presented(d)'
  BY <1>1, <1>2, <1>3 DEF Committed, Presented
<1>5. BuffersInv(d)' /\ RenderInv(d)'
  <2>1. ImplicitFencing => \A x \in Buffers : Frame(d, x) \notin rendering
    BY <1>2, <1>3 DEF RenderInv
  <2> QED
    BY <1>2, <1>3, <2>1 DEF BuffersInv, RenderInv
<1>6. ASSUME NEW e \in Displays, e # d
      PROVE  PhaseInv(e)' /\ BuffersInv(e)' /\ RenderInv(e)'
  <2>1. CrtcOf[e] # c
    BY <1>1, <1>6 DEF CrtcsApart
  <2>2. SameDisplay(e)
    BY <1>3, <1>6, <2>1 DEF SameDisplay, KernelFlip, TypeInv, TypeOK
  <2> QED
    BY <1>3, <2>2, SameDisplayInv DEF IInv, Dropped
<1>7. ASSUME NEW e \in Displays PROVE LoopInv(e)'
  BY <1>3 DEF IInv, LoopInv
<1> QED
  BY <1>4, <1>5, <1>6, <1>7 DEF IInv, PhaseInv

\* Reading moves the queued events into the batch.
LEMMA ReadEventsSafe ==
  ASSUME TypeInv, IInv, ReadEvents
  PROVE  IInv'
<1> USE ConstantsOK, CrtcOfType
<1>1. ASSUME NEW d \in Displays PROVE PhaseInv(d)' /\ BuffersInv(d)' /\ RenderInv(d)' /\ LoopInv(d)'
  <2>1. batch[CrtcOf[d]] = 0 /\ queued[CrtcOf[d]] \in Nat
    BY DEF IInv, LoopInv, ReadEvents, TypeInv, TypeOK
  <2>2. queued'[CrtcOf[d]] + batch'[CrtcOf[d]] = queued[CrtcOf[d]] + batch[CrtcOf[d]]
    BY <2>1 DEF ReadEvents
  <2>3. PhaseInv(d)'
    BY <2>2 DEF IInv, PhaseInv, Idle, InRequest, Committed, Presented, Dropped, Shown, ReadEvents,
       displayVars, kernelVars
  <2>4. BuffersInv(d)' /\ RenderInv(d)' /\ LoopInv(d)'
    BY DEF IInv, BuffersInv, RenderInv, LoopInv, ReadEvents, displayVars, kernelVars
  <2> QED
    BY <2>3, <2>4
<1> QED
  BY <1>1 DEF IInv

LEMMA SafeStep == CrtcsApart /\ TypeInv /\ IInv /\ [Next]_vars => IInv'
<1> SUFFICES ASSUME CrtcsApart, TypeInv, IInv, [Next]_vars PROVE IInv'
  OBVIOUS
<1> USE ConstantsOK, CrtcOfType
\* A step that leaves the displays alone only has to respect LoopInv.
<1>0. ASSUME UNCHANGED <<request, displayVars, eventVars, kernelVars>>,
             rendering' \subseteq rendering,
             \A d \in Displays : LoopInv(d)',
             pc \in {"restore", "exited"} => pc' \in {"restore", "exited"}
      PROVE  IInv'
  BY <1>0, UnchangedIsSame, SameDisplayInv DEF IInv, Dropped
<1>1. ASSUME NEW d \in Displays, SkipOutput(d) PROVE IInv'
  <2>1. cursor' = d + 1 /\ pc' = "scan" /\ ~needs_repaint[d] /\ cursor = d /\ pc = "scan"
    BY <1>1 DEF SkipOutput
  <2>2. ASSUME NEW e \in Displays PROVE LoopInv(e)'
    <3>1. LoopInv(e) /\ UNCHANGED <<request, batch, needs_repaint>>
      BY <1>1 DEF SkipOutput, IInv, displayVars, eventVars
    <3>2. needs_repaint[e] => e # d /\ ~(e < d)
      BY <2>1, <3>1 DEF LoopInv
    <3>3. needs_repaint[e] => ~(e < d + 1)
      BY <3>2 DEF Displays
    <3> QED
      BY <2>1, <3>1, <3>3 DEF LoopInv
  <2> QED
    BY <1>0, <1>1, <2>1, <2>2 DEF SkipOutput
<1>2. ASSUME NEW d \in Displays, RepaintOutput(d) PROVE IInv'
  BY <1>2, RepaintSafe
<1>3. ASSUME Abort, pc \in {"scan", "fences", "dispatch"} PROVE IInv'
  <2>1. \A e \in Displays : LoopInv(e)'
    BY <1>3 DEF Abort, IInv, LoopInv, displayVars, eventVars
  <2> QED
    BY <1>0, <1>3, <2>1 DEF Abort
<1>4. ASSUME NEW d \in Displays, HandoverFence(d) PROVE IInv'
  <2>1. \A e \in Displays : LoopInv(e)'
    BY <1>4 DEF HandoverFence, IInv, LoopInv, displayVars, eventVars
  <2> QED
    BY <1>0, <1>4, <2>1 DEF HandoverFence
<1>5. CASE Commit
  BY <1>5, CommitSafe
<1>6. CASE CommitFails
  BY <1>6, CommitFailsSafe
<1>7. CASE ReadEvents
  BY <1>7, ReadEventsSafe
<1>8. CASE PollOrReadFails
  <2>1. \A e \in Displays : LoopInv(e)'
    BY <1>8 DEF PollOrReadFails, IInv, LoopInv, displayVars, eventVars
  <2> QED
    BY <1>0, <1>8, <2>1 DEF PollOrReadFails
<1>9. ASSUME NEW c \in Crtcs, HandleEvent(c) PROVE IInv'
  BY <1>9, HandleEventSafe
<1>10. CASE DispatchDone
  <2>1. \A e \in Displays : LoopInv(e)'
    BY <1>10 DEF DispatchDone, IInv, LoopInv, Displays, displayVars, eventVars
  <2> QED
    BY <1>0, <1>10, <2>1 DEF DispatchDone
<1>11. CASE Leave
  <2>1. \A e \in Displays : LoopInv(e)'
    BY <1>11 DEF Leave, IInv, LoopInv, displayVars, eventVars
  <2> QED
    BY <1>0, <1>11, <2>1 DEF Leave
<1>12. ASSUME NEW c \in Crtcs, KernelFlip(c) PROVE IInv'
  BY <1>12, KernelFlipSafe
<1>13. ASSUME NEW d \in Displays, NEW b \in Buffers, GpuDone(d, b) PROVE IInv'
  <2>1. \A e \in Displays : LoopInv(e)'
    BY <1>13 DEF GpuDone, IInv, LoopInv, loopVars, displayVars, eventVars
  <2> QED
    BY <1>0, <1>13, <2>1 DEF GpuDone, loopVars
<1>14. CASE UNCHANGED vars
  <2>1. \A e \in Displays : LoopInv(e)'
    BY <1>14 DEF vars, IInv, LoopInv, loopVars, displayVars, eventVars
  <2> QED
    BY <1>0, <1>14, <2>1 DEF vars, loopVars
<1> QED
  BY <1>1, <1>2, <1>3, <1>4, <1>5, <1>6, <1>7, <1>8, <1>9, <1>10, <1>11, <1>12, <1>13, <1>14
  DEF Next, Program, Kernel, Gpu, RepaintAsserts, HandoverAsserts, HandlerAsserts

LEMMA Invariance == CrtcsApart /\ Spec => [](TypeInv /\ IInv)
<1>1. CrtcsApart /\ Init => TypeInv /\ IInv
  BY TypeInit, SafeInit
<1>2. CrtcsApart /\ (TypeInv /\ IInv) /\ [Next]_vars => (TypeInv /\ IInv)'
  BY TypeStep, SafeStep
<1>3. CASE CrtcsApart
  <2>1. Init => TypeInv /\ IInv
    BY <1>1, <1>3
  <2>2. (TypeInv /\ IInv) /\ [Next]_vars => (TypeInv /\ IInv)'
    BY <1>2, <1>3
  <2> QED
    BY <2>1, <2>2, PTL DEF Spec
<1>4. CASE ~CrtcsApart
  BY <1>4
<1> QED
  BY <1>3, <1>4

-----------------------------------------------------------------------------
(***************************************************************************)
(* The safety properties follow from the invariant.                        *)
(***************************************************************************)

\* Every CRTC the program uses belongs to a display.
LEMMA DisplayOfCrtc == \A c \in Crtcs : \E d \in Displays : CrtcOf[d] = c
BY DEF Crtcs

LEMMA KmsOwnsInUseHolds == CrtcsApart /\ TypeInv /\ IInv => KmsOwnsInUse
<1> SUFFICES ASSUME CrtcsApart, TypeInv, IInv, NEW d \in Displays, NEW b \in Buffers,
                    \/ \E c \in Crtcs : Frame(d, b) \in {screen[c], inflight[c]}
                    \/ ImplicitFencing /\ Frame(d, b) \in rendering
             PROVE  in_use[d][b]
  BY DEF KmsOwnsInUse
<1> SUFFICES b \in {bufferPending[d], bufferLast[d]}
  BY DEF IInv, BuffersInv
<1>1. ASSUME NEW c \in Crtcs, Frame(d, b) \in {screen[c], inflight[c]}
      PROVE  b \in {bufferPending[d], bufferLast[d]}
  <2>1. PICK e \in Displays : CrtcOf[e] = c
    BY DisplayOfCrtc
  <2>2. PhaseInv(e)
    BY DEF IInv
  <2>3. /\ screen[c] \in {NoFrame, Frame(e, bufferPending[e]), Frame(e, bufferLast[e])}
        /\ inflight[c] \in {NoFrame, Frame(e, bufferPending[e])}
    BY <2>1, <2>2 DEF PhaseInv, Idle, InRequest, Committed, Presented, Dropped, Shown
  <2> QED
    BY <1>1, <2>3, FrameInjective, FrameNotNone
<1>2. CASE ImplicitFencing /\ Frame(d, b) \in rendering
  BY <1>2 DEF IInv, RenderInv
<1> QED
  BY <1>1, <1>2

LEMMA ScanoutRenderedHolds == ImplicitFencing /\ TypeInv /\ IInv => ScanoutRendered
<1> SUFFICES ASSUME ImplicitFencing, TypeInv, IInv, NEW c \in Crtcs, screen[c] \in rendering
             PROVE  FALSE
  BY DEF ScanoutRendered
<1>1. PICK d \in Displays : CrtcOf[d] = c
  BY DisplayOfCrtc
<1>2. screen[c] \in {NoFrame, Frame(d, bufferPending[d]), Frame(d, bufferLast[d])}
  BY <1>1 DEF IInv, PhaseInv, Idle, InRequest, Committed, Presented, Dropped, Shown
<1>3. screen[c] # NoFrame /\ screen[c] \in Frames
  BY DEF TypeInv, TypeOK, Frames, NoFrame, Displays, NoDisplay
<1>4. PICK b : screen[c] = Frame(d, b)
  BY <1>2, <1>3
<1>5. b \in Buffers
  BY <1>3, <1>4 DEF Frame, Frames
<1> QED
  BY <1>1, <1>4, <1>5 DEF IInv, RenderInv

LEMMA OneCommitInFlightHolds == TypeInv /\ IInv => OneCommitInFlight
<1> SUFFICES ASSUME TypeInv, IInv, NEW c \in Crtcs, request[c] # NoDisplay
             PROVE  inflight[c] = NoFrame /\ queued[c] = 0 /\ batch[c] = 0
  BY DEF OneCommitInFlight
<1>1. PICK d \in Displays : CrtcOf[d] = c
  BY DisplayOfCrtc
<1>2. InRequest(d)
  BY <1>1 DEF IInv, PhaseInv, Idle, Committed, Presented, Dropped
<1>3. queued[c] \in Nat /\ batch[c] \in Nat
  BY DEF TypeInv, TypeOK
<1> QED
  BY <1>1, <1>2, <1>3 DEF InRequest

LEMMA PollNeverStuckHolds == TypeInv /\ IInv => PollNeverStuck
<1> SUFFICES ASSUME TypeInv, IInv, pc = "fences"
             PROVE  \E c \in Crtcs : queued[c] > 0 \/ inflight[c] # NoFrame
  BY DEF PollNeverStuck
<1>1. PICK d \in Displays : d = 1
  BY ConstantsOK DEF Displays
<1>2. Committed(d) \/ Presented(d)
  BY DEF IInv, LoopInv, PhaseInv, Idle, InRequest, Dropped, Displays, NoDisplay
<1>3. CrtcOf[d] \in Crtcs /\ batch[CrtcOf[d]] = 0 /\ queued[CrtcOf[d]] \in Nat
  BY CrtcOfType DEF IInv, LoopInv, TypeInv, TypeOK
<1>4. CASE Committed(d)
  BY <1>3, <1>4, FrameNotNone DEF Committed
<1>5. CASE Presented(d)
  BY <1>3, <1>5 DEF Presented
<1> QED
  BY <1>2, <1>4, <1>5

LEMMA ViewMatchesScreenHolds == HeapZeroed /\ TypeInv /\ IInv => ViewMatchesScreen
<1> SUFFICES ASSUME HeapZeroed, TypeInv, IInv, NEW d \in Displays
             PROVE  LET c == CrtcOf[d] IN
                      CASE queued[c] + batch[c] = 0 ->
                             screen[c] = IF bufferLast[d] = NoBuffer THEN NoFrame
                                         ELSE Frame(d, bufferLast[d])
                        [] queued[c] + batch[c] = 1 -> screen[c] = Frame(d, bufferPending[d])
                        [] OTHER -> FALSE
  BY DEF ViewMatchesScreen
<1>1. CASE queued[CrtcOf[d]] + batch[CrtcOf[d]] = 0
  <2>1. bufferLast[d] \in Buffers \union {NoBuffer}
    BY DEF IInv, BuffersInv, TypeInv, TypeOK, BufferPointer
  <2>2. screen[CrtcOf[d]] = Shown(d)
    BY <1>1 DEF IInv, PhaseInv, Idle, InRequest, Committed, Presented, Dropped
  <2> QED
    BY <1>1, <2>1, <2>2, NotBuffers DEF Shown
<1>2. CASE queued[CrtcOf[d]] + batch[CrtcOf[d]] = 1
  BY <1>2 DEF IInv, PhaseInv, Idle, InRequest, Committed, Presented, Dropped
<1>3. queued[CrtcOf[d]] + batch[CrtcOf[d]] \in {0, 1}
  BY DEF IInv, PhaseInv, Idle, InRequest, Committed, Presented, Dropped
<1> QED
  BY <1>1, <1>2, <1>3

LEMMA TwoBuffersSufficeHolds == IInv => TwoBuffersSuffice
BY DEF IInv, BuffersInv, TwoBuffersSuffice, Buffers, NoBuffer

\* For any number of displays with a CRTC each, whatever the memory of the
\* displays held and whether or not the driver delays flips: the buffers the
\* kernel or the GPU uses are marked, no display is committed twice, poll()
\* always has something to wait for, and two buffers are enough.
THEOREM LoopSafe ==
  CrtcsApart /\ Spec =>
    [](KmsOwnsInUse /\ OneCommitInFlight /\ PollNeverStuck /\ TwoBuffersSuffice)
<1>1. CASE CrtcsApart
  <2>1. TypeInv /\ IInv =>
          KmsOwnsInUse /\ OneCommitInFlight /\ PollNeverStuck /\ TwoBuffersSuffice
    BY <1>1, KmsOwnsInUseHolds, OneCommitInFlightHolds, PollNeverStuckHolds,
       TwoBuffersSufficeHolds
  <2>2. Spec => [](TypeInv /\ IInv)
    BY <1>1, Invariance
  <2> QED
    BY <2>1, <2>2, PTL
<1>2. CASE ~CrtcsApart
  BY <1>2
<1> QED
  BY <1>1, <1>2

\* What KMS shows or was told to show, and what the GPU still draws, is never
\* drawn into: it is marked in_use (main.cpp:344-347).
THEOREM KmsAlwaysOwnsInUse == CrtcsApart /\ Spec => []KmsOwnsInUse
BY LoopSafe, PTL

\* With a driver that delays a flip until the GPU is done, no frame is on the
\* screen while the GPU still draws it.
THEOREM ScanoutAlwaysRendered == CrtcsApart /\ ImplicitFencing /\ Spec => []ScanoutRendered
<1>1. CASE CrtcsApart /\ ImplicitFencing
  <2>1. TypeInv /\ IInv => ScanoutRendered
    BY <1>1, ScanoutRenderedHolds
  <2>2. Spec => [](TypeInv /\ IInv)
    BY <1>1, Invariance
  <2> QED
    BY <2>1, <2>2, PTL
<1>2. CASE ~(CrtcsApart /\ ImplicitFencing)
  BY <1>2
<1> QED
  BY <1>1, <1>2

\* If the members of Display start at zero, the program's bookkeeping follows
\* the screen (main.cpp:149-153).
THEOREM ViewAlwaysMatchesScreen == CrtcsApart /\ HeapZeroed /\ Spec => []ViewMatchesScreen
<1>1. CASE CrtcsApart /\ HeapZeroed
  <2>1. TypeInv /\ IInv => ViewMatchesScreen
    BY <1>1, ViewMatchesScreenHolds
  <2>2. Spec => [](TypeInv /\ IInv)
    BY <1>1, Invariance
  <2> QED
    BY <2>1, <2>2, PTL
<1>2. CASE ~(CrtcsApart /\ HeapZeroed)
  BY <1>2
<1> QED
  BY <1>1, <1>2

\* A display is not in a request while its last commit is under way, so the
\* kernel never refuses one for being busy (main.cpp:796-799).
THEOREM OneCommitAlwaysInFlight == CrtcsApart /\ Spec => []OneCommitInFlight
BY LoopSafe, PTL

\* Whenever the loop sleeps in poll(), an event is there or will come
\* (main.cpp:823).
THEOREM PollNeverGetsStuck == CrtcsApart /\ Spec => []PollNeverStuck
BY LoopSafe, PTL

\* Two of a display's buffers are used at a time, whatever the depth of its
\* queue (Display.hpp:34).
THEOREM TwoBuffersAlwaysSuffice == CrtcsApart /\ Spec => []TwoBuffersSuffice
BY LoopSafe, PTL

-----------------------------------------------------------------------------
(***************************************************************************)
(* Without fences on both sides no assertion can fail.                     *)
(***************************************************************************)
NoFences == \A d \in Displays : ~Fenced(d)

\* A display that is to be painted always has a free buffer.
LEMMA FreeBufferExists ==
  ASSUME SaneSetup, TypeInv, IInv, NEW d \in Displays, needs_repaint[d]
  PROVE  find_free_buffer(d) # {}
<1>1. Idle(d) /\ BuffersInv(d)
  BY DEF IInv, PhaseInv, InRequest, Committed, Presented, Dropped
<1>2. {1, 2} \subseteq Buffers /\ Buffers \subseteq Nat \ {0}
  BY ConstantsOK DEF SaneSetup, Buffers
<1>3. \A b \in Buffers : in_use[d][b] <=> b = bufferLast[d]
  BY <1>1, <1>2 DEF Idle, BuffersInv, NoBuffer
<1>4. CASE bufferLast[d] = 1
  <2>1. 2 \in find_free_buffer(d)
    BY <1>2, <1>3, <1>4 DEF find_free_buffer
  <2> QED
    BY <2>1
<1>5. CASE bufferLast[d] # 1
  <2>1. 1 \in find_free_buffer(d)
    BY <1>2, <1>3, <1>5 DEF find_free_buffer
  <2> QED
    BY <2>1
<1> QED
  BY <1>4, <1>5

\* The painting and the handler find what they assert, and the handover of
\* fences is skipped.
LEMMA NoAbort ==
  ASSUME SaneSetup, NoFences, ~PaintFaults, TypeInv, IInv, AssertionsHold, [Next]_vars
  PROVE  AssertionsHold'
<1> USE DEF AssertionsHold
<1>1. ASSUME NEW d \in Displays, RepaintAsserts(d) PROVE FALSE
  BY <1>1, FreeBufferExists DEF RepaintAsserts, CanDraw, NoFences
<1>2. ASSUME NEW d \in Displays, HandoverAsserts(d) PROVE FALSE
  BY <1>2 DEF HandoverAsserts, NoFences
<1>3. ASSUME NEW c \in Crtcs, HandlerAsserts(c) PROVE FALSE
  <2>1. PICK d \in Displays : CrtcOf[d] = c /\ (~HandlerAssertions(d) \/ bufferLast[d] = Wild)
    BY <1>3 DEF HandlerAsserts, DisplayOfEvent
  <2>2. queued[c] + batch[c] # 0
    BY <1>3 DEF HandlerAsserts, TypeInv, TypeOK
  <2>3. Presented(d) /\ BuffersInv(d)
    BY <2>1, <2>2 DEF IInv, PhaseInv, Idle, InRequest, Committed, Dropped
  <2>4. {1, 2} \subseteq Buffers
    BY ConstantsOK DEF SaneSetup, Buffers
  <2>5. HandlerAssertions(d)
    BY <2>3, <2>4 DEF HandlerAssertions, Presented, BuffersInv, NoFences
  <2>6. bufferLast[d] # Wild
    BY <2>3 DEF BuffersInv, SaneSetup
  <2> QED
    BY <2>1, <2>5, <2>6
<1> QED
  BY <1>1, <1>2, <1>3
  DEF Next, Program, Kernel, Gpu, SkipOutput, RepaintOutput, repaint_one_output, HandoverFence,
      Commit, CommitFails, ReadEvents, PollOrReadFails, HandleEvent, DispatchDone, Leave,
      KernelFlip, GpuDone, loopVars, vars

\* When KMS or EGL has no explicit fencing and EGL does what it is asked, a
\* sane setup never fails an assertion, whatever the number of displays and
\* the faults of the device.
THEOREM NoAssertionFails ==
  SaneSetup /\ NoFences /\ ~PaintFaults /\ Spec => []AssertionsHold
<1>1. CASE SaneSetup /\ NoFences /\ ~PaintFaults
  <2>1. Init => AssertionsHold
    BY DEF Init, AssertionsHold
  <2>2. TypeInv /\ IInv /\ AssertionsHold /\ [Next]_vars => AssertionsHold'
    BY <1>1, NoAbort
  <2>3. Spec => [](TypeInv /\ IInv)
    BY <1>1, SaneIsApart, Invariance
  <2> QED
    BY <2>1, <2>2, <2>3, PTL DEF Spec
<1>2. CASE ~(SaneSetup /\ NoFences /\ ~PaintFaults)
  BY <1>2
<1> QED
  BY <1>1, <1>2

-----------------------------------------------------------------------------
(***************************************************************************)
(* Refinement: displays with a CRTC each implement FlipChain. Painting is  *)
(* a Submit, a flip is a Flip, an event that releases a buffer is a        *)
(* Release, and every other step leaves the roles of the buffers alone.    *)
(***************************************************************************)

\* A display that a step leaves alone keeps the roles of its buffers.
LEMMA SameRoles ==
  ASSUME NEW d \in Displays, SameDisplay(d)
  PROVE  \A b \in Buffers : Role(d, b)' = Role(d, b)
BY DEF SameDisplay, Role

\* When nothing but the roles of display d can change, roles is changed there.
LEMMA RolesExcept ==
  ASSUME NEW d \in Displays, \A e \in Displays \ {d} : SameDisplay(e),
         NEW f, f = [b \in Buffers |-> Role(d, b)']
  PROVE  roles' = [roles EXCEPT ![d] = f]
<1>1. \A e \in Displays \ {d} : \A b \in Buffers : Role(e, b)' = Role(e, b)
  BY SameRoles
<1>2. roles' = [e \in Displays |-> [b \in Buffers |-> Role(e, b)']]
  BY DEF roles
<1>3. roles = [e \in Displays |-> [b \in Buffers |-> Role(e, b)]]
  BY DEF roles
<1>4. ASSUME NEW e \in Displays
      PROVE  [b \in Buffers |-> Role(e, b)'] = [roles EXCEPT ![d] = f][e]
  BY <1>1, <1>3
<1> QED
  BY <1>2, <1>3, <1>4

LEMMA RolesUnchanged ==
  ASSUME \A d \in Displays : SameDisplay(d)
  PROVE  UNCHANGED roles
<1>1. \A d \in Displays : \A b \in Buffers : Role(d, b)' = Role(d, b)
  BY SameRoles
<1> QED
  BY <1>1 DEF roles

\* The role of buffer b of display d, from the phase of d.
PhaseRole(d, b) ==
  IF b = bufferLast[d] THEN (IF Presented(d) THEN "retired" ELSE "front")
  ELSE IF b = bufferPending[d] THEN (IF Presented(d) THEN "front" ELSE "queued")
  ELSE "free"

RolesFollowPhases == \A d \in Displays : \A b \in Buffers : Role(d, b) = PhaseRole(d, b)

LEMMA RolesOfPhase == CrtcsApart /\ IInv => RolesFollowPhases
<1> SUFFICES ASSUME CrtcsApart, IInv, NEW d \in Displays, NEW b \in Buffers
             PROVE  Role(d, b) = PhaseRole(d, b)
  BY DEF RolesFollowPhases
<1>1. Buffers \subseteq Nat \ {0}
  BY DEF Buffers
<1>2. BuffersInv(d) /\ PhaseInv(d)
  BY DEF IInv
<1>3. in_use[d][b] <=> b \in {bufferPending[d], bufferLast[d]}
  BY <1>2 DEF BuffersInv
<1>4. bufferPending[d] \in Buffers => bufferPending[d] # bufferLast[d]
  BY <1>2 DEF BuffersInv
<1>5. CASE Presented(d)
  <2>1. screen[CrtcOf[d]] = Frame(d, b) <=> b = bufferPending[d]
    BY <1>5, FrameInjective DEF Presented
  <2>2. bufferPending[d] # bufferLast[d]
    BY <1>4, <1>5 DEF Presented
  <2> QED
    BY <1>1, <1>3, <1>5, <2>1, <2>2 DEF Role, PhaseRole, NoBuffer
<1>6. CASE ~Presented(d)
  <2>1. screen[CrtcOf[d]] = Shown(d)
    BY <1>2, <1>6 DEF PhaseInv, Idle, InRequest, Committed, Dropped
  <2>2. screen[CrtcOf[d]] = Frame(d, b) <=> b = bufferLast[d]
    BY <1>1, <2>1, FrameInjective, FrameNotNone DEF Shown, NoBuffer
  <2> QED
    BY <1>1, <1>3, <1>4, <1>6, <2>2 DEF Role, PhaseRole, NoBuffer
<1> QED
  BY <1>5, <1>6

\* The same after a step.
LEMMA RolesOfPhasePrime == CrtcsApart /\ IInv' => RolesFollowPhases'
<1>1. (CrtcsApart /\ IInv => RolesFollowPhases)'
  BY RolesOfPhase, PTL
<1>2. CrtcsApart' <=> CrtcsApart
  BY DEF CrtcsApart
<1> QED
  BY <1>1, <1>2

\* Painting is a Submit of the buffer that was free.
LEMMA RepaintSubmits ==
  ASSUME CrtcsApart, TypeInv, IInv, IInv', NEW d \in Displays, RepaintOutput(d)
  PROVE  \E b \in Buffers : Chain!Submit(d, b)
<1> USE ConstantsOK, CrtcOfType
<1> PICK b \in find_free_buffer(d) :
       /\ rendering' = rendering \union {Frame(d, b)}
       /\ in_use' = [in_use EXCEPT ![d][b] = TRUE]
       /\ bufferPending' = [bufferPending EXCEPT ![d] = b]
  BY DEF RepaintOutput, repaint_one_output
<1>1. b \in Buffers /\ ~in_use[d][b] /\ Buffers \subseteq Nat \ {0}
  BY DEF find_free_buffer, Buffers
<1>2. Idle(d) /\ BuffersInv(d)
  BY DEF IInv, PhaseInv, InRequest, Committed, Presented, Dropped, RepaintOutput
<1>3. ~Presented(d) /\ bufferPending[d] \notin Buffers /\ b # bufferLast[d]
  BY <1>1, <1>2 DEF Idle, Presented, BuffersInv
<1>4. /\ bufferPending'[d] = b /\ bufferLast'[d] = bufferLast[d]
      /\ ~Presented(d)'
  <2>1. pc' = "scan" /\ queued' = queued /\ batch' = batch
    BY DEF RepaintOutput, repaint_one_output, eventVars
  <2>2. queued[CrtcOf[d]] + batch[CrtcOf[d]] = 0
    BY <1>2 DEF Idle
  <2> QED
    BY <1>1, <2>1, <2>2 DEF RepaintOutput, repaint_one_output, TypeInv, TypeOK, Presented
<1>5. \A x \in Buffers : Role(d, x) = IF x = bufferLast[d] THEN "front" ELSE "free"
  BY <1>1, <1>3, RolesOfPhase DEF RolesFollowPhases, PhaseRole, NoBuffer
<1>6. \A x \in Buffers : Role(d, x)' =
        IF x = bufferLast[d] THEN "front" ELSE IF x = b THEN "queued" ELSE "free"
  BY <1>3, <1>4, RolesOfPhasePrime DEF RolesFollowPhases, PhaseRole
<1>7. ASSUME NEW e \in Displays \ {d} PROVE SameDisplay(e)
  <2>1. CrtcOf[e] # CrtcOf[d]
    BY DEF CrtcsApart
  <2> QED
    BY <2>1, FrameInjective DEF RepaintOutput, repaint_one_output, SameDisplay, TypeInv, TypeOK,
       eventVars, kernelVars
<1>8. roles' = [roles EXCEPT ![d] = [x \in Buffers |-> Role(d, x)']]
  BY <1>7, RolesExcept
<1>9. roles[d] = [x \in Buffers |-> Role(d, x)]
  BY DEF roles
<1>10. [x \in Buffers |-> Role(d, x)'] = [roles[d] EXCEPT ![b] = "queued"]
  BY <1>1, <1>3, <1>5, <1>6, <1>9
<1>11. roles' = [roles EXCEPT ![d][b] = "queued"]
  BY <1>8, <1>10
<1>12. roles[d][b] = "free" /\ \A x \in Buffers : roles[d][x] \notin {"queued", "retired"}
  BY <1>1, <1>3, <1>5, <1>9
<1> QED
  BY <1>1, <1>11, <1>12 DEF Chain!Submit

\* A flip is a Flip of the display whose CRTC flips.
LEMMA KernelFlipFlips ==
  ASSUME CrtcsApart, TypeInv, IInv, IInv', NEW c \in Crtcs, KernelFlip(c)
  PROVE  \E d \in Displays : Chain!Flip(d)
<1> USE ConstantsOK, CrtcOfType
<1>1. PICK d \in Displays : CrtcOf[d] = c
  BY DisplayOfCrtc
<1>2. Committed(d) /\ BuffersInv(d)
  BY <1>1 DEF IInv, PhaseInv, Idle, InRequest, Presented, Dropped, KernelFlip
<1>3. /\ UNCHANGED <<needs_repaint, request, bufferPending, bufferLast, in_use, batch, rendering>>
      /\ screen' = [screen EXCEPT ![c] = inflight[c]]
      /\ inflight' = [inflight EXCEPT ![c] = NoFrame]
      /\ queued' = [queued EXCEPT ![c] = queued[c] + 1]
  BY DEF KernelFlip, loopVars, displayVars
<1>4. ~Presented(d) /\ Presented(d)'
  BY <1>1, <1>2, <1>3 DEF Committed, Presented, TypeInv, TypeOK
<1>5. /\ bufferPending[d] \in Buffers /\ bufferPending[d] # bufferLast[d]
      /\ bufferPending'[d] = bufferPending[d] /\ bufferLast'[d] = bufferLast[d]
  BY <1>2, <1>3 DEF Committed, BuffersInv, Buffers, CrtcsApart, NoBuffer
<1>6. ASSUME NEW e \in Displays \ {d} PROVE SameDisplay(e)
  <2>1. CrtcOf[e] # c
    BY <1>1 DEF CrtcsApart
  <2> QED
    BY <1>3, <2>1 DEF SameDisplay, TypeInv, TypeOK
<1>7. \A x \in Buffers :
        /\ roles[d][x] = PhaseRole(d, x)
        /\ Role(d, x)' = PhaseRole(d, x)'
  BY RolesOfPhase, RolesOfPhasePrime DEF RolesFollowPhases, roles
<1>8. \A x \in Buffers :
        Role(d, x)' = CASE roles[d][x] = "queued" -> "front"
                        [] roles[d][x] = "front"  -> "retired"
                        [] OTHER                  -> roles[d][x]
  BY <1>4, <1>5, <1>7 DEF PhaseRole
<1>9. roles' = [roles EXCEPT ![d] = [x \in Buffers |-> Role(d, x)']]
  BY <1>6, RolesExcept
<1>10. roles[d][bufferPending[d]] = "queued"
  BY <1>4, <1>5, <1>7 DEF PhaseRole
<1> QED
  BY <1>5, <1>8, <1>9, <1>10 DEF Chain!Flip

\* Handling an event is a Release of the buffer it replaced; the first event
\* of a display releases nothing.
LEMMA HandleEventReleases ==
  ASSUME CrtcsApart, TypeInv, IInv, IInv', NEW c \in Crtcs, HandleEvent(c)
  PROVE  (\E d \in Displays : Chain!Release(d)) \/ UNCHANGED roles
<1> USE ConstantsOK, CrtcOfType
<1> PICK d \in DisplayOfEvent(c) :
       /\ needs_repaint' = [needs_repaint EXCEPT ![d] = TRUE]
       /\ in_use' = [in_use EXCEPT ![d] = Released(d)]
       /\ bufferLast' = [bufferLast EXCEPT ![d] = bufferPending[d]]
       /\ bufferPending' = [bufferPending EXCEPT ![d] = NoBuffer]
  BY DEF HandleEvent
<1>1. d \in Displays /\ CrtcOf[d] = c
  BY DEF DisplayOfEvent
<1>2. Presented(d) /\ BuffersInv(d)
  <2>1. queued[c] + batch[c] # 0
    BY DEF HandleEvent, TypeInv, TypeOK
  <2> QED
    BY <1>1, <2>1 DEF IInv, PhaseInv, Idle, InRequest, Committed, Dropped
<1>3. /\ bufferLast'[d] = bufferPending[d] /\ bufferPending'[d] = NoBuffer
      /\ bufferPending[d] # bufferLast[d]
      /\ ~Presented(d)'
  BY <1>1, <1>2 DEF Presented, BuffersInv, TypeInv, TypeOK
<1>4. ASSUME NEW e \in Displays \ {d} PROVE SameDisplay(e)
  <2>1. CrtcOf[e] # c
    BY <1>1 DEF CrtcsApart
  <2>2. batch'[CrtcOf[e]] = batch[CrtcOf[e]]
    BY <2>1 DEF HandleEvent, TypeInv, TypeOK
  <2> QED
    BY <2>2 DEF HandleEvent, SameDisplay, TypeInv, TypeOK, loopVars, kernelVars
<1>5. \A x \in Buffers :
        /\ roles[d][x] = PhaseRole(d, x)
        /\ Role(d, x)' = PhaseRole(d, x)'
  BY <1>1, RolesOfPhase, RolesOfPhasePrime DEF RolesFollowPhases, roles
<1>6. \A x \in Buffers :
        Role(d, x)' = IF roles[d][x] = "retired" THEN "free" ELSE roles[d][x]
  BY <1>2, <1>3, <1>5 DEF PhaseRole, Buffers, NoBuffer
<1>7. roles' = [roles EXCEPT ![d] = [x \in Buffers |-> Role(d, x)']]
  BY <1>1, <1>4, RolesExcept
<1>8. CASE \E x \in Buffers : roles[d][x] = "retired"
  BY <1>1, <1>6, <1>7, <1>8 DEF Chain!Release
<1>9. CASE ~ \E x \in Buffers : roles[d][x] = "retired"
  <2>1. [x \in Buffers |-> Role(d, x)'] = [x \in Buffers |-> roles[d][x]]
    BY <1>6, <1>9
  <2>2. [x \in Buffers |-> roles[d][x]] = roles[d]
    BY <1>1 DEF roles
  <2>3. roles \in [Displays -> [Buffers -> {Role(e, x) : e \in Displays, x \in Buffers}]]
    BY DEF roles
  <2> QED
    BY <1>1, <1>7, <2>1, <2>2, <2>3
<1> QED
  BY <1>8, <1>9

\* A commit changes no role: the frame it submits is queued already.
LEMMA CommitKeepsRoles ==
  ASSUME Commit \/ CommitFails
  PROVE  UNCHANGED roles
<1>1. UNCHANGED <<in_use, screen, bufferPending>>
  BY DEF Commit, CommitFails, displayVars, kernelVars
<1> QED
  BY <1>1 DEF roles, Role

LEMMA RefinementInit == CrtcsApart /\ Init => Chain!Init
BY DEF Init, Chain!Init, roles, Role

LEMMA RefinementStep ==
  CrtcsApart /\ TypeInv /\ IInv /\ IInv' /\ [Next]_vars => [Chain!Next]_roles
<1> SUFFICES ASSUME CrtcsApart, TypeInv, IInv, IInv', [Next]_vars PROVE [Chain!Next]_roles
  OBVIOUS
<1>0. ASSUME UNCHANGED <<in_use, screen, bufferPending>> PROVE UNCHANGED roles
  BY <1>0 DEF roles, Role
<1>1. ASSUME NEW d \in Displays, RepaintOutput(d) PROVE Chain!Next
  BY <1>1, RepaintSubmits DEF Chain!Next
<1>2. ASSUME NEW c \in Crtcs, KernelFlip(c) PROVE Chain!Next
  BY <1>2, KernelFlipFlips DEF Chain!Next
<1>3. ASSUME NEW c \in Crtcs, HandleEvent(c) PROVE [Chain!Next]_roles
  BY <1>3, HandleEventReleases DEF Chain!Next
<1>4. ASSUME Abort PROVE UNCHANGED roles
  BY <1>0, <1>4 DEF Abort, displayVars, kernelVars
<1>5. CASE Commit \/ CommitFails
  BY <1>5, CommitKeepsRoles
<1>6. ASSUME NEW d \in Displays, SkipOutput(d) \/ HandoverFence(d) PROVE UNCHANGED roles
  BY <1>0, <1>6 DEF SkipOutput, HandoverFence, displayVars, kernelVars
<1>7. CASE ReadEvents \/ PollOrReadFails \/ DispatchDone \/ Leave
  BY <1>0, <1>7 DEF ReadEvents, PollOrReadFails, DispatchDone, Leave, displayVars, kernelVars
<1>8. ASSUME NEW d \in Displays, NEW b \in Buffers, GpuDone(d, b) PROVE UNCHANGED roles
  BY <1>0, <1>8 DEF GpuDone, displayVars, kernelVars
<1>9. CASE UNCHANGED vars
  BY <1>0, <1>9 DEF vars, displayVars, kernelVars
<1> QED
  BY <1>1, <1>2, <1>3, <1>4, <1>5, <1>6, <1>7, <1>8, <1>9
  DEF Next, Program, Kernel, Gpu, RepaintAsserts, HandoverAsserts, HandlerAsserts

\* For any number of displays and buffers the loop, the kernel and the GPU
\* together implement the life of a buffer that FlipChain describes.
THEOREM Refinement == CrtcsApart /\ Spec => ImplementsFlipChain
<1>1. CASE CrtcsApart
  <2>1. Init => Chain!Init
    BY <1>1, RefinementInit
  <2>2. TypeInv /\ IInv /\ IInv' /\ [Next]_vars => [Chain!Next]_roles
    BY <1>1, RefinementStep
  <2>3. Spec => [](TypeInv /\ IInv)
    BY <1>1, Invariance
  <2> QED
    BY <2>1, <2>2, <2>3, PTL DEF Spec, ImplementsFlipChain, Chain!Spec
<1>2. CASE ~CrtcsApart
  BY <1>2
<1> QED
  BY <1>1, <1>2
=============================================================================
