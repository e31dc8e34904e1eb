----------------------------- MODULE RepaintLoop -----------------------------
(***************************************************************************)
(* The event loop of glplay (src/src/glplay/main.cpp): every display that  *)
(* needs it is repainted into a free buffer, the frames are submitted to   *)
(* KMS in one atomic commit, the out-fences of the commit are handed to    *)
(* the buffers they protect, and the loop sleeps in poll() until the       *)
(* kernel reports that a commit reached the screen.                        *)
(*                                                                         *)
(* The program is a single thread, so its state is a program counter and   *)
(* the members of the Display objects. It runs against the kernel (page    *)
(* flips at vertical blank, the completion events queued on the DRM file   *)
(* descriptor) and the GPU (rendering finishes some time after glFlush);   *)
(* both are external and modelled from how main.cpp uses them.             *)
(*                                                                         *)
(* Frame times are left to FrameClock; here a time is only "set or not".   *)
(***************************************************************************)
EXTENDS Integers, Functions

CONSTANTS
  NumDisplays,      \* adapter->displays.size()
  QueueDepth,       \* BUFFER_QUEUE_DEPTH
  CrtcOf,           \* CrtcOf[d]: the CRTC display d was found on
  ExplicitFencing,  \* ExplicitFencing[d]: Display::explicitFencing
  EglFencing,       \* EGLDevice::explicit_fencing
  Fds,              \* the file descriptors the process may have open for fences
  NoFd,             \* -1, no file descriptor
  HeapZeroed,       \* the memory the Displays are built in was zero
  ImplicitFencing,  \* the driver delays a flip until the GPU is done
  DeviceFaults,     \* commits, poll and event reads may fail
  PaintFaults       \* calls of EGL and the allocations of a repaint may fail

Displays == 1 .. NumDisplays
Buffers  == 1 .. QueueDepth
Crtcs    == {CrtcOf[d] : d \in Displays}

ASSUME ConstantsOK ==
  /\ NumDisplays \in Nat \ {0}
  /\ QueueDepth \in Nat \ {0}
  /\ NoFd \notin Fds
  /\ CrtcOf \in [Displays -> Nat \ {0}]
  /\ ExplicitFencing \in [Displays -> BOOLEAN]
  /\ {EglFencing, HeapZeroed, ImplicitFencing, DeviceFaults, PaintFaults} \subseteq BOOLEAN

NoBuffer  == 0    \* nullptr
Wild      == -1   \* a pointer that was never assigned
NoDisplay == 0

FdOrNone == Fds \union {NoFd}

NoFrame == [disp |-> NoDisplay, buf |-> NoBuffer]
Frames  == [disp : Displays, buf : Buffers]

\* What an entry of the process's descriptor table refers to.
Closed      == [kind |-> "closed", crtc |-> 0]
RenderFence == [kind |-> "render", crtc |-> 0]
Signalled   == [kind |-> "signalled", crtc |-> 0]
OutFence(c) == [kind |-> "out", crtc |-> c]

VARIABLES
  pc,               \* where the loop is
  cursor,           \* the display the current for loop is at
  request,          \* request[c]: the display whose state the request holds for c
  modeset,          \* the last commit carried DRM_MODE_ATOMIC_ALLOW_MODESET
  needs_repaint,    \* Display::needs_repaint
  painted,          \* Display::last_frame is not zero
  bufferPending,    \* Display::bufferPending
  bufferLast,       \* Display::bufferLast
  in_use,           \* in_use[d][b]: Buffer::in_use
  commitFenceFD,    \* Display::commitFenceFD
  kms_fence_fd,     \* kms_fence_fd[d][b]: Buffer::kms_fence_fd
  render_fence_fd,  \* render_fence_fd[d][b]: Buffer::render_fence_fd
  fences,           \* fences[f]: the fence that descriptor f refers to
  batch,            \* batch[c]: events read by drmHandleEvent, not yet dispatched
  queued,           \* queued[c]: completion events waiting on the DRM descriptor
  inflight,         \* inflight[c]: the frame committed to c and not yet shown
  screen,           \* screen[c]: the frame c scans out
  rendering         \* the frames the GPU still draws

loopVars    == <<pc, cursor, request, modeset>>
displayVars == <<needs_repaint, painted, bufferPending, bufferLast, in_use>>
fenceVars   == <<commitFenceFD, kms_fence_fd, render_fence_fd, fences>>
eventVars   == <<batch, queued>>
kernelVars  == <<inflight, screen>>
vars == <<loopVars, displayVars, fenceVars, eventVars, kernelVars, rendering>>

-----------------------------------------------------------------------------
(***************************************************************************)
(* Helpers.                                                                *)
(***************************************************************************)
Running == pc \notin {"exited", "aborted"}

\* The for loop over the displays has come to its end.
LoopDone == cursor = NumDisplays + 1

\* Both the KMS and the EGL side support fences for display d.
Fenced(d) == ExplicitFencing[d] /\ EglFencing

Frame(d, b) == [disp |-> d, buf |-> b]

\* Mutant: the search forgets to test in_use.
find_free_buffer_any(d) == {1}

\* The first buffer of the queue that KMS does not own, if there is one.
find_free_buffer(d) ==
  {b \in Buffers : ~in_use[d][b] /\ \A x \in Buffers : x < b => in_use[d][x]}

\* The descriptors a new file may get; which one is left open.
FreeFds(table) == {f \in Fds : table[f] = Closed}

Close(table, fd) == [f \in Fds |-> IF f = fd THEN Closed ELSE table[f]]

linux_sync_file_is_valid(table, fd) == fd \in Fds /\ table[fd] # Closed

\* The displays whose state the request carries: displays that share a CRTC
\* set the same properties of it, and the last one added is kept.
Requested == {request[c] : c \in Crtcs} \ {NoDisplay}

\* Mutant: the search for the display forgets to compare the CRTC.
DisplayOfEvent_first(c) == {1}

\* The display the handler takes an event of CRTC c for: the first one found.
DisplayOfEvent(c) ==
  {d \in Displays : CrtcOf[d] = c /\ \A x \in Displays : CrtcOf[x] = c => d <= x}

\* A failed assertion, or a read through a wild pointer that the MMU catches.
Abort ==
  /\ pc' = "aborted"
  /\ UNCHANGED <<cursor, request, modeset, displayVars, fenceVars, eventVars,
                 kernelVars, rendering>>

-----------------------------------------------------------------------------
(***************************************************************************)
(* The program. It starts after the displays and their buffers are built.  *)
(* The constructor of Display leaves bufferPending, bufferLast and         *)
(* last_frame as it finds them.                                            *)
(***************************************************************************)
Init ==
  /\ pc = "scan" /\ cursor = 1
  /\ request = [c \in Crtcs |-> NoDisplay]
  /\ modeset = FALSE
  /\ needs_repaint = [d \in Displays |-> TRUE]
  /\ painted \in [Displays -> IF HeapZeroed THEN {FALSE} ELSE BOOLEAN]
  /\ bufferPending \in [Displays -> IF HeapZeroed THEN {NoBuffer} ELSE {NoBuffer, Wild}]
  /\ bufferLast \in [Displays -> IF HeapZeroed THEN {NoBuffer} ELSE {NoBuffer, Wild}]
  /\ in_use = [d \in Displays |-> [b \in Buffers |-> FALSE]]
  /\ commitFenceFD = [d \in Displays |-> NoFd]
  /\ kms_fence_fd = [d \in Displays |-> [b \in Buffers |-> NoFd]]
  /\ render_fence_fd = [d \in Displays |-> [b \in Buffers |-> NoFd]]
  /\ fences = [f \in Fds |-> Closed]
  /\ batch = [c \in Crtcs |-> 0]
  /\ queued = [c \in Crtcs |-> 0]
  /\ inflight = [c \in Crtcs |-> NoFrame]
  /\ screen = [c \in Crtcs |-> NoFrame]
  /\ rendering = {}

\* Mutant: the iterator is advanced twice.
SkipOutput_twice(d) ==
  /\ pc = "scan" /\ cursor = d /\ ~needs_repaint[d]
  /\ cursor' = cursor + 2
  /\ UNCHANGED <<pc, request, modeset, displayVars, fenceVars, eventVars, kernelVars,
                 rendering>>

\* if (display.needs_repaint) is false: on to the next display.
SkipOutput(d) ==
  /\ pc = "scan" /\ cursor = d /\ ~needs_repaint[d]
  /\ cursor' = cursor + 1
  /\ UNCHANGED <<pc, request, modeset, displayVars, fenceVars, eventVars, kernelVars,
                 rendering>>

\* Mutant: the descriptor is not set to -1.
ResetCommitFence_not(d) == UNCHANGED commitFenceFD

\* display.commitFenceFD = -1
ResetCommitFence(d) == commitFenceFD' = [commitFenceFD EXCEPT ![d] = NoFd]

\* Mutant: the out-fence of the previous commit is not closed.
CloseCommitFence_not(table, d) == table

\* Asking for a new out-fence closes the one of the previous commit.
CloseCommitFence(table, d) == Close(table, commitFenceFD[d])

\* buffer_egl_fill: EGL takes the fence of the buffer's last commit over and
\* gives out newFd for the drawing, which replaces the one of the last drawing.
DrawFences(d, b, newFd) ==
  LET opened == [Close(fences, kms_fence_fd[d][b]) EXCEPT ![newFd] = RenderFence]
  IN Close(opened, render_fence_fd[d][b])

\* What painting into buffer b does to the fences of display d.
RepaintFences(d, b) ==
  \/ /\ Fenced(d)
     /\ \E newFd \in FreeFds(Close(fences, kms_fence_fd[d][b])) :
          /\ fences' = CloseCommitFence(DrawFences(d, b, newFd), d)
          /\ kms_fence_fd' = [kms_fence_fd EXCEPT ![d][b] = NoFd]
          /\ render_fence_fd' = [render_fence_fd EXCEPT ![d][b] = newFd]
     /\ ResetCommitFence(d)
  \/ /\ ~Fenced(d) /\ ExplicitFencing[d]
     /\ fences' = CloseCommitFence(fences, d)
     /\ ResetCommitFence(d)
     /\ UNCHANGED <<kms_fence_fd, render_fence_fd>>
  \/ /\ ~ExplicitFencing[d]
     /\ UNCHANGED fenceVars

\* The assertions on the fences of buffer b hold: the one it was last
\* committed with is open, and there is a descriptor for the one that EGL
\* gives out for the new drawing.
CanDraw(d, b) ==
  Fenced(d) =>
    /\ kms_fence_fd[d][b] = NoFd \/ linux_sync_file_is_valid(fences, kms_fence_fd[d][b])
    /\ FreeFds(Close(fences, kms_fence_fd[d][b])) # {}

\* repaint_one_output: draw into a free buffer and add the display's state to
\* the request.
repaint_one_output(d) ==
  /\ \E b \in find_free_buffer(d) :
       /\ CanDraw(d, b)
       /\ RepaintFences(d, b)
       /\ rendering' = rendering \union {Frame(d, b)}
       /\ in_use' = [in_use EXCEPT ![d][b] = TRUE]
       /\ bufferPending' = [bufferPending EXCEPT ![d] = b]
  /\ needs_repaint' = [needs_repaint EXCEPT ![d] = FALSE]
  /\ request' = [request EXCEPT ![CrtcOf[d]] = d]
  /\ UNCHANGED <<pc, modeset, painted, bufferLast, eventVars, kernelVars>>

\* Mutant: one output per iteration, the loop breaks after it.
RepaintOutput_break(d) ==
  /\ pc = "scan" /\ cursor = d /\ needs_repaint[d]
  /\ repaint_one_output(d)
  /\ cursor' = NumDisplays + 1

RepaintOutput(d) ==
  /\ pc = "scan" /\ cursor = d /\ needs_repaint[d]
  /\ repaint_one_output(d)
  /\ cursor' = cursor + 1

\* No buffer is free, or an assertion on its fences fails. So does the
\* assertion on any call of the repaint that fails: of the clock, of EGL to
\* make the context current or to make a sync or wait for it, or of
\* drmModeAtomicAddProperty.
RepaintAsserts(d) ==
  /\ pc = "scan" /\ cursor = d /\ needs_repaint[d]
  /\ PaintFaults \/ ~ \E b \in find_free_buffer(d) : CanDraw(d, b)
  /\ Abort

\* The displays of the request that asked for an out-fence.
WantOutFence == {d \in Requested : ExplicitFencing[d]}

\* The kernel refuses a non-blocking commit for a CRTC whose last one is not
\* on the screen yet, and cannot make fences without descriptors.
Refused ==
  \/ \E d \in Requested : inflight[CrtcOf[d]] # NoFrame
  \/ Injection(WantOutFence, FreeFds(fences)) = {}

\* atomic_commit, if output_count is not zero; an empty request changes
\* nothing. The third parameter is a bool and main passes the address of
\* needs_modeset, so ALLOW_MODESET is always set.
Commit ==
  /\ pc = "scan" /\ LoopDone
  /\ ~Refused
  /\ inflight' = [c \in Crtcs |->
                    IF request[c] = NoDisplay THEN inflight[c]
                    ELSE Frame(request[c], bufferPending[request[c]])]
  /\ \E out \in Injection(WantOutFence, FreeFds(fences)) :
       /\ commitFenceFD' = [d \in Displays |->
                              IF d \in WantOutFence THEN out[d] ELSE commitFenceFD[d]]
       /\ fences' = [f \in Fds |->
                       IF \E d \in WantOutFence : out[d] = f
                       THEN OutFence(CrtcOf[CHOOSE d \in WantOutFence : out[d] = f])
                       ELSE fences[f]]
  /\ request' = [c \in Crtcs |-> NoDisplay]
  /\ modeset' = (modeset \/ Requested # {})
  /\ pc' = "fences" /\ cursor' = 1
  /\ UNCHANGED <<displayVars, kms_fence_fd, render_fence_fd, eventVars, screen, rendering>>

\* ret != 0: the loop is left.
CommitFails ==
  /\ pc = "scan" /\ LoopDone /\ Requested # {}
  /\ Refused \/ DeviceFaults
  /\ request' = [c \in Crtcs |-> NoDisplay]
  /\ modeset' = TRUE
  /\ pc' = "restore"
  /\ UNCHANGED <<cursor, displayVars, fenceVars, eventVars, kernelVars, rendering>>

\* Mutant: bufferLast is released when the commit that replaces it is made.
HandoverFence_early(d) ==
  /\ pc = "fences" /\ cursor = d
  /\ IF bufferLast[d] \in Buffers
     THEN /\ fences' = Close(fences, kms_fence_fd[d][bufferLast[d]])
          /\ kms_fence_fd' = [kms_fence_fd EXCEPT ![d][bufferLast[d]] = commitFenceFD[d]]
          /\ in_use' = [in_use EXCEPT ![d][bufferLast[d]] = FALSE]
          /\ ResetCommitFence(d)
     ELSE UNCHANGED <<commitFenceFD, kms_fence_fd, fences, in_use>>
  /\ cursor' = cursor + 1
  /\ UNCHANGED <<pc, request, modeset, needs_repaint, painted, bufferPending, bufferLast,
                 render_fence_fd, eventVars, kernelVars, rendering>>

\* fd_replace on the kms_fence_fd of bufferLast. Behind a wild pointer lies
\* any number: the descriptor that happens to have it is closed, and the new
\* one is written to memory that no member of the model lies in.
ReplaceKmsFence(d) ==
  \/ /\ bufferLast[d] \in Buffers
     /\ fences' = Close(fences, kms_fence_fd[d][bufferLast[d]])
     /\ kms_fence_fd' = [kms_fence_fd EXCEPT ![d][bufferLast[d]] = commitFenceFD[d]]
  \/ /\ bufferLast[d] = Wild
     /\ \E fd \in FdOrNone : fences' = Close(fences, fd)
     /\ UNCHANGED kms_fence_fd

\* The out-fence of the commit signals when bufferLast is off the screen, so
\* it becomes the fence of bufferLast. The loop does this for every display,
\* whether the commit was for it or not.
HandoverFence(d) ==
  /\ pc = "fences" /\ cursor = d
  /\ IF Fenced(d) /\ bufferLast[d] # NoBuffer
     THEN /\ linux_sync_file_is_valid(fences, commitFenceFD[d])
          /\ ReplaceKmsFence(d)
          /\ ResetCommitFence(d)
     ELSE UNCHANGED <<commitFenceFD, kms_fence_fd, fences>>
  /\ cursor' = cursor + 1
  /\ UNCHANGED <<pc, request, modeset, displayVars, render_fence_fd, eventVars, kernelVars,
                 rendering>>

HandoverAsserts(d) ==
  /\ pc = "fences" /\ cursor = d
  /\ Fenced(d) /\ bufferLast[d] # NoBuffer
  /\ \/ ~linux_sync_file_is_valid(fences, commitFenceFD[d])
     \/ bufferLast[d] = Wild
  /\ Abort

\* poll() sleeps until the kernel has queued an event; drmHandleEvent reads
\* all there are (it has room for 32) and then calls the handler for each.
ReadEvents ==
  /\ pc = "fences" /\ LoopDone
  /\ \E c \in Crtcs : queued[c] > 0
  /\ batch' = queued
  /\ queued' = [c \in Crtcs |-> 0]
  /\ pc' = "dispatch"
  /\ UNCHANGED <<cursor, request, modeset, displayVars, fenceVars, kernelVars, rendering>>

PollOrReadFails ==
  /\ pc = "fences" /\ LoopDone
  /\ DeviceFaults
  /\ pc' = "restore"
  /\ UNCHANGED <<cursor, request, modeset, displayVars, fenceVars, eventVars, kernelVars,
                 rendering>>

\* The assertions of atomic_event_handler about display d.
HandlerAssertions(d) ==
  /\ bufferPending[d] \in Buffers
  /\ in_use[d][bufferPending[d]]
  /\ Fenced(d) =>
       /\ linux_sync_file_is_valid(fences, render_fence_fd[d][bufferPending[d]])
       /\ bufferLast[d] \in Buffers =>
            \/ kms_fence_fd[d][bufferLast[d]] = NoFd
            \/ linux_sync_file_is_valid(fences, kms_fence_fd[d][bufferLast[d]])
  /\ bufferLast[d] \in Buffers => in_use[d][bufferLast[d]]

\* Mutants: the old buffer is not released; the new one is released instead.
Released_not(d)   == in_use[d]
Released_wrong(d) == [b \in Buffers |-> b # bufferPending[d] /\ in_use[d][b]]

\* display->bufferLast->in_use = false
Released(d) == [b \in Buffers |-> b # bufferLast[d] /\ in_use[d][b]]

\* atomic_event_handler: the pending buffer is on the screen, and the one it
\* replaced is free.
HandleEvent(c) ==
  /\ pc = "dispatch" /\ batch[c] > 0
  /\ \E d \in DisplayOfEvent(c) :
       /\ HandlerAssertions(d)
       /\ needs_repaint' = [needs_repaint EXCEPT ![d] = TRUE]
       /\ painted' = [painted EXCEPT ![d] = TRUE]
       /\ in_use' = [in_use EXCEPT ![d] = Released(d)]
       /\ bufferLast' = [bufferLast EXCEPT ![d] = bufferPending[d]]
       /\ bufferPending' = [bufferPending EXCEPT ![d] = NoBuffer]
  /\ batch' = [batch EXCEPT ![c] = batch[c] - 1]
  /\ UNCHANGED <<loopVars, fenceVars, queued, kernelVars, rendering>>

\* What a wild bufferLast points to may also fail the assertion on in_use, or
\* not be mapped at all.
HandlerAsserts(c) ==
  /\ pc = "dispatch" /\ batch[c] > 0
  /\ \E d \in DisplayOfEvent(c) : ~HandlerAssertions(d) \/ bufferLast[d] = Wild
  /\ Abort

\* Mutant: back to poll() without repainting.
DispatchDone_poll ==
  /\ pc = "dispatch" /\ \A c \in Crtcs : batch[c] = 0
  /\ pc' = "fences" /\ cursor' = 1
  /\ UNCHANGED <<request, modeset, displayVars, fenceVars, eventVars, kernelVars, rendering>>

\* Every event is dispatched; shall_exit is never set, so the loop goes on.
DispatchDone ==
  /\ pc = "dispatch" /\ \A c \in Crtcs : batch[c] = 0
  /\ pc' = "scan" /\ cursor' = 1
  /\ UNCHANGED <<request, modeset, displayVars, fenceVars, eventVars, kernelVars, rendering>>

\* The terminal is restored and main returns.
Leave ==
  /\ pc = "restore"
  /\ pc' = "exited"
  /\ UNCHANGED <<cursor, request, modeset, displayVars, fenceVars, eventVars, kernelVars,
                 rendering>>

-----------------------------------------------------------------------------
(***************************************************************************)
(* The kernel and the GPU.                                                 *)
(***************************************************************************)

\* Vertical blank: the committed frame is on the screen, its out-fence
\* signals and its completion event is queued. A driver that honours implicit
\* fences waits for the GPU first.
KernelFlip(c) ==
  /\ Running
  /\ inflight[c] # NoFrame
  /\ ImplicitFencing => inflight[c] \notin rendering
  /\ screen' = [screen EXCEPT ![c] = inflight[c]]
  /\ inflight' = [inflight EXCEPT ![c] = NoFrame]
  /\ queued' = [queued EXCEPT ![c] = queued[c] + 1]
  /\ fences' = [f \in Fds |-> IF fences[f] = OutFence(c) THEN Signalled ELSE fences[f]]
  /\ UNCHANGED <<loopVars, displayVars, commitFenceFD, kms_fence_fd, render_fence_fd, batch,
                 rendering>>

\* The GPU has finished a frame.
GpuDone(d, b) ==
  /\ Running
  /\ Frame(d, b) \in rendering
  /\ rendering' = rendering \ {Frame(d, b)}
  /\ UNCHANGED <<loopVars, displayVars, fenceVars, eventVars, kernelVars>>

-----------------------------------------------------------------------------
Program ==
  \/ \E d \in Displays :
       \/ SkipOutput(d) \/ RepaintOutput(d) \/ RepaintAsserts(d)
       \/ HandoverFence(d) \/ HandoverAsserts(d)
  \/ Commit \/ CommitFails
  \/ ReadEvents \/ PollOrReadFails
  \/ \E c \in Crtcs : HandleEvent(c) \/ HandlerAsserts(c)
  \/ DispatchDone \/ Leave

Kernel == \E c \in Crtcs : KernelFlip(c)

Gpu == \E d \in Displays, b \in Buffers : GpuDone(d, b)

Next == Program \/ Kernel \/ Gpu

Spec == Init /\ [][Next]_vars

\* The scheduler runs the thread, every display has vertical blanks, and the
\* GPU finishes what it was given.
Fairness ==
  /\ WF_vars(Program)
  /\ \A c \in Crtcs : WF_vars(KernelFlip(c))
  /\ \A d \in Displays, b \in Buffers : WF_vars(GpuDone(d, b))

FairSpec == Spec /\ Fairness
-----------------------------------------------------------------------------
(***************************************************************************)
(* Properties.                                                             *)
(***************************************************************************)
DisplayOrNone == Displays \union {NoDisplay}
BufferPointer == Buffers \union {NoBuffer, Wild}
Fence         == {Closed, RenderFence, Signalled} \union {OutFence(c) : c \in Crtcs}

\* Every variable holds a value the program or the kernel can give it.
TypeOK ==
  /\ pc \in {"scan", "fences", "dispatch", "restore", "exited", "aborted"}
  /\ cursor \in 1 .. NumDisplays + 1
  /\ request \in [Crtcs -> DisplayOrNone]
  /\ modeset \in BOOLEAN
  /\ needs_repaint \in [Displays -> BOOLEAN]
  /\ painted \in [Displays -> BOOLEAN]
  /\ bufferPending \in [Displays -> BufferPointer]
  /\ bufferLast \in [Displays -> BufferPointer]
  /\ in_use \in [Displays -> [Buffers -> BOOLEAN]]
  /\ commitFenceFD \in [Displays -> FdOrNone]
  /\ kms_fence_fd \in [Displays -> [Buffers -> FdOrNone]]
  /\ render_fence_fd \in [Displays -> [Buffers -> FdOrNone]]
  /\ fences \in [Fds -> Fence]
  /\ batch \in [Crtcs -> Nat]
  /\ queued \in [Crtcs -> Nat]
  /\ inflight \in [Crtcs -> Frames \union {NoFrame}]
  /\ screen \in [Crtcs -> Frames \union {NoFrame}]
  /\ rendering \subseteq Frames

\* No assertion of the loop, of the painting or of the event handler fails
\* (main.cpp:154-182, 230, 308-425, 809), whatever the order in which flips,
\* events and the GPU come.
AssertionsHold == pc # "aborted"

\* A buffer that the kernel scans out or is about to, or that the GPU still
\* draws, is marked in_use, so find_free_buffer never hands it out again
\* ("true if this buffer is currently owned by KMS", Display.hpp:37-40).
KmsOwnsInUse ==
  \A d \in Displays, b \in Buffers :
    \/ \E c \in Crtcs : Frame(d, b) \in {screen[c], inflight[c]}
    \/ ImplicitFencing /\ Frame(d, b) \in rendering
    => in_use[d][b]

\* What is on a screen is never still being drawn: neither did its flip come
\* before the GPU was done, nor did the program start to draw into it again.
ScanoutRendered == \A c \in Crtcs : screen[c] \notin rendering

\* The loop never submits a display whose last commit is still under way or
\* whose completion it has not been told of, so the kernel has no reason to
\* answer EBUSY, which would end the program (main.cpp:796-799).
OneCommitInFlight ==
  \A c \in Crtcs :
    request[c] # NoDisplay => inflight[c] = NoFrame /\ queued[c] = 0 /\ batch[c] = 0

\* When the program sleeps in poll() without a timeout there is something to
\* wake it up: a queued event or a commit that will cause one.
PollNeverStuck ==
  pc = "fences" => \E c \in Crtcs : queued[c] > 0 \/ inflight[c] # NoFrame

\* The program's bookkeeping follows the screen: without an outstanding event
\* bufferLast is what is scanned out, and with one it is bufferPending
\* ("buffer_pending is now being displayed", main.cpp:149-153).
ViewMatchesScreen ==
  \A d \in Displays :
    LET c == CrtcOf[d] IN
      CASE queued[c] + batch[c] = 0 ->
             screen[c] = IF bufferLast[d] = NoBuffer THEN NoFrame ELSE Frame(d, bufferLast[d])
        [] queued[c] + batch[c] = 1 -> screen[c] = Frame(d, bufferPending[d])
        [] OTHER -> FALSE

\* Two of the three buffers of a display are enough for the loop: the third is
\* never drawn into ("we have more buffers than we need", main.cpp:344-347),
\* so the search for a free buffer never fails.
TwoBuffersSuffice == \A d \in Displays : \A b \in Buffers : b > 2 => ~in_use[d][b]

\* The members that hold descriptors, and what each holds.
FenceSlots == ({"commit"} \X Displays \X {NoBuffer}) \union ({"kms", "render"} \X Displays \X Buffers)

Held(s) ==
  CASE s[1] = "commit" -> commitFenceFD[s[2]]
    [] s[1] = "kms"    -> kms_fence_fd[s[2]][s[3]]
    [] s[1] = "render" -> render_fence_fd[s[2]][s[3]]

\* Descriptors are passed from the commit to the buffer to EGL without a second
\* owner or a use after close: no member holds a descriptor that is closed,
\* and no two hold the same.
FencesHeldOnce ==
  /\ \A s \in FenceSlots : Held(s) # NoFd => fences[Held(s)] # Closed
  /\ \A s, t \in FenceSlots : Held(s) = Held(t) /\ Held(s) # NoFd => s = t

\* No descriptor is open that no member holds: the loop can run for ever
\* without exhausting the descriptors of the process.
NoFenceLeak ==
  \A f \in Fds : fences[f] # Closed => \E s \in FenceSlots : Held(s) = f

\* When a buffer is free to be drawn into, the fence of the commit that took it
\* off the screen has signalled, so the wait that EGL is asked for is never
\* needed (main.cpp:344-347).
ReusedFenceSignalled ==
  \A d \in Displays, b \in Buffers :
    ~in_use[d][b] /\ kms_fence_fd[d][b] # NoFd
      => fences[kms_fence_fd[d][b]] = Signalled

\* What FlipChain calls the role of a buffer.
Role(d, b) ==
  IF ~in_use[d][b] THEN "free"
  ELSE IF screen[CrtcOf[d]] = Frame(d, b) THEN "front"
  ELSE IF bufferPending[d] = b THEN "queued"
  ELSE "retired"

roles == [d \in Displays |-> [b \in Buffers |-> Role(d, b)]]

Chain == INSTANCE FlipChain WITH role <- roles

\* The loop, the kernel and the GPU together move the buffers of each display
\* as FlipChain says: at most one queued frame, shown before the next is
\* drawn, and a buffer is only drawn into after the one that replaced it is on
\* the screen and the program has been told.
ImplementsFlipChain == Chain!Spec

\* Each output runs its own repaint loop (main.cpp:783-787): again and again
\* it is asked to repaint and is repainted, and what was painted is shown.
EveryOutputRepaints ==
  \A d \in Displays :
    /\ []<>needs_repaint[d] /\ []<>~needs_repaint[d]
    /\ \A b \in Buffers : (bufferPending[d] = b) ~> (screen[CrtcOf[d]] = Frame(d, b))
-----------------------------------------------------------------------------
(***************************************************************************)
(* The inductive invariant behind the safety properties, for displays that *)
(* have a CRTC each. At any time a display is in one phase of its repaint  *)
(* cycle. What else the program expects of its setup is a premise where it *)
(* is needed: the driver honours implicit fences, and the members of       *)
(* Display start at zero.                                                  *)
(***************************************************************************)
CrtcsApart == \A d, e \in Displays : CrtcOf[d] = CrtcOf[e] => d = e

SaneSetup == CrtcsApart /\ HeapZeroed /\ QueueDepth >= 2

\* The frame the program believes is on the screen.
Shown(d) == IF bufferLast[d] \in Buffers THEN Frame(d, bufferLast[d]) ELSE NoFrame

\* Waiting for its turn in the scan.
Idle(d) ==
  /\ needs_repaint[d] /\ bufferPending[d] \notin Buffers
  /\ request[CrtcOf[d]] = NoDisplay /\ inflight[CrtcOf[d]] = NoFrame
  /\ queued[CrtcOf[d]] + batch[CrtcOf[d]] = 0
  /\ screen[CrtcOf[d]] = Shown(d)

\* Drawn, and in the request that will be committed.
InRequest(d) ==
  /\ ~needs_repaint[d] /\ bufferPending[d] \in Buffers
  /\ request[CrtcOf[d]] = d /\ inflight[CrtcOf[d]] = NoFrame
  /\ queued[CrtcOf[d]] + batch[CrtcOf[d]] = 0
  /\ screen[CrtcOf[d]] = Shown(d)

\* Committed, waiting for the vertical blank.
Committed(d) ==
  /\ ~needs_repaint[d] /\ bufferPending[d] \in Buffers
  /\ request[CrtcOf[d]] = NoDisplay
  /\ inflight[CrtcOf[d]] = Frame(d, bufferPending[d])
  /\ queued[CrtcOf[d]] + batch[CrtcOf[d]] = 0
  /\ screen[CrtcOf[d]] = Shown(d)

\* On the screen; the event has not been handled.
Presented(d) ==
  /\ ~needs_repaint[d] /\ bufferPending[d] \in Buffers
  /\ request[CrtcOf[d]] = NoDisplay /\ inflight[CrtcOf[d]] = NoFrame
  /\ queued[CrtcOf[d]] + batch[CrtcOf[d]] = 1
  /\ screen[CrtcOf[d]] = Frame(d, bufferPending[d])

\* Drawn for a commit that failed; the program is on its way out.
Dropped(d) ==
  /\ pc \in {"restore", "exited"}
  /\ ~needs_repaint[d] /\ bufferPending[d] \in Buffers
  /\ request[CrtcOf[d]] = NoDisplay /\ inflight[CrtcOf[d]] = NoFrame
  /\ queued[CrtcOf[d]] + batch[CrtcOf[d]] = 0
  /\ screen[CrtcOf[d]] = Shown(d)

PhaseInv(d) == Idle(d) \/ InRequest(d) \/ Committed(d) \/ Presented(d) \/ Dropped(d)

\* The buffers in use are the pending and the last one, and these are two of
\* the first two.
BuffersInv(d) ==
  /\ {bufferPending[d], bufferLast[d]} \intersect Buffers \subseteq {1, 2}
  /\ bufferPending[d] \in Buffers => bufferPending[d] # bufferLast[d]
  /\ \A b \in Buffers : in_use[d][b] <=> b \in {bufferPending[d], bufferLast[d]}
  /\ HeapZeroed => Wild \notin {bufferPending[d], bufferLast[d]}

\* A GPU that flips wait for draws pending buffers only, and not after they are
\* on the screen.
RenderInv(d) ==
  \A b \in Buffers :
    ImplicitFencing /\ Frame(d, b) \in rendering
      => b = bufferPending[d] /\ screen[CrtcOf[d]] # Frame(d, b)

\* Where the loop is, as far as display d is concerned.
LoopInv(d) ==
  /\ request[CrtcOf[d]] # NoDisplay => pc \in {"scan", "aborted"}
  /\ batch[CrtcOf[d]] # 0 => pc \in {"dispatch", "aborted"}
  /\ needs_repaint[d] => ~(pc = "scan" /\ d < cursor) /\ pc # "fences"

IInv == \A d \in Displays : PhaseInv(d) /\ BuffersInv(d) /\ RenderInv(d) /\ LoopInv(d)

-----------------------------------------------------------------------------
(***************************************************************************)
(* The inductive invariants behind the fences. The first needs nothing of  *)
(* the setup but that bufferLast is not wild: what fd_replace finds behind *)
(* a wild pointer may be the number of a descriptor that a member holds.   *)
(***************************************************************************)
\* A display in the request that will get an out-fence has closed its last.
AsksWithoutFence ==
  \A c \in Crtcs :
    request[c] # NoDisplay /\ ExplicitFencing[request[c]] => commitFenceFD[request[c]] = NoFd

FenceInv ==
  /\ FencesHeldOnce /\ NoFenceLeak
  /\ AsksWithoutFence
  /\ \A d \in Displays : bufferLast[d] # Wild

\* An out-fence has signalled, or its commit is not on the screen yet.
SignalledOrDue(d, fd) ==
  fences[fd] = Signalled \/ (fences[fd] = OutFence(CrtcOf[d]) /\ inflight[CrtcOf[d]] # NoFrame)

\* An out-fence that is due can only be that of the buffer now scanned out.
SignalInv(d) ==
  /\ commitFenceFD[d] # NoFd => SignalledOrDue(d, commitFenceFD[d])
  /\ \A b \in Buffers :
       kms_fence_fd[d][b] # NoFd =>
         \/ fences[kms_fence_fd[d][b]] = Signalled
         \/ SignalledOrDue(d, kms_fence_fd[d][b]) /\ b = bufferLast[d]

SignalsInv == \A d \in Displays : SignalInv(d)
=============================================================================
