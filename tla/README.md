# A verification project for glplay

glplay puts an animation on every connected display of one DRM device: it
builds a set of buffers per display, paints them with EGL, hands them to KMS in
atomic commits and is driven by the completion events of the kernel. It is one
thread; what makes it hard is everything that runs beside that thread. Vertical
blanks come when each display wants them, the GPU finishes when it is done, the
kernel owns buffers and file descriptors for a while and gives them back, and
the loop has to keep its own idea of all this in step with the facts.

This directory holds TLA+ models of that program, the TLC configurations that
check them, and proofs for TLAPS. Paths below are relative to the repository.

    tlc -config RepaintThreeOutputs.cfg MCRepaintLoop.tla
    tlapm FenceProofs.tla

## 1. The system

The program proper is `src/glplay/main.cpp` and the headers and sources beside
it (about 3300 lines; GSL, the toolchain and the build scripts are vendored or
generated). `main` constructs the adapter, takes a terminal, then loops.

| Component | Where | State it keeps | Operations | Talks to |
|---|---|---|---|---|
| Repaint loop | main.cpp 713-839 | `needs_modeset`, the request of one iteration | scan and repaint, commit, hand over out-fences, poll, dispatch, leave | every display, KMS |
| Event handler | main.cpp 90-190 | none of its own: it changes `bufferPending`, `bufferLast`, `in_use`, `needs_repaint`, `last_frame` of a display | `atomic_event_handler` | called by `drmHandleEvent` inside the loop |
| Painting | main.cpp 223-231, 293-434 | `in_use`, the fences of a buffer | `find_free_buffer`, `buffer_egl_fill` | EGL, GPU |
| Request building | main.cpp 551-712 | `commitFenceFD` | `output_add_atomic_req`, `repaint_one_output`, `atomic_commit` | KMS |
| Frame clock | main.cpp 90-147, 192-221, 625-658 | `last_frame`, `next_frame`, `frame_num` | `advance_frame` | CLOCK_MONOTONIC |
| Time arithmetic | kms/time.hpp | none | add, subtract, convert | - |
| Display | kms/Display.hpp, Display.cpp | the members above, property tables, the mode, buffers | constructors, buffer creation, plane formats | GBM, EGL, KMS |
| Display adapter | kms/DisplayAdapter.hpp/.cpp | DRM descriptor, displays, GBM and EGL devices | constructor | DRM |
| KMS properties | drm/PropertyInfo.hpp, drm.hpp | property ids and enum values | populate, get value | DRM |
| EGL device | egl/EGLDevice.cpp, utils.hpp | context, extensions, shader objects | constructor, GL set-up | EGL |
| EDID | kms/Edid.cpp | decoded names | parse | logs only |
| Virtual terminal | nix/terminal.hpp | descriptors, old mode | find, switch, restore | kernel VT |
| File descriptors | nix/FileDescriptor.cpp | one descriptor | copy, move, close | kernel |

Who acts, and on what:

* The **loop** runs to completion between two `poll`s. It asserts a lot; the
  build is a Debug one (`scripts/build.sh:14-16`, no `NDEBUG`), so a failed
  assertion ends the program and the models treat it so.
* The **kernel** flips each CRTC on its own vertical blank and queues an event.
  Events of several CRTCs are read and dispatched in one batch.
* The **GPU** finishes rendering at any time after `glFlush`.
* Shared between them: the buffers (`in_use`, `bufferPending`, `bufferLast`
  against what is scanned out or in flight), and fence descriptors, which pass
  from the commit to the display, from there to the buffer, from there to EGL.

`shall_exit` is never set anywhere, so the loop ends only by an error or an
assertion.

## 2. What is hard, and what makes each part correct

`PROJECT.json` lists the hazards with their lines. In short:

* *Repaint loop*: a buffer that KMS owns is never drawn into; a display is not
  committed again before its flip; `poll`, which has no timeout, never sleeps
  with nothing to wake it; each display goes on for ever whatever the others
  do; the bookkeeping agrees with the screen at all times.
* *Fences*: each descriptor has one owner, none is lost or used after it was
  closed; a frame does not get on the screen before it is drawn.
* *Frame clock*: the prediction is the first vertical blank with the margin,
  the frame painted belongs to it, rounding and drift do not add up, missed
  refreshes are caught up; all this from members that nothing has initialised.
* *Time arithmetic*: exact and normalised for negative differences too.
* *Set-up* (EGL, displays, buffers): each of many steps may fail with some of the
  others done; a missing extension must stop the program before it draws; the
  loop must not start half built.
* *Virtual terminal*: the loop may be left by any failure of the device, while
  others switch terminals; keyboard and active terminal are given back as they
  were found, and the display shows text.
* *File descriptors*: objects that are copied, moved and assigned in any order
  close each descriptor once.
* *What is computed* (modifiers, EDID texts, requests, refresh interval): right
  for every answer of driver and monitor, widths, junk, absent names and failing
  allocations included.

## 3. Modules

| Module | Models | State and actions against the code |
|---|---|---|
| `RepaintLoop` | main's loop with kernel and GPU | The members of `Display` and `Buffer` are functions of the display (and buffer) with the code's names. `pc` and `cursor` say which `for` loop is where: `SkipOutput`, `RepaintOutput` (all of `repaint_one_output`, with painting and request), `Commit`/`CommitFails`, `HandoverFence`, `ReadEvents`, `HandleEvent` (all of `atomic_event_handler`), `DispatchDone`, `Leave`. Failed assertions are the actions `RepaintAsserts`, `HandoverAsserts`, `HandlerAsserts`. `KernelFlip` and `GpuDone` are external. |
| `FlipChain` | the promise of the loop to each buffer | free, queued, front, retired: the abstract specification that `RepaintLoop` implements. |
| `Session` | main as a whole, main.cpp 713-839, with terminal.hpp | EXTENDS `RepaintLoop`. One action per call that takes the terminal (`find_free_VT`, `get_active_vt`, `ActivateOurs`, `disable_keyboard`, `set_graphics`), `LoopStep` for any step of the loop, then `set_text`, `SwitchBack`; one action for each way in which these throw. `UserSwitches` is somebody else at the keyboard. |
| `FrameClock` | the times of one display | Time is in nanoseconds, handed out as timespecs. `FirstRepaint` and `Repaint` read the clock, `AdvanceStep`/`AdvanceDone` are the turns of the `while` in `advance_frame`, `Vblank` is the handler. The three members start as a record of `Memory`. `Tick` and how long the program takes are external. |
| `BufferAlloc` | Display.cpp 10-38, 117-418 | One action per driver call of `createEGLBuffer` and `createEGLBuffers`, and one for its refusal; `live`, `open` are what exists in the drivers, `buffers` what the program believes. |
| `EglSetup` | EGLDevice.cpp, the constructor | One action per stage of it with its fallbacks; what EGL and GL answer is free, so all combinations of extensions occur. |
| `DisplayAdapter` | DisplayAdapter.cpp, Display.cpp 40-115 | EXTENDS `BufferAlloc` and `EglSetup` and composes them: `EglStep` is a step of the one, `BuildBuffer` of the other, `NewDisplay` the searches of `Display::Display`. `kms` is what KMS was found in. |
| `FileDescriptor` | FileDescriptor.cpp | `fd[o]` of each object over the descriptor table of the process; one action per constructor, assignment and destructor. `lost` records what nobody will close. |
| `Timespec`, `ModeTiming` | time.hpp, Display.cpp 84-91 | operators with the code's names, C division and rounding included. |
| `PropertyInfo`, `InFormats`, `Edid` | drm.hpp 23-168; Display.cpp 442-477; Edid.cpp | the functions as operators, each with the reference it is compared with. |
| `Painting` | main.cpp 233-291 and 483-623; drm/PropertyInfo.hpp | EXTENDS `PropertyInfo`. The quads of a frame; the property tables, the enums that index them, what `output_add_atomic_req` adds to a request through them, and what a frame takes of plane, CRTC and connector. |
| `TimespecLaws`, `Libraries` | what the parts that compute are used for | A behaviour draws subjects for one part (or uses descriptors); each law is an invariant of what can be drawn. |
| `MC...` | TLC instances | values a `.cfg` cannot write. |
| `...Proofs`, `TimespecLemmas` | proofs | section 6. |

How they fit together: `DisplayAdapter` ends where `Session` begins, and
`ReadyForLoop` is the interface: displays with full queues and a live context.
`PlanesApart` and the encoders are where `CrtcOf` of `RepaintLoop` comes from.
`RepaintLoop` and `FrameClock` share the event handler and `repaint_one_output`:
the first keeps everything but the times, the second everything that concerns
times and nothing of the buffers. The link is `painted` (in `RepaintLoop`), which
is "`last_frame` is not zero". `Painting` is the inside of `RepaintOutput`.

Abstractions that matter:

* Pixels and colours are left out.
* In `RepaintLoop` a request carries the frame of a display; `RequestShowsFrame`
  says which properties, found under which ids, that stands for, and that
  nothing less gets past the assertions. A driver without one of the properties
  ends the program in its first repaint, as `PaintFaults` does.
* A file descriptor is a member of `Fds`; `fences[f]` says what it refers to.
  A new file may get any free number, so a stale number can come to mean
  something else. Running out of numbers is possible.
* Members without an initialiser (`bufferPending`, `bufferLast`, `last_frame`)
  are null if the memory was zero (`HeapZeroed`) and otherwise null or *wild*. A
  wild pointer that is followed may abort the program. If it does not, what is
  read through it is anything and what is written through it lands in memory that
  no variable stands for: `fd_replace` on a wild `bufferLast` (`ReplaceKmsFence`)
  closes any descriptor there is and loses the one it writes. Were the closed
  number the DRM descriptor's, the commit or `poll` that follows fails, as under
  `DeviceFaults`. The strings of `Edid` are `Unset`.
* In `FrameClock`, `last_frame`, `next_frame` and `frame_num` start as a record of
  `Memory`: times that were never normalised, before or after the clock, frames
  that are negative or whose increment overflows. The first frame is painted
  with whatever `frame_num` holds; `QuadsTile` is proved for every integer.
* The constant `CrtcOf` allows two connectors on one CRTC.
* Fault injection: with `DeviceFaults` commits, `poll` and `drmHandleEvent` may
  fail; with `PaintFaults` so may what `repaint_one_output` calls and asserts to
  have worked, in any repaint: `clock_gettime`, `eglMakeCurrent`, the lookups of
  the EGL entry points, making a sync, waiting for it, taking its descriptor, and
  `drmModeAtomicAddProperty` (main.cpp 307-425, 490-499, 622, 631). Each ends the
  program. `AssertionsHold` cannot hold then, so the runs and theorems about it
  are without `PaintFaults`.
* The process has one thread, and nothing is persisted: there is no restart, and
  the only crash is an exception or a failed assertion, after which nothing runs.
* The characters of an EDID text are told apart by what `parse_string` does with
  them. `isprint` of a negative `char` is undefined: either answer is possible.
  The same goes for the shift of an `int` past its width in `InFormats`.
* Narrowing is modelled: `refreshIntervalNsec_of` takes the frequency modulo
  `UINT_RANGE`, as the `uint32_t` parameter of `millihzToNsec` does, and yields
  nothing for the zero for which that throws.

## 4. What is checked

| Run | Bounds | What it shows |
|---|---|---|
| `RepaintThreeOutputs` | 3 displays with own CRTCs, 3 buffers each, KMS fences on two of them, none in EGL, 2 descriptors, faults | No assertion fails, KMS's buffers stay `in_use`, what is scanned out is rendered, one commit per CRTC, `poll` never stuck, bookkeeping equals screen, two buffers suffice, no descriptor is lost; the loop implements `FlipChain`. |
| `Session` | 1 display, fences on both sides, 5 descriptors, faults; 3 terminals in every mode | The full cycle of the descriptors: commit to display to buffer to EGL, each held once and none lost; the fence of a free buffer has signalled; no assertion fails; a loop that is left gives the terminal back. |
| `RepaintHostile` | 2 displays with fences on both sides, uninitialised members, 6 descriptors (3 for each display, where 5 always suffice), device faults and paint faults | Every assertion can fail here and a wild pointer may close any descriptor; where the program goes on, buffers are released and drawn again, and it does not draw into one KMS owns. |
| `RepaintLiveness` | 2 displays, fair | Each display repaints and shows what it painted for ever; deadlock is checked. |
| `FrameTiming` | refresh 12 units, true period 13, second of 20, microsecond of 2, tolerance 3, 3 frames, ints up to 7; four contents of the memory (`Leftover`); a punctual program and one up to two refreshes late; 80 units of time | Prediction tight, frame of the prediction, the loop ends; a punctual program misses no frame and its animation is linear. Some six frames go by, over three carries of the second and a wrap-around or two of the animation. |
| `AdapterConstruction` | 2 connectors, encoders and CRTCs, 3 planes, 2 buffers per display, every answer of EGL, every driver call may fail | Whatever fails, nothing of the failed buffer is left; framebuffers are described as their buffer objects are laid out; no buffer is imported without the extensions; planes are apart; what reaches the loop is complete. A plane and a CRTC may each have its fence property or not. |
| `Libraries` | second of 6, int of 4 bits over masks of 8, texts of 5 characters, 3 objects on 3 descriptors, every small subject | Time arithmetic, property values, modifiers, EDID texts, quads, requests and refresh interval against a reference each; descriptors owned once. |
| `OutOfPhaseFences` | 2 displays, fences on both sides | **Violated**: the handover asserts for a display that was not in the commit. |
| `UnsetPointers` | 1 display, uninitialised members | **Violated**: the first completion follows a wild pointer. |
| `SharedCrtc` | 2 connectors, one CRTC, fair | **Violated**: the second display freezes. |
| `RefusedBuffer` | a queue of 3, 2 descriptors | **Violated**: a buffer that KMS refused is destroyed and stays in the queue. |
| `FrameMissed` | as `FrameTiming` with 4 frames and memory that was zero, painting may be slow | **Violated**: after a miss the animation stays behind. |

The violated ones are in `PROJECT.json` under "findings" with the text in the
repository they contradict.

*Are the bounds enough?* Displays interact only through the scan, the common
commit and the batch of events; two show every pairwise order and three add the
case of one display between two others. Three buffers is the program's
`BUFFER_QUEUE_DEPTH`. State is finite without further bounds: nothing in
`RepaintLoop` counts without limit. Three terminals are ours, the one that was
active and one somebody else switches to. A second connector is what it takes
for a plane or a queue to be mixed up; the third plane is one that belongs to no
CRTC. In `Libraries` an int is narrower than a mask, so the shift fits, hits the
sign bit and overflows; a text is long enough to end early and to be dropped;
drivers list their properties in either order, with one missing or one unknown;
and a third object is needed for two to disagree about what the third holds.

In `FrameClock` the clock stops at `Horizon`, so deadlock is not checked there;
nor where `DeviceFaults`, an assertion, an exception or the last drawn subject
lets the program end. The unit sizes in `FrameClock` keep the ratios that
matter (a refresh is a few times the 4 ms margin, a second is not a multiple of a
refresh, the period is not the mode's), and the proofs remove them. The symmetry
on descriptors is used only in runs without liveness.

*Fairness.* `RepaintLoop!FairSpec` assumes weak fairness of the program as a
whole (a single thread that the scheduler runs), of each CRTC's flip (vertical
blanks recur) and of each rendering (the GPU finishes). Not of individual
actions of the program, nor of faults. `FrameClock!FairSpec` assumes weak
fairness of the program only.

## 5. Findings

1. `main.cpp:809` asserts `linux_sync_file_is_valid(display.commitFenceFD)` for
   every display after every commit. With fences on both sides and two displays
   whose events come in different batches, one was not in the commit and has -1.
2. `Display.hpp:131-132`: `bufferLast` has no initial value and the handler
   tests it against null; so does the handover of fences, which closes the
   number it finds behind it.
3. `Display.cpp:180`: when KMS refuses a framebuffer the buffer is destroyed and
   joins the queue all the same. The clean-up calls `RmFB` with an `fb_id`
   nothing has set; in the usual build it is the previous buffer's, whose
   framebuffer goes too.
4. `main.cpp:106`: two connectors on one CRTC, which `DisplayAdapter` accepts,
   starve the second.
5. `main.cpp:214`: the animation does not catch up after a missed frame, against
   the comment at 193-194.

Seen on the way and not given a run, because reading the line settles it:

* `main.cpp:794` passes `&needs_modeset` for a `bool`, so every commit carries
  `ALLOW_MODESET`, against the comment at 674-679.
* `main.cpp:569`: `&& false` keeps the render fence from KMS. With a driver that
  does not wait for implicit fences (`ImplicitFencing = FALSE`) `ScanoutRendered`
  fails.
* `Display.cpp:107-110` says the EGL renderer clears `explicitFencing`; nothing
  does. Out-fences are then asked for and closed unused.
* `Display.cpp:241`: the modifier is a constant, not the one GBM chose (198-204).
* `Display.cpp:469`: `FormatsExact` has the premise `ShiftFits`. From the 31st
  format of an entry's window on, `1 << (idx - offset)` selects other bits or is
  undefined.
* `FileDescriptor.cpp:59`: move assignment duplicates the descriptor and forgets
  the original, which is never closed (`lost`). The program never uses it.
* `EGLDevice.cpp:65`: a missing extension costs the context but not the
  constructor. `ExtensionsEnforced` holds only because the assertion on
  `eglMakeCurrent` fails later on.
* `main.cpp:723`: when `set_graphics` throws, nothing turns the keyboard on again
  that `disable_keyboard` turned off in the line before.
* `terminal.hpp`, `set_text`: the display is put in text mode whatever mode
  `set_graphics` found it in; `TerminalRestored` says so of the display and "as
  found" of the keyboards and the active terminal.
* `Display.cpp:436-438` prints the texts of the EDID that no descriptor set.

## 6. What is proved

**The loop**, for every number of displays, buffers, CRTCs and descriptors:

* `RepaintLoopProofs!TypeCorrect`: the type invariant, from `ConstantsOK` only.
* `LoopSafe` and its parts (`KmsAlwaysOwnsInUse`, `OneCommitAlwaysInFlight`,
  `PollNeverGetsStuck`, `TwoBuffersAlwaysSuffice`) from `CrtcsApart`: each
  display has a CRTC of its own. Nothing else is assumed: pointers may be wild
  at the start, the queue may have a single buffer, every device and EGL call may
  fail, the driver need not wait for the GPU. A wild `bufferLast` can end the
  program or close a descriptor (finding 2), but as long as what is written
  through it hits nothing the model keeps, the program does not draw into what
  KMS owns before that.
* `ScanoutAlwaysRendered` needs a driver that honours implicit fences as well,
  `ViewAlwaysMatchesScreen` members that start at zero.
* `Refinement`: the loop, kernel and GPU implement `FlipChain`, from `CrtcsApart`.
* `NoAssertionFails`: no assertion fails, with `SaneSetup` (`CrtcsApart`, members
  that start at zero, two buffers or more), without EGL fences on any display
  that has KMS fences, and as long as the calls of EGL succeed (`~PaintFaults`).
  With fences, see `SoloNeverAsserts` below.

None of the safety properties is inductive. The invariant `IInv` says that each
display is in exactly one phase: `Idle` (waiting for its turn), `InRequest`
(painted, not committed), `Committed` (in flight), `Presented` (on the screen,
event not handled), or `Dropped` (painted for a commit that failed). Each phase
fixes `needs_repaint`, `bufferPending`, the request, the flight, the events
and the screen together. `BuffersInv` says that the buffers in use are exactly
the pending and the last one and that they are among the first two; `RenderInv`
that the GPU only draws a pending buffer not yet on the screen; `LoopInv` ties
the phases to where the loop is. `FlipChain`'s steps are phase changes.

`IInv` is inductive from `CrtcsApart` alone: "pending" is a pointer to a buffer,
which neither null nor a wild pointer is, `RenderInv` has the driver's waiting as
a premise and `BuffersInv` the zeroed members. Two displays on one CRTC have no
phases: finding 4 shows what happens then.

**The fences** (`FenceProofs`), for the same constants:

* `FencesAlwaysHeldOnce` and `NoFenceEverLeaks` if the members of the displays
  start at zero (`HeapZeroed`), shared CRTCs and faults included;
  `ReusedAlwaysSignalled` from `CrtcsApart` as well. `HeapZeroed` is needed: with a
  wild `bufferLast`, `fd_replace` closes a number that another member may hold and
  drops the one it was given.
* The members of `Display` and `Buffer` that hold descriptors are the "slots". A
  step does one of four things to them: it draws, closes, commits or hands over.
  Each is a lemma about any set of holders. `FenceInv` adds to the properties
  that a display in the request with KMS fences has closed its last out-fence
  (otherwise the commit would overwrite one) and that `bufferLast` is not wild.
  `SignalsInv` says that an out-fence that has not signalled is that of a
  commit in flight and of `bufferLast`: it needs the phases of `IInv`.
* With `SaneSetup`, fences on both sides, five descriptors for each display
  (`EnoughFds`: an out-fence and two fences for each of the two buffers in use) and,
  where assertions are concerned, no failing call of EGL (`~PaintFaults`):
  `OnlyHandoverEverAsserts` (of all assertions only that of `main.cpp:809` can
  fail, which is finding 1), `SoloNeverAsserts` (with one display that one
  cannot), `CommitAlwaysAccepted` (the kernel has no reason to refuse a commit),
  `LoopNeverLeft` and `SoloRunsForever` (without a fault of the device the loop
  is not left, and with one display the program does not stop at all).
  `RenderFenceInv` says that what was drawn and not yet shown has a fence,
  `SpareInv` that the third buffer and those after it never have one, so that by
  `NoFenceLeak` the open descriptors are no more than the slots of two buffers
  and counting gives a free one. `SoloInv` says why one display is special:
  every iteration commits it, so the fence that is handed over was just made.

**The whole program** (`SessionProofs`): `SessionRunsLoop` (main refines the loop,
so all of the above holds of it), `SessionSafe`, `SessionFences`,
`SessionNeverAsserts`, and `TerminalAlwaysRestored` for any number of terminals. `SessionInv` follows what
was taken from stage to stage: up to `disable_keyboard` nothing has changed, then
exactly our keyboard is off and `orig_mode` is what it had. The theorem gives back
the keyboards and the active terminal as they were found; of the display it says
text, whatever was found.

**Set-up**, for every length of the queues, supply of descriptors, number of
connectors, CRTCs and planes, and whatever the drivers and EGL answer:

* `BufferAllocProofs!TypeCorrect`, `NothingEverLeftBehind`,
  `ModifiersAlwaysAgree`, `AcceptedAlwaysUsable`. The invariant says for each
  step which objects of the buffer under way exist (`Settled`, `HasBo`,
  `HasImage`) next to those of the queue that were not refused.
* `DisplayAdapterProofs!AdapterBuilds` (the constructor refines `BufferAlloc`),
  `AdapterLeavesNothing`, `AdapterRecords`, `ExtensionsAlwaysEnforced`, `PlanesAlwaysApart`,
  `AlwaysReadyForLoop`. `AdapterIInv` has a part for each: once an extension is
  missing the context is destroyed and no buffer gets past its image; the
  connectors of the displays are below the one whose turn it is and the queue
  has a full share for each; a display's plane is on its CRTC.

**Times**, for every refresh interval, animation length, schedule and unit:
`FrameClockProofs!TypeCorrect`, `PredictionAlwaysTight`, `FrameAlwaysOfPrediction`,
whatever the members of the display held at the start (`Memory`). `TypeCorrect`
says what is left of that: times are normalised once a completion was seen, and
a frame number is a remainder of C, so above minus the number of frames and below
it, or still what the memory held. The invariant: the prediction is a whole number *k* of intervals after the last
completion and the frame is *k* after the one on the screen (`OnGrid`), and no
earlier prediction would do (`NoneEarlier`). Frames are compared modulo the length
of the animation (`Congruent`), which the remainder of C respects for negative
numbers too; `FrameAlwaysOfPrediction` and `AlwaysLinearWhenPunctual` except the one
number whose increment overflows an `int`.

`FramesAlwaysOnTime` and `AlwaysLinearWhenPunctual` are about a schedule that is
`Punctual`: it wakes and paints within the period, early enough for the margin
of `advance_frame`, and the period is the mode's to within the tolerance and a
microsecond. `PunctualInv` says what then never changes: the last completion is
the time at which the frame on the screen came there, cut to the microsecond;
the next vertical blank is less than a period away; and the frame shown is *m*
on from the first if *m* periods have gone by (`Steady`). Hence *k* is always 1,
the error of a prediction is that of one interval and does not add up, and the
animation is linear. `ClockOK` asks that a period is not shorter than a
microsecond: event times could not tell two vertical blanks apart otherwise.

**What is computed** (`LibraryProofs`): `AddAlwaysExact`, `SubAlwaysExact` and
`MsecAlwaysFloor` on the lemmas of `TimespecLemmas`; `DescriptorsAlwaysOwned` for
any number of objects, with the strengthening that a lost descriptor stays open
and so is never given out again; `FormatsAlwaysExact`, `QuadsAlwaysTile` and
`RefreshAlwaysNearest` for every subject of their type. `RequestAlwaysShowsFrame` is
about three things that must fit: the enums by which the request is built, the
order of the tables they index, and the ids the driver has for the tables' names.
`EntryNamed` says that the entry found for a name has the driver's id of that
name, `ChangesKnown` and `ChangesIntended` that the changes asked for are those the
frame takes, and `RequestExact` puts them together.
`ValueAlwaysFound` holds for what the kernel can describe (`Described`: one
description per property, no name twice on an object, in an enum or in the
table), and `EdidAlwaysExact` for every blob with the length and header that the
parser accepts (`Blobs`), whatever the length of its texts. The table's search
and the cut of a text are a least or greatest place in a sequence, and
`LeastExists` and `GreatestExists` are the lemmas about those.

The assumptions on constants (`ConstantsOK`, `QueueOK`, `AdapterOK`, `UnitsOK`,
`DrawsOK`, `ClockOK`, `TableOK`, `TextOK`, `WidthsOK`, `TimingUnitsOK`, `SubjectsOK`) are
evaluated by TLC in the runs.

*Only model-checked*: the properties that need fairness or speak of it
(`EveryOutputRepaints`, `AdvanceEnds`), which the prover does not deal with:
`SoloRunsForever` says that the program never stops, not that it gets anywhere.
And the findings, which are counterexamples. Every invariant and action property
of a passing run is stated by a theorem; what each theorem assumes beyond the
named assumptions on constants is in its statement.

## 7. What is not modelled

* Vendored code, build files, logging, shader sources and GL state.
* The DRM and GBM handle wrappers: a `shared_ptr` or `unique_ptr` with a deleter
  each and no state of their own.
* The helpers of `time.hpp` that nothing calls (microseconds, protocol words,
  comparison), and the copies and moves of `Edid`, which nothing uses.
* `needs_modeset` (main.cpp:794, above): the model records the flag; whether a
  commit carries it makes no difference to the buffers.
* `mode_blob_create` and `getDevicePaths` are driver calls that succeed or fail,
  as part of `DisplayFails` and `OpenFails`.
* Unplugged connectors and other masters: the program does not listen for either.
* 64-bit overflow of times, and times that were never set whose nanoseconds do not
  fit: see `Timespec`.
