------------------------ MODULE DisplayAdapterProofs -------------------------
(***************************************************************************)
(* What DisplayAdapter hands to the repaint loop, for any number of        *)
(* connectors, CRTCs and planes, any depth of the queues and whatever KMS, *)
(* EGL and the drivers answer.                                             *)
(***************************************************************************)
EXTENDS DisplayAdapter, BufferAllocProofs

-----------------------------------------------------------------------------
(***************************************************************************)
(* The constructor builds buffers the way BufferAlloc says.                *)
(***************************************************************************)
LEMMA AdapterStepBuilds == AdapterNext => [Next]_vars
BY DEF AdapterNext, OpenDevice, OpenFails, EglStep, BecomeMaster, NotMaster, SkipConnector,
       NewDisplay, DisplayFails, BuildBuffer, QueueBuilt, Finish, Give

\* Every behaviour of the constructor, with its devices, connectors and early
\* returns, is one of BufferAlloc as far as the buffers are concerned.
THEOREM AdapterBuilds == AdapterSpec => Spec
<1>1. AdapterInit => Init
  BY DEF AdapterInit
<1>2. [AdapterNext]_allVars => [Next]_vars
  BY AdapterStepBuilds DEF allVars
<1> QED
  BY <1>1, <1>2, PTL DEF AdapterSpec, Spec

\* So whatever fails during the whole construction, nothing of a buffer that
\* was not completed is left (Display.cpp:30-38).
THEOREM AdapterLeavesNothing == AdapterSpec => []NothingLeftBehind
BY AdapterBuilds, NothingEverLeftBehind, PTL

\* And the queues of all the displays hold buffers that KMS was told the truth
\* about: with a modifier if they were laid out for one, and, if none was
\* refused, each with a framebuffer of its own (Display.cpp:117-182).
THEOREM AdapterRecords == AdapterSpec => [](ModifiersAgree /\ AcceptedAllUsable)
BY AdapterBuilds, ModifiersAlwaysAgree, AcceptedAlwaysUsable, PTL

-----------------------------------------------------------------------------
(***************************************************************************)
(* The inductive invariant.                                                *)
(***************************************************************************)
DisplayRecord == [connector : Connectors, crtc : Crtcs, primary_plane : Planes,
                  explicitFencing : BOOLEAN]

AdapterType ==
  /\ kms \in KmsStates
  /\ connector \in Nat
  /\ displays \in Seq(DisplayRecord)

\* EGL comes first, and what it lacks costs the context.
EglInv ==
  /\ stage \in {"device", "egl"} => step # "built"
  /\ stage \in {"master", "connectors", "buffers", "ready"} => step = "built"
  /\ step # "built" => pc = "bo" /\ buffers = <<>> /\ live.img = {}
  /\ step \in {"context", "program", "built"} => ctx \in {"live", "destroyed"}
  /\ step \in {"program", "built"} /\ Missing => ctx = "destroyed"
  /\ ctx = "destroyed" => live.img = {} /\ buffers = <<>> /\ pc # "addfb"

\* The connectors are looked at in order, and each display gets its queue
\* before the next connector's turn.
OrderInv ==
  /\ stage \in {"device", "egl", "master"} => pc = "bo" /\ buffers = <<>> /\ displays = <<>>
  /\ stage \in {"connectors", "ready"} => QueueFull
  /\ stage = "ready" => displays # <<>>
  /\ stage = "connectors" => \A i \in DOMAIN displays : displays[i].connector < connector
  /\ \A i \in DOMAIN displays : displays[i].connector <= connector
  /\ \A i, j \in DOMAIN displays : i < j => displays[i].connector < displays[j].connector

\* The plane of a display is on its CRTC.
PlaneInv ==
  \A i \in DOMAIN displays : kms.plane[displays[i].primary_plane].crtc_id = displays[i].crtc

AdapterIInv == IInv /\ AdapterType /\ EglInv /\ OrderInv /\ PlaneInv

LEMMA AdapterInitEstablishes == AdapterInit => AdapterIInv
<1> SUFFICES ASSUME AdapterInit PROVE AdapterIInv
  OBVIOUS
<1>1. AdapterType
  BY AdapterOK DEF AdapterInit, AdapterType
<1>2. EglInv
  BY DEF AdapterInit, EglInv, Init, EglInit
<1>3. OrderInv
  BY DEF AdapterInit, OrderInv, Init
<1>4. PlaneInv
  BY DEF AdapterInit, PlaneInv
<1>5. IInv
  BY InitEstablishes DEF AdapterInit
<1> QED
  BY <1>1, <1>2, <1>3, <1>4, <1>5 DEF AdapterIInv

\* A display is made for the connector whose turn it is and the CRTC of its
\* encoder, with a plane that is on this CRTC.
LEMMA NewDisplayAppends ==
  ASSUME AdapterType, NewDisplay
  PROVE  \E d \in DisplayRecord : /\ displays' = Append(displays, d)
                                  /\ d.connector = connector
                                  /\ kms.plane[d.primary_plane].crtc_id = d.crtc
<1> USE DEF AdapterType
<1>1. PICK c \in findCrtcForEncoder(connector), p \in Planes :
        /\ p \in findPrimaryPlaneForCrtc(c)
        /\ displays' = Append(displays, [connector |-> connector, crtc |-> c, primary_plane |-> p,
                                         explicitFencing |-> kms.in_fence[p] /\ kms.out_fence[c]])
  BY DEF NewDisplay, findPrimaryPlaneForCrtc
<1>2. c \in Crtcs /\ (kms.in_fence[p] /\ kms.out_fence[c]) \in BOOLEAN /\ connector \in Connectors
  BY DEF NewDisplay, findCrtcForEncoder, KmsStates
<1>3. kms.plane[p].crtc_id = c
  BY <1>1 DEF findPrimaryPlaneForCrtc
<1> DEFINE fenced == kms.in_fence[p] /\ kms.out_fence[c]
<1> DEFINE made == [connector |-> connector, crtc |-> c, primary_plane |-> p, explicitFencing |-> fenced]
<1>4. fenced \in BOOLEAN
  BY <1>2
<1>5. displays' = Append(displays, made)
  BY <1>1, Zenon
<1> HIDE DEF fenced
<1>6. made \in DisplayRecord /\ made.connector = connector /\ made.primary_plane = p /\ made.crtc = c
  BY <1>2, <1>4 DEF DisplayRecord
<1> HIDE DEF made
<1> QED
  BY <1>3, <1>5, <1>6

\* Only two actions touch what KMS shows, the connector or the displays.
LEMMA AdapterTypePreserved == AdapterIInv /\ [AdapterNext]_allVars => AdapterType'
<1> SUFFICES ASSUME AdapterIInv, [AdapterNext]_allVars PROVE AdapterType'
  OBVIOUS
<1> USE DEF AdapterIInv, AdapterType
<1>1. CASE UNCHANGED <<kms, connector, displays>>
  BY <1>1
<1>2. CASE SkipConnector \/ QueueBuilt
  BY <1>2 DEF SkipConnector, QueueBuilt
<1>3. CASE NewDisplay
  BY <1>3, NewDisplayAppends DEF NewDisplay
<1> QED
  BY <1>1, <1>2, <1>3
     DEF AdapterNext, OpenDevice, OpenFails, EglStep, BecomeMaster, NotMaster, DisplayFails,
         BuildBuffer, Finish, Give, adapterVars, allVars

\* Importing an image needs a context that is not destroyed, and only an
\* imported buffer joins the queue.
LEMMA BuildBufferNeedsContext ==
  ASSUME TypeOK, BuildBuffer, ctx = "destroyed", live.img = {}, buffers = <<>>, pc # "addfb"
  PROVE  live'.img = {} /\ buffers' = <<>> /\ pc' # "addfb"
<1> USE DEF BuildBuffer, TypeOK, Objects
<1>1. CASE ImportImage
  BY <1>1 DEF ImportImage
<1>2. CASE AddFB2 \/ AddFB2Fails \/ DestroyAsserts
  BY <1>2 DEF AddFB2, AddFB2Fails, DestroyAsserts
<1>3. CASE CreateWithModifiers \/ CreatePlain
  BY <1>3 DEF CreateWithModifiers, CreatePlain, NewBuffer
<1>4. CASE CreateFails \/ GetHandle \/ handle_to_fd \/ GetStride \/ ImportAsserts
  BY <1>4 DEF CreateFails, GetHandle, handle_to_fd, GetStride, ImportAsserts, objectVars
<1>5. CASE failOnBOCreationError
  BY <1>5 DEF failOnBOCreationError
<1> QED
  BY <1>1, <1>2, <1>3, <1>4, <1>5 DEF Next

LEMMA EglStepPreserves == AdapterIInv /\ EglStep => EglInv'
<1> SUFFICES ASSUME AdapterIInv, EglStep PROVE EglInv'
  OBVIOUS
<1>1. /\ stage = "egl" /\ step # "built"
      /\ pc' = "bo" /\ buffers' = <<>> /\ live'.img = {}
  BY DEF AdapterIInv, EglInv, EglStep, vars, objectVars
<1>2. stage' = IF step' = "built" THEN "master"
               ELSE IF step' \in {"thrown", "aborted"} THEN step' ELSE "egl"
  BY DEF EglStep
<1>3. /\ step' \in {"context", "program", "built"} => ctx' \in {"live", "destroyed"}
      /\ step' \in {"program", "built"} /\ Missing' => ctx' = "destroyed"
  <2> USE DEF AdapterIInv, EglInv
  <2>1. CASE initializeDisplay \/ QueryExtensions \/ ChooseConfig \/ FallBack \/ EglThrows \/ EglAsserts
    BY <2>1 DEF initializeDisplay, QueryExtensions, ChooseConfig, FallBack, EglThrows, EglAsserts
  <2>2. CASE CreateContext
    BY <2>2 DEF CreateContext
  <2>3. CASE CheckExtensions
    BY <2>3 DEF CheckExtensions, Missing
  <2>4. CASE BuildProgram
    BY <2>4 DEF BuildProgram, Missing
  <2> QED
    BY <2>1, <2>2, <2>3, <2>4 DEF EglStep, EglNext
<1> QED
  BY <1>1, <1>2, <1>3 DEF EglInv

LEMMA EglPreserved == AdapterIInv /\ [AdapterNext]_allVars => EglInv'
<1> SUFFICES ASSUME AdapterIInv, [AdapterNext]_allVars PROVE EglInv'
  OBVIOUS
<1>1. CASE EglStep
  BY <1>1, EglStepPreserves
<1>2. CASE BuildBuffer
  <2>1. UNCHANGED <<stage, step, gl_exts, explicit_fencing, ctx>> /\ step = "built"
    BY <1>2 DEF BuildBuffer, eglVars, adapterVars, AdapterIInv, EglInv
  <2>2. ctx = "destroyed" => live'.img = {} /\ buffers' = <<>> /\ pc' # "addfb"
    BY <1>2, BuildBufferNeedsContext DEF AdapterIInv, IInv, EglInv
  <2>3. Missing' <=> Missing
    BY <2>1 DEF Missing
  <2> QED
    BY <2>1, <2>2, <2>3 DEF AdapterIInv, EglInv
<1>3. CASE /\ UNCHANGED <<vars, eglVars>>
           /\ stage' \in {"connectors", "buffers", "ready"} =>
                stage \in {"master", "connectors", "buffers", "ready"}
           /\ stage' \in {"device", "egl"} => stage \in {"device", "egl"}
           /\ stage' # "master" \/ stage = "master"
  <2>1. Missing' <=> Missing
    BY <1>3 DEF Missing, eglVars
  <2> QED
    BY <1>3, <2>1 DEF AdapterIInv, EglInv, vars, objectVars, eglVars
<1>4. OpenDevice \/ OpenFails \/ BecomeMaster \/ NotMaster \/ SkipConnector \/ NewDisplay
        \/ DisplayFails \/ QueueBuilt \/ Finish \/ UNCHANGED allVars
        => /\ UNCHANGED <<vars, eglVars>>
           /\ stage' \in {"connectors", "buffers", "ready"} =>
                stage \in {"master", "connectors", "buffers", "ready"}
           /\ stage' \in {"device", "egl"} => stage \in {"device", "egl"}
           /\ stage' # "master" \/ stage = "master"
  BY DEF OpenDevice, OpenFails, BecomeMaster, NotMaster, SkipConnector, NewDisplay, DisplayFails,
         QueueBuilt, Finish, Give, allVars, adapterVars
<1> QED
  BY <1>1, <1>2, <1>3, <1>4 DEF AdapterNext

LEMMA ConnectorsAreNumbers ==
  ASSUME AdapterType
  PROVE  \A i \in DOMAIN displays : displays[i].connector \in Nat
<1> SUFFICES ASSUME NEW i \in DOMAIN displays PROVE displays[i].connector \in Nat
  OBVIOUS
<1>1. displays[i] \in DisplayRecord
  BY DEF AdapterType
<1>2. displays[i].connector \in Connectors
  BY <1>1 DEF DisplayRecord
<1> QED
  BY <1>2, AdapterOK DEF Connectors

\* A connector's turn ends when its queue is full, so its display is the only
\* one whose queue may not be.
LEMMA OrderPreserved == AdapterIInv /\ [AdapterNext]_allVars => OrderInv'
<1> SUFFICES ASSUME AdapterIInv, [AdapterNext]_allVars PROVE OrderInv'
  OBVIOUS
<1> USE DEF AdapterIInv, AdapterType, OrderInv
<1>1. CASE BuildBuffer
  BY <1>1 DEF BuildBuffer, adapterVars
<1>2. CASE NewDisplay
  <2>1. PICK d \in DisplayRecord : displays' = Append(displays, d) /\ d.connector = connector
    BY <1>2, NewDisplayAppends
  <2>2. \A i \in DOMAIN displays' : displays'[i] = IF i = Len(displays) + 1 THEN d ELSE displays[i]
    BY <2>1
  <2>3. DOMAIN displays = 1 .. Len(displays) /\ DOMAIN displays' = 1 .. Len(displays) + 1
    BY <2>1
  <2>4. stage' = "buffers" /\ UNCHANGED connector /\ stage = "connectors"
    BY <1>2 DEF NewDisplay
  <2>5. \A i \in DOMAIN displays : displays[i].connector < connector /\ displays[i].connector \in Nat
    BY <2>4, ConnectorsAreNumbers
  <2>6. \A i \in DOMAIN displays' : displays'[i].connector <= connector'
    BY <2>1, <2>2, <2>3, <2>4, <2>5
  <2>7. \A i, j \in DOMAIN displays' : i < j => displays'[i].connector < displays'[j].connector
    BY <2>1, <2>2, <2>3, <2>5
  <2> QED
    BY <2>4, <2>6, <2>7
<1>3. CASE EglStep
  BY <1>3 DEF EglStep, QueueFull, vars, EglInv
<1>4. CASE OpenDevice \/ OpenFails \/ BecomeMaster \/ NotMaster \/ DisplayFails
  <2>1. UNCHANGED <<vars, connector, displays>> /\ stage' # "buffers"
    BY <1>4 DEF OpenDevice, OpenFails, BecomeMaster, NotMaster, DisplayFails, Give
  <2> QED
    BY <1>4, <2>1, AdapterOK
       DEF OpenDevice, OpenFails, BecomeMaster, NotMaster, DisplayFails, Give, QueueFull, vars
<1>5. CASE SkipConnector \/ QueueBuilt
  <2>1. UNCHANGED <<vars, displays>> /\ connector' = connector + 1 /\ stage' = "connectors"
    BY <1>5 DEF SkipConnector, QueueBuilt
  <2>2. QueueFull
    BY <1>5 DEF SkipConnector, QueueBuilt
  <2>3. \A i \in DOMAIN displays : displays[i].connector <= connector /\ displays[i].connector \in Nat
    BY ConnectorsAreNumbers
  <2> QED
    BY <2>1, <2>2, <2>3 DEF QueueFull, vars
<1>6. CASE Finish \/ UNCHANGED allVars
  <2>1. UNCHANGED <<vars, connector, displays>>
    BY <1>6 DEF Finish, allVars, adapterVars
  <2>2. \/ stage' = stage
        \/ stage = "connectors" /\ stage' \in {"thrown", "ready"} /\ (stage' = "ready" => displays # <<>>)
    BY <1>6 DEF Finish, allVars, adapterVars
  <2> QED
    BY <2>1, <2>2 DEF QueueFull, vars
<1> QED
  BY <1>1, <1>2, <1>3, <1>4, <1>5, <1>6 DEF AdapterNext

\* A plane is chosen for being on the display's CRTC, and stays there.
LEMMA PlanePreserved == AdapterIInv /\ [AdapterNext]_allVars => PlaneInv'
<1> SUFFICES ASSUME AdapterIInv, [AdapterNext]_allVars PROVE PlaneInv'
  OBVIOUS
<1> USE DEF AdapterIInv, AdapterType, PlaneInv
<1>1. CASE NewDisplay
  <2>1. PICK d \in DisplayRecord : /\ displays' = Append(displays, d)
                                  /\ kms.plane[d.primary_plane].crtc_id = d.crtc
    BY <1>1, NewDisplayAppends
  <2>2. \A i \in DOMAIN displays' : displays'[i] = IF i = Len(displays) + 1 THEN d ELSE displays[i]
    BY <2>1
  <2>3. DOMAIN displays = 1 .. Len(displays) /\ DOMAIN displays' = 1 .. Len(displays) + 1
    BY <2>1
  <2>4. kms' = kms
    BY <1>1 DEF NewDisplay
  <2> QED
    BY <2>1, <2>2, <2>3, <2>4
<1>2. CASE UNCHANGED <<kms, displays>>
  BY <1>2
<1> QED
  BY <1>1, <1>2
     DEF AdapterNext, OpenDevice, OpenFails, EglStep, BecomeMaster, NotMaster, SkipConnector,
         DisplayFails, BuildBuffer, QueueBuilt, Finish, Give, adapterVars, allVars

LEMMA AdapterInductive == AdapterSpec => []AdapterIInv
<1>1. AdapterIInv /\ [AdapterNext]_allVars => AdapterIInv'
  <2>1. AdapterIInv /\ [AdapterNext]_allVars => IInv'
    BY AdapterStepBuilds, TypePreserved, StepPreserved, RecordPreserved DEF AdapterIInv, IInv, allVars
  <2> QED
    BY <2>1, AdapterTypePreserved, EglPreserved, OrderPreserved, PlanePreserved DEF AdapterIInv
<1> QED
  BY <1>1, AdapterInitEstablishes, PTL DEF AdapterSpec

-----------------------------------------------------------------------------
(***************************************************************************)
(* What the repaint loop is handed.                                        *)
(***************************************************************************)
\* No buffer is imported without the extensions it is drawn with, although the
\* constructor goes on after it has found them missing (EGLDevice.cpp:63-72).
THEOREM ExtensionsAlwaysEnforced == AdapterSpec => []ExtensionsEnforced
<1>1. AdapterIInv => ExtensionsEnforced
  BY DEF AdapterIInv, EglInv, ExtensionsEnforced
<1> QED
  BY <1>1, AdapterInductive, PTL

\* Displays on different CRTCs have planes of their own, whatever KMS was
\* found showing (Display.cpp:51).
THEOREM PlanesAlwaysApart == AdapterSpec => []PlanesApart
<1>1. AdapterIInv => PlanesApart
  BY DEF AdapterIInv, PlaneInv, PlanesApart
<1> QED
  BY <1>1, AdapterInductive, PTL

\* The loop never starts without a display, with a queue that is not full or
\* with a context that was destroyed (DisplayAdapter.cpp:36-47).
THEOREM AlwaysReadyForLoop == AdapterSpec => []ReadyForLoop
<1>1. AdapterIInv => ReadyForLoop
  <2> SUFFICES ASSUME AdapterIInv, stage = "ready"
               PROVE  /\ displays # <<>>
                      /\ Len(buffers) = BUFFER_QUEUE_DEPTH * Len(displays)
                      /\ \A i, j \in DOMAIN displays :
                           i < j => displays[i].connector < displays[j].connector
                      /\ ctx = "live"
    BY DEF ReadyForLoop
  <2>1. displays # <<>> /\ QueueFull
    BY DEF AdapterIInv, OrderInv
  <2>2. Len(displays) \in Nat \ {0}
    BY <2>1 DEF AdapterIInv, AdapterType
  <2>3. BUFFER_QUEUE_DEPTH * Len(displays) # 0
    BY <2>2, AdapterOK
  <2>4. buffers # <<>>
    BY <2>1, <2>3 DEF QueueFull
  <2> QED
    BY <2>1, <2>4 DEF AdapterIInv, EglInv, OrderInv, QueueFull
<1> QED
  BY <1>1, AdapterInductive, PTL
=============================================================================
