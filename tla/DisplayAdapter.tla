--------------------------- MODULE DisplayAdapter ----------------------------
(***************************************************************************)
(* The constructor of DisplayAdapter, everything that happens before the   *)
(* terminal is taken and the repaint loop starts: the device is opened, a  *)
(* GBM and an EGL device are made for it (EglSetup), the process becomes   *)
(* DRM master, and each connector that has an encoder becomes a Display    *)
(* whose buffers are built (BufferAlloc).                                  *)
(*                                                                         *)
(* What KMS is showing at that moment does not change on the way: from     *)
(* drmAuthMagic on the process is the only one that may change it.         *)
(***************************************************************************)
EXTENDS BufferAlloc, EglSetup

CONSTANTS
  NumConnectors,       \* resources->count_connectors
  BUFFER_QUEUE_DEPTH,
  NumEncoders, NumCrtcs, NumPlanes, NumFbs,
  KmsFound             \* the states KMS may be found in

Connectors == 1 .. NumConnectors
Encoders   == 1 .. NumEncoders
Crtcs      == 1 .. NumCrtcs
Planes     == 1 .. NumPlanes
None       == 0

\* A plane is off, or shows a framebuffer on a CRTC. Plane c is the primary
\* plane of CRTC c, and a CRTC's buffer_id is that of its primary plane.
PlaneStates == [crtc_id : Crtcs, fb_id : 1 .. NumFbs] \union {[crtc_id |-> None, fb_id |-> None]}

KmsStates ==
  {k \in [encoder_id : [Connectors -> Encoders \union {None}],
          crtc_id    : [Encoders -> Crtcs \union {None}],
          plane      : [Planes -> PlaneStates],
          in_fence   : [Planes -> BOOLEAN],    \* planes that have an IN_FENCE_FD
          out_fence  : [Crtcs -> BOOLEAN]] :   \* CRTCs that have an OUT_FENCE_PTR
     \A c \in Crtcs : k.plane[c].crtc_id \in {None, c}}

ASSUME AdapterOK ==
  /\ NumConnectors \in Nat /\ BUFFER_QUEUE_DEPTH \in Nat \ {0}
  /\ NumEncoders \in Nat /\ NumCrtcs \in Nat /\ NumPlanes \in Nat /\ NumFbs \in Nat
  /\ NumCrtcs <= NumPlanes
  /\ NumConnectors * BUFFER_QUEUE_DEPTH <= NumBuffers
  /\ KmsFound \subseteq KmsStates

VARIABLES
  kms,        \* what KMS shows
  stage,      \* what the constructor does next
  connector,  \* the connector whose turn it is
  displays    \* DisplayAdapter::displays

adapterVars == <<kms, stage, connector, displays>>
allVars     == <<vars, eglVars, adapterVars>>

AdapterInit ==
  /\ Init /\ EglInit
  /\ kms \in KmsFound
  /\ stage = "device" /\ connector = 1 /\ displays = <<>>

-----------------------------------------------------------------------------
(***************************************************************************)
(* The devices.                                                            *)
(***************************************************************************)
\* The constructor is left by an exception or by a failed assertion.
Give(up) ==
  /\ stage' = up
  /\ UNCHANGED <<vars, kms, connector, displays>>

\* The device node is opened and the GBM device made.
OpenDevice ==
  /\ stage = "device"
  /\ stage' = "egl"
  /\ UNCHANGED <<vars, eglVars, kms, connector, displays>>

OpenFails ==
  /\ stage = "device"
  /\ Give("thrown") \/ Give("aborted")
  /\ UNCHANGED eglVars

EglStep ==
  /\ stage = "egl"
  /\ EglNext
  /\ stage' = IF step' = "built" THEN "master"
              ELSE IF step' \in {"thrown", "aborted"} THEN step' ELSE "egl"
  /\ UNCHANGED <<vars, kms, connector, displays>>

\* drmAuthMagic, the client capabilities, drmGetCap (its answer is
\* adapterSupportsFBModifiers) and the resources.
BecomeMaster ==
  /\ stage = "master"
  /\ stage' = "connectors"
  /\ UNCHANGED <<vars, eglVars, kms, connector, displays>>

\* The process is not master, KMS has no universal planes or atomic commits, or the
\* assertion of make_resources_ptr fails.
NotMaster ==
  /\ stage = "master"
  /\ Give("thrown") \/ Give("aborted")
  /\ UNCHANGED eglVars

-----------------------------------------------------------------------------
(***************************************************************************)
(* A display for each connector.                                           *)
(***************************************************************************)
\* The CRTC the connector's encoder is connected to, if any.
findCrtcForEncoder(i) == {kms.crtc_id[kms.encoder_id[i]]} \ {None}

\* Mutant: planes are told apart by their framebuffer only.
findPrimaryPlaneForCrtc_fb(c) ==
  LET Match(p) == kms.plane[p].fb_id = kms.plane[c].fb_id
  IN {p \in Planes : Match(p) /\ \A x \in Planes : x < p => ~Match(x)}

\* The first plane that shows the CRTC's framebuffer on that CRTC.
findPrimaryPlaneForCrtc(c) ==
  LET Match(p) == kms.plane[p].crtc_id = c /\ kms.plane[p].fb_id = kms.plane[c].fb_id
  IN {p \in Planes : Match(p) /\ \A x \in Planes : x < p => ~Match(x)}

\* continue, for a connector without an encoder.
SkipConnector ==
  /\ stage = "connectors" /\ connector \in Connectors
  /\ kms.encoder_id[connector] = None
  /\ connector' = connector + 1
  /\ UNCHANGED <<vars, eglVars, kms, stage, displays>>

\* Display::Display. The fences are those of the plane and the CRTC; whether EGL
\* can use them is not asked. createEGLBuffers comes next.
NewDisplay ==
  /\ stage = "connectors" /\ connector \in Connectors
  /\ kms.encoder_id[connector] # None
  /\ \E c \in findCrtcForEncoder(connector) : \E p \in findPrimaryPlaneForCrtc(c) :
       displays' = Append(displays, [connector |-> connector, crtc |-> c, primary_plane |-> p,
                                     explicitFencing |-> kms.in_fence[p] /\ kms.out_fence[c]])
  /\ stage' = "buffers"
  /\ UNCHANGED <<vars, eglVars, kms, connector>>

\* The encoder, the CRTC or the plane is not found, the mode makes no blob or
\* the EDID does not parse; or the connector, a property or a blob that was
\* listed is gone when it is asked for, and an assertion fails or a null pointer
\* is followed.
DisplayFails ==
  /\ stage = "connectors" /\ connector \in Connectors
  /\ Give("aborted") \/ (kms.encoder_id[connector] # None /\ Give("thrown"))
  /\ UNCHANGED eglVars

\* The queue of the last display holds BUFFER_QUEUE_DEPTH buffers.
QueueFull == pc = "bo" /\ Len(buffers) = BUFFER_QUEUE_DEPTH * Len(displays)

\* A step of createEGLBuffers. A context that was destroyed cannot be made
\* current, so importing the image stops at the assertion.
BuildBuffer ==
  /\ stage = "buffers" /\ ~QueueFull
  /\ Next
  /\ ctx = "destroyed" /\ pc = "image" => pc' = "aborted"
  /\ UNCHANGED <<eglVars, adapterVars>>

\* On to the next connector.
QueueBuilt ==
  /\ stage = "buffers" /\ QueueFull
  /\ stage' = "connectors" /\ connector' = connector + 1
  /\ UNCHANGED <<vars, eglVars, kms, displays>>

\* Mutant: nobody asks whether there is a display.
Finish_empty ==
  /\ stage = "connectors" /\ connector = NumConnectors + 1
  /\ stage' = "ready"
  /\ UNCHANGED <<vars, eglVars, kms, connector, displays>>

\* Every connector was looked at; without a display an exception is thrown.
Finish ==
  /\ stage = "connectors" /\ connector = NumConnectors + 1
  /\ stage' = IF displays = <<>> THEN "thrown" ELSE "ready"
  /\ UNCHANGED <<vars, eglVars, kms, connector, displays>>

AdapterNext ==
  \/ OpenDevice \/ OpenFails \/ EglStep \/ BecomeMaster \/ NotMaster
  \/ SkipConnector \/ NewDisplay \/ DisplayFails \/ BuildBuffer \/ QueueBuilt \/ Finish

AdapterSpec == AdapterInit /\ [][AdapterNext]_allVars
-----------------------------------------------------------------------------
(***************************************************************************)
(* Properties.                                                             *)
(***************************************************************************)
\* A missing GL extension is only reported, and the constructor goes on with a
\* context it has destroyed (EGLDevice.cpp:63-72, 90-98); all the same no
\* buffer is ever imported without the extension for it, nor with fences that
\* GL cannot wait for: making the context current fails first.
ExtensionsEnforced == live.img # {} \/ buffers # <<>> => ~Missing

\* Displays on different CRTCs never share a plane, although the console has
\* every CRTC show the same framebuffer (DisplayAdapter.cpp:40, Display.cpp:51).
PlanesApart ==
  \A i, j \in DOMAIN displays :
    displays[i].crtc # displays[j].crtc => displays[i].primary_plane # displays[j].primary_plane

\* What the repaint loop relies on when it starts: there is a display, each is
\* for a connector of its own and has a full queue, and the context that the
\* buffers are drawn with still exists (DisplayAdapter.cpp:36-47).
ReadyForLoop ==
  stage = "ready" =>
    /\ displays # <<>>
    /\ Len(buffers) = BUFFER_QUEUE_DEPTH * Len(displays)
    /\ \A i, j \in DOMAIN displays :
         i < j => displays[i].connector < displays[j].connector
    /\ ctx = "live"
=============================================================================
