----------------------------- MODULE BufferAlloc -----------------------------
(***************************************************************************)
(* How the displays get their buffers before the repaint loop starts       *)
(* (Display::createEGLBuffers): each is a GBM buffer object, exported as a *)
(* dma-buf, imported as an EGLImage, wrapped in a GL texture and           *)
(* framebuffer to draw into and in a KMS framebuffer to scan out. Every    *)
(* step asks a driver, which may refuse.                                   *)
(*                                                                         *)
(* The buffers are numbered through in the order they are made, whichever  *)
(* display they are for; DisplayAdapter says when a display's turn comes.  *)
(* A buffer makes at most one object of each kind, so an object is named   *)
(* by its kind and the number of the buffer it was made for.               *)
(***************************************************************************)
EXTENDS Integers, Sequences

CONSTANTS
  NumBuffers,          \* BUFFER_QUEUE_DEPTH for each display
  Fds,                 \* the file descriptors a dma-buf may get
  NoFd                 \* -1

ASSUME QueueOK == NumBuffers \in Nat \ {0} /\ NoFd \notin Fds

Null == 0
Ids  == 1 .. NumBuffers

VARIABLES
  pc,            \* the driver call that comes next
  idx,           \* the buffer being built
  adapterSupportsFBModifiers,
  buffer,        \* createEGLBuffer's Buffer
  dma_buf_fd,    \* dma_buf_fds[0]; images have one plane
  buffers,       \* Display::buffers, of all displays in a row
  live,          \* live[k]: the objects of kind k that exist
  open,          \* the dma-buf descriptors that are open
  tiled,         \* the buffer objects laid out for one of the modifiers KMS accepts
  described,     \* the KMS framebuffers that were made with a modifier
  refused        \* the buffers KMS made no framebuffer for

objectVars == <<live, open, tiled, described, refused>>
vars == <<pc, idx, adapterSupportsFBModifiers, buffer, dma_buf_fd, buffers, objectVars>>

NoBuffer == [supportsFBModifiers |-> FALSE, bo |-> Null, img |-> Null,
             tex_id |-> Null, fbo_id |-> Null, fb_id |-> Null]

Init ==
  /\ pc = "bo" /\ idx = 1
  /\ adapterSupportsFBModifiers \in BOOLEAN
  /\ buffer = NoBuffer /\ dma_buf_fd = NoFd
  /\ buffers = <<>>
  /\ live = [bo |-> {}, img |-> {}, tex |-> {}, fbo |-> {}, fb |-> {}]
  /\ open = {} /\ tiled = {} /\ described = {} /\ refused = {}

-----------------------------------------------------------------------------
(***************************************************************************)
(* createEGLBuffer                                                         *)
(***************************************************************************)

\* A buffer object for buffer idx. Buffer::fb_id has no initialiser: it is
\* whatever the stack holds, the framebuffer of an earlier buffer for one.
NewBuffer(supportsFBModifiers) ==
  /\ pc = "bo" /\ idx \in Ids
  /\ \E garbage \in live.fb \union {Null} :
       buffer' = [NoBuffer EXCEPT !.supportsFBModifiers = supportsFBModifiers,
                                  !.bo = idx, !.fb_id = garbage]
  /\ dma_buf_fd' = NoFd
  /\ live' = [live EXCEPT !.bo = @ \union {idx}]
  /\ pc' = "handle"
  /\ UNCHANGED <<idx, adapterSupportsFBModifiers, buffers, open, described, refused>>

CreateWithModifiers ==
  /\ adapterSupportsFBModifiers
  /\ NewBuffer(TRUE)
  /\ tiled' = tiled \union {idx}

\* Mutant: the buffer keeps the adapter's answer.
CreatePlain_keeps ==
  /\ NewBuffer(adapterSupportsFBModifiers)
  /\ UNCHANGED tiled

\* The adapter does not know modifiers, or GBM found none that it can use.
CreatePlain ==
  /\ NewBuffer(FALSE)
  /\ UNCHANGED tiled

CreateFails ==
  /\ pc = "bo" /\ idx \in Ids
  /\ pc' = "thrown"
  /\ UNCHANGED <<idx, adapterSupportsFBModifiers, buffer, dma_buf_fd, buffers, objectVars>>

GetHandle ==
  /\ pc = "handle"
  /\ pc' = "export"
  /\ UNCHANGED <<idx, adapterSupportsFBModifiers, buffer, dma_buf_fd, buffers, objectVars>>

handle_to_fd ==
  /\ pc = "export"
  /\ \E fd \in Fds \ open :
       /\ dma_buf_fd' = fd
       /\ open' = open \union {fd}
  /\ pc' = "stride"
  /\ UNCHANGED <<idx, adapterSupportsFBModifiers, buffer, buffers, live, tiled, described,
                 refused>>

GetStride ==
  /\ pc = "stride"
  /\ pc' = "image"
  /\ UNCHANGED <<idx, adapterSupportsFBModifiers, buffer, dma_buf_fd, buffers, objectVars>>

\* Mutant: the descriptors stay open.
failOnBOCreationError_open ==
  /\ pc \in {"handle", "export", "stride", "image"}
  /\ live' = [live EXCEPT !.bo = @ \ {buffer.bo}]
  /\ pc' = "thrown"
  /\ UNCHANGED <<idx, adapterSupportsFBModifiers, buffer, dma_buf_fd, buffers, open, tiled,
                 described, refused>>

\* No handle, no descriptor, no stride or no image: the buffer object is
\* destroyed, the descriptor closed if there is one, and an exception thrown.
failOnBOCreationError ==
  /\ pc \in {"handle", "export", "stride", "image"}
  /\ live' = [live EXCEPT !.bo = @ \ {buffer.bo}]
  /\ open' = open \ {dma_buf_fd}
  /\ pc' = "thrown"
  /\ UNCHANGED <<idx, adapterSupportsFBModifiers, buffer, dma_buf_fd, buffers, tiled,
                 described, refused>>

\* The context is current and the image made. EGL has its own reference to the
\* dma-buf, so the descriptor is closed. The image is bound to a texture, and
\* the texture to a GL framebuffer, which is complete.
ImportImage ==
  /\ pc = "image"
  /\ buffer' = [buffer EXCEPT !.img = idx, !.tex_id = idx, !.fbo_id = idx]
  /\ live' = [live EXCEPT !.img = @ \union {idx}, !.tex = @ \union {idx},
                          !.fbo = @ \union {idx}]
  /\ open' = open \ {dma_buf_fd}
  /\ pc' = "addfb"
  /\ UNCHANGED <<idx, adapterSupportsFBModifiers, dma_buf_fd, buffers, tiled, described,
                 refused>>

\* An entry point is missing, the context cannot be made current or the GL
\* framebuffer is not complete.
ImportAsserts ==
  /\ pc = "image"
  /\ pc' = "aborted"
  /\ UNCHANGED <<idx, adapterSupportsFBModifiers, buffer, dma_buf_fd, buffers, objectVars>>

-----------------------------------------------------------------------------
(***************************************************************************)
(* createEGLBuffers, for the buffer createEGLBuffer returned               *)
(***************************************************************************)
PushBack(b) ==
  /\ buffers' = Append(buffers, b)
  /\ idx' = idx + 1
  /\ pc' = "bo"

\* Mutant: the buffer joins the queue before its framebuffer is made.
AddFB2_late ==
  /\ pc = "addfb"
  /\ buffer' = [buffer EXCEPT !.fb_id = idx]
  /\ live' = [live EXCEPT !.fb = @ \union {idx}]
  /\ described' = IF buffer.supportsFBModifiers THEN described \union {idx} ELSE described
  /\ PushBack(buffer)
  /\ UNCHANGED <<adapterSupportsFBModifiers, dma_buf_fd, open, tiled, refused>>

\* drmModeAddFB2WithModifiers or drmModeAddFB2.
AddFB2 ==
  /\ pc = "addfb"
  /\ buffer' = [buffer EXCEPT !.fb_id = idx]
  /\ live' = [live EXCEPT !.fb = @ \union {idx}]
  /\ described' = IF buffer.supportsFBModifiers THEN described \union {idx} ELSE described
  /\ PushBack(buffer')
  /\ UNCHANGED <<adapterSupportsFBModifiers, dma_buf_fd, open, tiled, refused>>

\* What exists after all objects of b are destroyed.
buffer_egl_destroy(b) ==
  [bo |-> live.bo \ {b.bo}, img |-> live.img \ {b.img}, tex |-> live.tex \ {b.tex_id},
   fbo |-> live.fbo \ {b.fbo_id}, fb |-> live.fb \ {b.fb_id}]

\* Mutant: the buffer is left out and the loop goes on.
AddFB2Fails_skips ==
  /\ pc = "addfb"
  /\ live' = buffer_egl_destroy(buffer)
  /\ refused' = refused \union {idx}
  /\ idx' = idx + 1 /\ pc' = "bo"
  /\ UNCHANGED <<adapterSupportsFBModifiers, buffer, dma_buf_fd, buffers, open, tiled, described>>

\* KMS refuses the framebuffer, and fb_id keeps the value it had. The buffer
\* joins the queue like any other.
AddFB2Fails ==
  /\ pc = "addfb"
  /\ live' = buffer_egl_destroy(buffer)
  /\ refused' = refused \union {idx}
  /\ PushBack(buffer)
  /\ UNCHANGED <<adapterSupportsFBModifiers, buffer, dma_buf_fd, open, tiled, described>>

\* KMS refuses, and the context cannot be made current to clean up; RmFB comes
\* before that.
DestroyAsserts ==
  /\ pc = "addfb"
  /\ live' = [live EXCEPT !.fb = @ \ {buffer.fb_id}]
  /\ refused' = refused \union {idx}
  /\ pc' = "aborted"
  /\ UNCHANGED <<idx, adapterSupportsFBModifiers, buffer, dma_buf_fd, buffers, open, tiled,
                 described>>

Next ==
  \/ CreateWithModifiers \/ CreatePlain \/ CreateFails
  \/ GetHandle \/ handle_to_fd \/ GetStride \/ failOnBOCreationError
  \/ ImportImage \/ ImportAsserts
  \/ AddFB2 \/ AddFB2Fails \/ DestroyAsserts

Spec == Init /\ [][Next]_vars
-----------------------------------------------------------------------------
(***************************************************************************)
(* Properties.                                                             *)
(***************************************************************************)
\* The buffers made so far, and those that KMS accepted.
Before == 1 .. idx - 1
Kept   == Before \ refused

IdOrNull == Ids \union {Null}
Buffer   == [supportsFBModifiers : BOOLEAN, bo : IdOrNull, img : IdOrNull,
             tex_id : IdOrNull, fbo_id : IdOrNull, fb_id : IdOrNull]
Objects  == [bo : SUBSET Ids, img : SUBSET Ids, tex : SUBSET Ids, fbo : SUBSET Ids,
             fb : SUBSET Ids]

TypeOK ==
  /\ pc \in {"bo", "handle", "export", "stride", "image", "addfb", "thrown", "aborted"}
  /\ idx \in 1 .. NumBuffers + 1
  /\ adapterSupportsFBModifiers \in BOOLEAN
  /\ buffer \in Buffer
  /\ dma_buf_fd \in Fds \union {NoFd}
  /\ buffers \in Seq(Buffer) /\ Len(buffers) = idx - 1
  /\ live \in Objects
  /\ open \subseteq Fds
  /\ tiled \subseteq Ids /\ described \subseteq Ids /\ refused \subseteq Ids

\* Between two buffers, and after an exception, there is nothing but the
\* buffers in the queue that KMS accepted: whichever step failed, the objects
\* of the buffer it failed for are all destroyed and no descriptor is left
\* open (Display.cpp:30-38: failOnBOCreationError; 384-388: "We don't need the
\* file descriptors after they've been imported").
NothingLeftBehind ==
  pc \in {"bo", "thrown"} =>
    /\ open = {}
    /\ live.bo = Kept /\ live.img = Kept /\ live.tex = Kept /\ live.fbo = Kept
    /\ live.fb \subseteq Kept

\* A KMS framebuffer is described with a modifier exactly when its buffer
\* object was laid out for one; falling back for one buffer of the queue does
\* not affect how the others are described.
ModifiersAgree == \A b \in live.fb : b \in described <=> b \in tiled

\* If KMS accepted them all, each buffer of a queue can be drawn into and
\* scanned out, and no two share an object.
AcceptedAllUsable ==
  pc = "bo" /\ refused = {} =>
    \A b \in Before :
      /\ buffers[b].bo = b /\ buffers[b].fbo_id = b /\ buffers[b].fb_id = b
      /\ b \in live.bo \intersect live.fbo \intersect live.fb

\* The queues the repaint loop starts with hold only buffers that can be drawn
\* into and scanned out: "It is this framebuffer ID which is passed to KMS to
\* display. 0 is always an invalid framebuffer id" (Display.hpp:59-65).
EveryBufferUsable ==
  pc = "bo" =>
    \A b \in Before : buffers[b].fbo_id \in live.fbo /\ buffers[b].fb_id \in live.fb
-----------------------------------------------------------------------------
(***************************************************************************)
(* The inductive invariant: what exists besides the buffers of the queue   *)
(* at each step of building one.                                           *)
(***************************************************************************)
\* Nothing is under way.
Settled ==
  /\ open = {}
  /\ live.bo = Kept /\ live.img = Kept /\ live.tex = Kept /\ live.fbo = Kept

\* There is a buffer object.
HasBo ==
  /\ idx \in Ids /\ buffer.bo = idx
  /\ live.bo = Kept \union {idx} /\ live.img = Kept /\ live.tex = Kept /\ live.fbo = Kept
  /\ open = IF dma_buf_fd = NoFd THEN {} ELSE {dma_buf_fd}

\* Only the framebuffer is missing.
HasImage ==
  /\ idx \in Ids
  /\ buffer.bo = idx /\ buffer.img = idx /\ buffer.tex_id = idx /\ buffer.fbo_id = idx
  /\ live.bo = Kept \union {idx} /\ live.img = Kept \union {idx}
  /\ live.tex = Kept \union {idx} /\ live.fbo = Kept \union {idx}
  /\ open = {}

StepInv ==
  /\ pc \in {"bo", "thrown"} => Settled
  /\ pc \in {"handle", "export", "stride", "image"} => HasBo
  /\ pc = "handle" \/ pc = "export" => dma_buf_fd = NoFd
  /\ pc = "addfb" => HasImage
  /\ pc # "aborted" => refused \subseteq Before /\ live.fb \subseteq Kept

\* What was recorded of the buffer under way and of those in the queue.
RecordInv ==
  /\ pc \in {"handle", "export", "stride", "image", "addfb"} =>
       /\ idx \in tiled <=> buffer.supportsFBModifiers
       /\ tiled \subseteq Before \union {idx}
  /\ pc \notin {"aborted", "thrown"} => described \subseteq Before
  /\ pc = "bo" => tiled \subseteq Before
  /\ ModifiersAgree
  /\ refused = {} /\ pc # "aborted" =>
       \A b \in Before : /\ buffers[b].bo = b /\ buffers[b].fbo_id = b
                         /\ buffers[b].fb_id = b /\ b \in live.fb

IInv == TypeOK /\ StepInv /\ RecordInv
=============================================================================
