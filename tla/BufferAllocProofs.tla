-------------------------- MODULE BufferAllocProofs --------------------------
(***************************************************************************)
(* Building the buffers leaves nothing behind, for every length of the     *)
(* queue, every supply of descriptors and every driver.                    *)
(***************************************************************************)
EXTENDS BufferAlloc, TLAPS

LEMMA InitEstablishes == Init => IInv
<1> SUFFICES ASSUME Init PROVE IInv
  OBVIOUS
<1> USE QueueOK DEF Init, NoBuffer, Null
<1>1. TypeOK
  BY DEF TypeOK, Ids, IdOrNull, Buffer, Objects
<1>2. StepInv
  BY DEF StepInv, Settled, Kept, Before
<1>3. RecordInv
  BY DEF RecordInv, ModifiersAgree, Before
<1> QED
  BY <1>1, <1>2, <1>3 DEF IInv

\* The buffer object comes with a Buffer that is right but for its garbage.
LEMMA NewBufferMakes ==
  ASSUME TypeOK, NEW s \in BOOLEAN, NewBuffer(s)
  PROVE  /\ buffer' \in Buffer
         /\ buffer'.supportsFBModifiers = s /\ buffer'.bo = idx
         /\ live' \in Objects
         /\ live'.bo = live.bo \union {idx}
         /\ live'.img = live.img /\ live'.tex = live.tex /\ live'.fbo = live.fbo
         /\ live'.fb = live.fb
<1>1. PICK g \in live.fb \union {Null} :
        buffer' = [NoBuffer EXCEPT !.supportsFBModifiers = s, !.bo = idx, !.fb_id = g]
  BY DEF NewBuffer
<1>2. g \in IdOrNull /\ idx \in IdOrNull
  BY DEF TypeOK, Objects, IdOrNull, NewBuffer
<1>3. NoBuffer \in Buffer
  BY DEF NoBuffer, Buffer, IdOrNull
<1> QED
  BY <1>1, <1>2, <1>3 DEF NewBuffer, NoBuffer, Buffer, TypeOK, Objects, IdOrNull

\* Where a buffer is under way, it is one of the queue's.
LEMMA UnderWay ==
  ASSUME IInv, pc \in {"handle", "export", "stride", "image", "addfb"}
  PROVE  idx \in Ids
BY DEF IInv, StepInv, HasBo, HasImage

LEMMA TypePreserved == IInv /\ [Next]_vars => TypeOK'
<1> SUFFICES ASSUME IInv, [Next]_vars PROVE TypeOK'
  OBVIOUS
<1>0. TypeOK
  BY DEF IInv
<1> USE QueueOK, <1>0 DEF TypeOK, objectVars
<1>1. ASSUME NEW s \in BOOLEAN, NewBuffer(s), tiled' \subseteq tiled \union {idx} PROVE TypeOK'
  BY <1>1, NewBufferMakes DEF NewBuffer
<1>2. CASE CreateWithModifiers \/ CreatePlain
  BY <1>1, <1>2 DEF CreateWithModifiers, CreatePlain
<1>3. CASE CreateFails \/ GetHandle \/ GetStride \/ ImportAsserts
  BY <1>3 DEF CreateFails, GetHandle, GetStride, ImportAsserts
<1>4. CASE handle_to_fd
  BY <1>4 DEF handle_to_fd
<1>5. CASE failOnBOCreationError
  BY <1>5 DEF failOnBOCreationError, Objects
<1>6. CASE ImportImage
  BY <1>6, UnderWay DEF ImportImage, Objects, Buffer, IdOrNull
<1>7. ASSUME NEW b \in Buffer, PushBack(b), idx \in Ids
      PROVE  /\ pc' = "bo" /\ idx' \in 1 .. NumBuffers + 1
             /\ buffers' \in Seq(Buffer) /\ Len(buffers') = idx' - 1
  BY <1>7 DEF PushBack, Ids
<1>8. CASE AddFB2
  <2>1. buffer' \in Buffer /\ live' \in Objects /\ idx \in Ids
    BY <1>8, UnderWay DEF AddFB2, Objects, Buffer, IdOrNull
  <2> QED
    BY <1>7, <1>8, <2>1 DEF AddFB2
<1>9. CASE AddFB2Fails
  <2>1. live' \in Objects /\ idx \in Ids
    BY <1>9, UnderWay DEF AddFB2Fails, buffer_egl_destroy, Objects
  <2> QED
    BY <1>7, <1>9, <2>1 DEF AddFB2Fails
<1>10. CASE DestroyAsserts
  BY <1>10, UnderWay DEF DestroyAsserts, Objects
<1>11. CASE UNCHANGED vars
  BY <1>11 DEF vars
<1> QED
  BY <1>2, <1>3, <1>4, <1>5, <1>6, <1>8, <1>9, <1>10, <1>11 DEF Next

\* Each step adds or takes away what the next program counter says there is.
LEMMA StepPreserved == IInv /\ [Next]_vars => StepInv'
<1> SUFFICES ASSUME IInv, [Next]_vars PROVE StepInv'
  OBVIOUS
<1>0. TypeOK /\ StepInv
  BY DEF IInv
<1> USE QueueOK, <1>0 DEF TypeOK, objectVars, Kept, Before
<1>1. CASE CreateWithModifiers \/ CreatePlain
  <2>1. PICK s \in BOOLEAN : NewBuffer(s)
    BY <1>1 DEF CreateWithModifiers, CreatePlain
  <2> QED
    BY <2>1, NewBufferMakes DEF NewBuffer, StepInv, Settled, HasBo
<1>2. CASE CreateFails
  BY <1>2 DEF CreateFails, StepInv, Settled
<1>3. CASE GetHandle \/ GetStride
  BY <1>3 DEF GetHandle, GetStride, StepInv, HasBo
<1>4. CASE handle_to_fd
  BY <1>4 DEF handle_to_fd, StepInv, HasBo
<1>5. CASE failOnBOCreationError
  <2>1. HasBo /\ idx \notin Kept /\ refused \subseteq Before /\ live.fb \subseteq Kept
    BY <1>5 DEF failOnBOCreationError, StepInv, HasBo, Ids
  <2>2. /\ live'.bo = Kept /\ live'.img = Kept /\ live'.tex = Kept /\ live'.fbo = Kept
        /\ live'.fb = live.fb
    BY <1>5, <2>1 DEF failOnBOCreationError, HasBo, Objects
  <2>3. open' = {}
    BY <1>5, <2>1 DEF failOnBOCreationError, HasBo
  <2> QED
    BY <1>5, <2>1, <2>2, <2>3 DEF failOnBOCreationError, StepInv, Settled
<1>6. CASE ImportImage
  <2>1. HasBo /\ refused \subseteq Before /\ live.fb \subseteq Kept
    BY <1>6 DEF ImportImage, StepInv
  <2>2. /\ buffer'.bo = idx /\ buffer'.img = idx /\ buffer'.tex_id = idx /\ buffer'.fbo_id = idx
        /\ live'.bo = Kept \union {idx} /\ live'.img = Kept \union {idx}
        /\ live'.tex = Kept \union {idx} /\ live'.fbo = Kept \union {idx}
        /\ live'.fb = live.fb
    BY <1>6, <2>1 DEF ImportImage, HasBo, Objects, Buffer
  <2>3. open' = {}
    BY <1>6, <2>1 DEF ImportImage, HasBo
  <2> QED
    BY <1>6, <2>1, <2>2, <2>3 DEF ImportImage, StepInv, HasBo, HasImage
<1>7. ASSUME PushBack(buffer') \/ PushBack(buffer), HasImage
      PROVE  pc' = "bo" /\ idx' = idx + 1 /\ Before' = Before \union {idx} /\ idx \notin Before
  BY <1>7 DEF PushBack, HasImage, Ids
<1>8. CASE AddFB2
  <2>1. HasImage /\ refused \subseteq Before /\ live.fb \subseteq Kept
    BY <1>8 DEF AddFB2, StepInv
  <2>2. /\ live'.bo = live.bo /\ live'.img = live.img /\ live'.tex = live.tex
        /\ live'.fbo = live.fbo /\ live'.fb = live.fb \union {idx}
        /\ open' = open /\ refused' = refused
    BY <1>8 DEF AddFB2, Objects
  <2>3. pc' = "bo" /\ Before' = Before \union {idx} /\ idx \notin Before
    BY <1>7, <1>8, <2>1 DEF AddFB2
  <2>4. Kept' = Kept \union {idx}
    BY <2>1, <2>2, <2>3
  <2> QED
    BY <2>1, <2>2, <2>3, <2>4 DEF StepInv, Settled, HasImage
<1>9. CASE AddFB2Fails
  <2>1. HasImage /\ refused \subseteq Before /\ live.fb \subseteq Kept
    BY <1>9 DEF AddFB2Fails, StepInv
  <2>2. pc' = "bo" /\ Before' = Before \union {idx} /\ idx \notin Before
    BY <1>7, <1>9, <2>1 DEF AddFB2Fails
  <2>3. open' = {} /\ refused' = refused \union {idx}
    BY <1>9, <2>1 DEF AddFB2Fails, HasImage
  <2>4. Kept' = Kept /\ idx \notin Kept
    BY <2>1, <2>2, <2>3
  <2>5. /\ live'.bo = Kept /\ live'.img = Kept /\ live'.tex = Kept /\ live'.fbo = Kept
        /\ live'.fb \subseteq Kept
    BY <1>9, <2>1, <2>4 DEF AddFB2Fails, buffer_egl_destroy, HasImage
  <2> QED
    BY <2>1, <2>2, <2>3, <2>4, <2>5 DEF StepInv, Settled
<1>10. CASE ImportAsserts \/ DestroyAsserts
  BY <1>10 DEF ImportAsserts, DestroyAsserts, StepInv
<1>11. CASE UNCHANGED vars
  BY <1>11 DEF vars, StepInv, Settled, HasBo, HasImage
<1> QED
  BY <1>1, <1>2, <1>3, <1>4, <1>5, <1>6, <1>8, <1>9, <1>10, <1>11 DEF Next

\* What a step does to the records of the buffers already in the queue: nothing,
\* unless KMS refuses one.
LEMMA RecordPreserved == IInv /\ [Next]_vars => RecordInv'
<1> SUFFICES ASSUME IInv, [Next]_vars PROVE RecordInv'
  OBVIOUS
<1>0. TypeOK /\ StepInv /\ RecordInv
  BY DEF IInv
<1> USE QueueOK, <1>0 DEF TypeOK, objectVars, Before, ModifiersAgree
<1>1. CASE CreateWithModifiers \/ CreatePlain
  <2>1. PICK s \in BOOLEAN :
          NewBuffer(s) /\ tiled' = IF s THEN tiled \union {idx} ELSE tiled
    BY <1>1 DEF CreateWithModifiers, CreatePlain
  <2>2. /\ pc = "bo" /\ pc' = "handle" /\ idx' = idx /\ idx \notin Before
        /\ live'.fb = live.fb /\ buffer'.supportsFBModifiers = s
        /\ UNCHANGED <<buffers, described, refused>>
    <3>1. live'.fb = live.fb /\ buffer'.supportsFBModifiers = s
      BY <2>1, NewBufferMakes
    <3>2. pc = "bo" /\ pc' = "handle" /\ UNCHANGED <<idx, buffers, described, refused>>
      BY <2>1 DEF NewBuffer
    <3>3. idx \notin Before
      OBVIOUS
    <3> QED
      BY <3>1, <3>2, <3>3
  <2>3. tiled \subseteq Before /\ described \subseteq Before /\ live.fb \subseteq Before
    BY <2>2 DEF RecordInv, StepInv, Kept
  <2>4. tiled' \subseteq Before' \union {idx'} /\ (idx' \in tiled' <=> s)
    BY <2>1, <2>2, <2>3
  <2>5. ModifiersAgree'
    <3>1. \A b \in Before : b \in tiled' <=> b \in tiled
      BY <2>1, <2>2
    <3> QED
      BY <2>2, <2>3, <3>1 DEF RecordInv
  <2>6. Before' = Before
    BY <2>2
  <2> QED
    BY <2>2, <2>3, <2>4, <2>5, <2>6 DEF RecordInv
<1>2. CASE CreateFails \/ GetHandle \/ GetStride \/ ImportAsserts
  BY <1>2 DEF CreateFails, GetHandle, GetStride, ImportAsserts, RecordInv
<1>3. CASE handle_to_fd
  BY <1>3 DEF handle_to_fd, RecordInv
<1>4. CASE failOnBOCreationError
  <2>1. live'.fb = live.fb
    BY <1>4 DEF failOnBOCreationError, Objects
  <2> QED
    BY <1>4, <2>1 DEF failOnBOCreationError, RecordInv
<1>5. CASE ImportImage
  <2>1. live'.fb = live.fb /\ buffer'.supportsFBModifiers = buffer.supportsFBModifiers
    BY <1>5 DEF ImportImage, Objects, Buffer
  <2> QED
    BY <1>5, <2>1 DEF ImportImage, RecordInv
<1>6. CASE AddFB2
  <2>1. HasImage /\ refused \subseteq Before /\ live.fb \subseteq Before
    BY <1>6 DEF AddFB2, StepInv, Kept
  <2>2. /\ live'.fb = live.fb \union {idx} /\ pc' = "bo" /\ idx' = idx + 1
        /\ buffer'.bo = idx /\ buffer'.fbo_id = idx /\ buffer'.fb_id = idx
        /\ buffers' = Append(buffers, buffer') /\ buffer' \in Buffer
        /\ UNCHANGED <<tiled, refused>>
    BY <1>6, <2>1, UnderWay DEF AddFB2, PushBack, HasImage, Objects, Buffer, IdOrNull
  <2>3. idx \in tiled <=> idx \in described'
    BY <1>6 DEF AddFB2, RecordInv
  <2>4. described \subseteq Before /\ tiled \subseteq Before \union {idx}
    BY <1>6 DEF AddFB2, RecordInv
  <2>5. Before' = Before \union {idx} /\ idx \notin Before
    BY <2>1, <2>2 DEF HasImage, Ids
  <2>6. described' \subseteq Before' /\ tiled' \subseteq Before'
    BY <1>6, <2>2, <2>4, <2>5 DEF AddFB2
  <2>7. ModifiersAgree'
    BY <1>6, <2>1, <2>2, <2>3 DEF AddFB2, RecordInv
  <2>8. ASSUME refused = {}, NEW b \in Before'
        PROVE  /\ buffers'[b].bo = b /\ buffers'[b].fbo_id = b /\ buffers'[b].fb_id = b
               /\ b \in live'.fb
    <3>1. CASE b = idx
      <4>1. buffers'[idx] = buffer'
        BY <2>1, <2>2 DEF HasImage, Ids
      <4> QED
        BY <2>2, <3>1, <4>1
    <3>2. CASE b \in Before
      <4>1. buffers'[b] = buffers[b]
        BY <2>2, <3>2
      <4> QED
        BY <1>6, <2>2, <2>8, <3>2, <4>1 DEF AddFB2, RecordInv
    <3> QED
      BY <2>5, <2>8, <3>1, <3>2
  <2> QED
    BY <2>2, <2>6, <2>7, <2>8 DEF RecordInv
<1>7. CASE AddFB2Fails
  <2>1. HasImage /\ live.fb \subseteq Before /\ live'.fb \subseteq live.fb
    BY <1>7 DEF AddFB2Fails, buffer_egl_destroy, StepInv, Kept
  <2>2. pc' = "bo" /\ Before' = Before \union {idx} /\ refused' # {}
    BY <1>7, <2>1 DEF AddFB2Fails, PushBack, HasImage, Ids
  <2>3. described \subseteq Before /\ tiled \subseteq Before \union {idx}
    BY <1>7 DEF AddFB2Fails, RecordInv
  <2> QED
    BY <1>7, <2>1, <2>2, <2>3 DEF AddFB2Fails, RecordInv
<1>8. CASE DestroyAsserts
  <2>1. live'.fb \subseteq live.fb
    BY <1>8 DEF DestroyAsserts, Objects
  <2> QED
    BY <1>8, <2>1 DEF DestroyAsserts, RecordInv
<1>9. CASE UNCHANGED vars
  BY <1>9 DEF vars, RecordInv
<1> QED
  BY <1>1, <1>2, <1>3, <1>4, <1>5, <1>6, <1>7, <1>8, <1>9 DEF Next

LEMMA Inductive == Spec => []IInv
<1>1. IInv /\ [Next]_vars => IInv'
  BY TypePreserved, StepPreserved, RecordPreserved DEF IInv
<1> QED
  BY InitEstablishes, <1>1, PTL DEF Spec

\* Every variable keeps its type, for any number of buffers and descriptors.
THEOREM TypeCorrect == Spec => []TypeOK
<1>1. IInv => TypeOK
  BY DEF IInv
<1> QED
  BY <1>1, Inductive, PTL

\* Whichever driver calls fail for whichever buffers, the queue's accepted
\* buffers are all that exists between two buffers and after an exception.
THEOREM NothingEverLeftBehind == Spec => []NothingLeftBehind
<1>1. IInv => NothingLeftBehind
  BY DEF IInv, StepInv, Settled, Kept, Before, NothingLeftBehind
<1> QED
  BY <1>1, Inductive, PTL

\* Each framebuffer is described as its buffer object is laid out, whichever
\* buffers had to fall back.
THEOREM ModifiersAlwaysAgree == Spec => []ModifiersAgree
<1>1. IInv => ModifiersAgree
  BY DEF IInv, RecordInv
<1> QED
  BY <1>1, Inductive, PTL

\* A driver that accepts every framebuffer leaves the repaint loop a queue of
\* buffers that are complete and have nothing in common.
THEOREM AcceptedAlwaysUsable == Spec => []AcceptedAllUsable
<1>1. IInv => AcceptedAllUsable
  <2> SUFFICES ASSUME IInv, pc = "bo", refused = {}, NEW b \in Before
               PROVE  /\ buffers[b].bo = b /\ buffers[b].fbo_id = b /\ buffers[b].fb_id = b
                      /\ b \in live.bo \intersect live.fbo \intersect live.fb
    BY DEF AcceptedAllUsable
  <2>1. Kept = Before
    BY DEF Kept
  <2> QED
    BY <2>1 DEF IInv, StepInv, RecordInv, Settled
<1> QED
  BY <1>1, Inductive, PTL
=============================================================================
