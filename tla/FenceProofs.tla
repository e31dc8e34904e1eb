---------------------------- MODULE FenceProofs ------------------------------
(***************************************************************************)
(* Fences: every sync file is held once and closed once by the members of  *)
(* Display and Buffer, whatever the setup, if the members start at zero,   *)
(* and if the displays have a CRTC each, a buffer is not drawn into before *)
(* the fence of its last commit has signalled.                             *)
(***************************************************************************)
EXTENDS RepaintLoopProofs, FiniteSetTheorems

-----------------------------------------------------------------------------
(***************************************************************************)
(* Descriptors: who holds which. The four ways in which they are passed on *)
(* are lemmas about any set S of holders, the descriptors H they hold and  *)
(* a table F of what is open.                                              *)
(***************************************************************************)
\* What is held is open, and held once.
HeldOnce(S, H, F) ==
  /\ \A s \in S : H[s] # NoFd => F[H[s]] # Closed
  /\ \A s, t \in S : H[s] = H[t] /\ H[s] # NoFd => s = t

\* What is open is held.
NoLeak(S, H, F) == \A f \in Fds : F[f] # Closed => \E s \in S : H[s] = f

\* What H and F were like, G and T are too.
Passed(S, H, F, G, T) == HeldOnce(S, G, T) /\ (NoLeak(S, H, F) => NoLeak(S, G, T))

\* Drawing: the descriptor of k is taken over and closed, those of r and c are
\* closed, and r gets a new one.
DrawnH(S, H, k, r, c, n) ==
  [s \in S |-> IF s = r THEN n ELSE IF s \in {k, c} THEN NoFd ELSE H[s]]
DrawnF(H, F, k, r, c, n) ==
  Close(Close([Close(F, H[k]) EXCEPT ![n] = RenderFence], H[r]), H[c])

LEMMA DrawPassesOn ==
  ASSUME NEW S, NEW k \in S, NEW r \in S, NEW c \in S, k # r, k # c, r # c,
         NEW H \in [S -> FdOrNone], NEW F \in [Fds -> Fence], HeldOnce(S, H, F),
         NEW n \in FreeFds(Close(F, H[k]))
  PROVE  Passed(S, H, F, DrawnH(S, H, k, r, c, n), DrawnF(H, F, k, r, c, n))
<1> DEFINE G == DrawnH(S, H, k, r, c, n)
           T == DrawnF(H, F, k, r, c, n)
<1> USE ConstantsOK DEF DrawnH, DrawnF
<1>1. n \in Fds /\ (n = H[k] \/ F[n] = Closed)
  BY DEF FreeFds, Close
<1>2. \A f \in Fds : T[f] = IF f \in {H[r], H[c]} THEN Closed
                            ELSE IF f = n THEN RenderFence
                            ELSE IF f = H[k] THEN Closed ELSE F[f]
  BY <1>1 DEF Close
<1>3. n # H[r] /\ n # H[c]
  BY <1>1 DEF HeldOnce
<1>4. RenderFence # Closed
  BY DEF RenderFence, Closed
<1>5. \A s \in S \ {k, r, c} : H[s] # NoFd => H[s] \notin {n, H[k], H[r], H[c]} /\ H[s] \in Fds
  BY <1>1 DEF HeldOnce, FdOrNone
<1>6. HeldOnce(S, G, T)
  BY <1>1, <1>2, <1>3, <1>4, <1>5 DEF HeldOnce
<1>7. ASSUME NoLeak(S, H, F), NEW f \in Fds, T[f] # Closed
      PROVE  \E s \in S : G[s] = f
  <2>1. CASE f = n
    BY <2>1
  <2>2. CASE f # n
    <3>1. F[f] # Closed /\ f \notin {H[k], H[r], H[c]}
      BY <1>2, <1>7, <2>2
    <3>2. PICK s \in S : H[s] = f
      BY <1>7, <3>1 DEF NoLeak
    <3> QED
      BY <3>1, <3>2
  <2> QED
    BY <2>1, <2>2
<1> QED
  BY <1>6, <1>7 DEF NoLeak, Passed

\* Asking for an out-fence without drawing fences: that of c is closed.
ClosedH(H, c) == [H EXCEPT ![c] = NoFd]

LEMMA ClosePassesOn ==
  ASSUME NEW S, NEW c \in S,
         NEW H \in [S -> FdOrNone], NEW F \in [Fds -> Fence], HeldOnce(S, H, F)
  PROVE  Passed(S, H, F, ClosedH(H, c), Close(F, H[c]))
<1> DEFINE G == ClosedH(H, c)
           T == Close(F, H[c])
<1> USE ConstantsOK DEF ClosedH
<1>1. \A f \in Fds : T[f] = IF f = H[c] THEN Closed ELSE F[f]
  BY DEF Close
<1>2. \A s \in S : G[s] = IF s = c THEN NoFd ELSE H[s]
  OBVIOUS
<1>3. HeldOnce(S, G, T)
  BY <1>1, <1>2 DEF HeldOnce, FdOrNone
<1>4. NoLeak(S, H, F) => NoLeak(S, G, T)
  BY <1>1, <1>2 DEF NoLeak
<1> QED
  BY <1>3, <1>4 DEF Passed

\* A commit: the holders in W, which hold none, get a descriptor each that was
\* closed.
CommittedH(S, W, H, out) == [s \in S |-> IF s \in W THEN out[s] ELSE H[s]]

LEMMA CommitPassesOn ==
  ASSUME NEW S, NEW W \in SUBSET S,
         NEW H \in [S -> FdOrNone], NEW F \in [Fds -> Fence], HeldOnce(S, H, F),
         \A w \in W : H[w] = NoFd,
         NEW out \in [W -> Fds], \A w \in W : F[out[w]] = Closed,
         \A v, w \in W : out[v] = out[w] => v = w,
         NEW T, \A f \in Fds : IF \E w \in W : out[w] = f THEN T[f] # Closed ELSE T[f] = F[f]
  PROVE  Passed(S, H, F, CommittedH(S, W, H, out), T)
<1> DEFINE G == CommittedH(S, W, H, out)
<1> USE ConstantsOK DEF CommittedH
<1>1. \A s \in S \ W : H[s] # NoFd => H[s] \in Fds /\ \A w \in W : out[w] # H[s]
  BY DEF HeldOnce, FdOrNone
<1>2. HeldOnce(S, G, T)
  <2>1. ASSUME NEW s \in S, G[s] # NoFd PROVE T[G[s]] # Closed
    <3>1. CASE s \in W
      BY <3>1
    <3>2. CASE s \notin W
      BY <1>1, <2>1, <3>2 DEF HeldOnce
    <3> QED
      BY <3>1, <3>2
  <2>2. ASSUME NEW s \in S, NEW t \in S, G[s] = G[t], G[s] # NoFd PROVE s = t
    BY <1>1, <2>2 DEF HeldOnce
  <2> QED
    BY <2>1, <2>2 DEF HeldOnce
<1>3. ASSUME NoLeak(S, H, F), NEW f \in Fds, T[f] # Closed
      PROVE  \E s \in S : G[s] = f
  <2>1. CASE \E w \in W : out[w] = f
    BY <2>1
  <2>2. CASE ~ \E w \in W : out[w] = f
    <3>1. F[f] # Closed
      BY <1>3, <2>2
    <3>2. PICK s \in S : H[s] = f
      BY <1>3, <3>1 DEF NoLeak
    <3>3. s \notin W
      BY <3>2
    <3> QED
      BY <3>2, <3>3
  <2> QED
    BY <2>1, <2>2
<1> QED
  BY <1>2, <1>3 DEF NoLeak, Passed

\* Handing over: k closes its descriptor and gets that of c.
HandedH(S, H, k, c) == [s \in S |-> IF s = k THEN H[c] ELSE IF s = c THEN NoFd ELSE H[s]]

LEMMA HandoverPassesOn ==
  ASSUME NEW S, NEW k \in S, NEW c \in S, k # c,
         NEW H \in [S -> FdOrNone], NEW F \in [Fds -> Fence], HeldOnce(S, H, F),
         H[c] # NoFd
  PROVE  Passed(S, H, F, HandedH(S, H, k, c), Close(F, H[k]))
<1> DEFINE G == HandedH(S, H, k, c)
           T == Close(F, H[k])
<1> USE ConstantsOK DEF HandedH
<1>1. \A f \in Fds : T[f] = IF f = H[k] THEN Closed ELSE F[f]
  BY DEF Close
<1>2. H[c] \in Fds /\ H[c] # H[k]
  BY DEF HeldOnce, FdOrNone
<1>3. HeldOnce(S, G, T)
  BY <1>1, <1>2 DEF HeldOnce, FdOrNone
<1>4. ASSUME NoLeak(S, H, F), NEW f \in Fds, T[f] # Closed
      PROVE  \E s \in S : G[s] = f
  <2>1. F[f] # Closed /\ f # H[k]
    BY <1>1, <1>4
  <2>2. PICK s \in S : H[s] = f
    BY <1>4, <2>1 DEF NoLeak
  <2> QED
    BY <2>1, <2>2
<1> QED
  BY <1>3, <1>4 DEF NoLeak, Passed

-----------------------------------------------------------------------------
(***************************************************************************)
(* The members of Display and Buffer as holders.                           *)
(***************************************************************************)
CommitSlot(d)    == <<"commit", d, NoBuffer>>
KmsSlot(d, b)    == <<"kms", d, b>>
RenderSlot(d, b) == <<"render", d, b>>

holdings == [s \in FenceSlots |-> Held(s)]

\* Every holder is one of the three kinds, and holds what its member says.
LEMMA SlotKinds ==
  \A s \in FenceSlots :
    \/ \E d \in Displays : s = CommitSlot(d)
    \/ \E d \in Displays, b \in Buffers : s \in {KmsSlot(d, b), RenderSlot(d, b)}
BY DEF FenceSlots, CommitSlot, KmsSlot, RenderSlot

LEMMA SlotsAre ==
  /\ \A d \in Displays : CommitSlot(d) \in FenceSlots
  /\ \A d \in Displays, b \in Buffers : {KmsSlot(d, b), RenderSlot(d, b)} \subseteq FenceSlots
BY DEF FenceSlots, CommitSlot, KmsSlot, RenderSlot

LEMMA SlotsHold ==
  /\ \A d \in Displays : holdings[CommitSlot(d)] = commitFenceFD[d]
  /\ \A d \in Displays, b \in Buffers :
       /\ holdings[KmsSlot(d, b)] = kms_fence_fd[d][b]
       /\ holdings[RenderSlot(d, b)] = render_fence_fd[d][b]
BY SlotsAre DEF holdings, CommitSlot, KmsSlot, RenderSlot, Held

\* Two holders are the same only if they are the same member of the same object.
LEMMA SlotsDiffer ==
  \A d, e, b, x :
    /\ CommitSlot(d) = CommitSlot(e) <=> d = e
    /\ KmsSlot(d, b) = KmsSlot(e, x) <=> d = e /\ b = x
    /\ RenderSlot(d, b) = RenderSlot(e, x) <=> d = e /\ b = x
    /\ CommitSlot(d) # KmsSlot(e, x) /\ CommitSlot(d) # RenderSlot(e, x)
    /\ KmsSlot(d, b) # RenderSlot(e, x)
BY DEF CommitSlot, KmsSlot, RenderSlot

LEMMA HoldingsType == TypeOK => holdings \in [FenceSlots -> FdOrNone]
<1> SUFFICES ASSUME TypeOK, NEW s \in FenceSlots PROVE holdings[s] \in FdOrNone
  BY DEF holdings
<1> QED
  BY SlotKinds, SlotsHold DEF TypeOK

LEMMA HeldOnceIs == FencesHeldOnce <=> HeldOnce(FenceSlots, holdings, fences)
BY DEF FencesHeldOnce, HeldOnce, holdings

LEMMA NoLeakIs == NoFenceLeak <=> NoLeak(FenceSlots, holdings, fences)
BY DEF NoFenceLeak, NoLeak, holdings

\* The same after a step.
LEMMA SlotsHoldPrime ==
  /\ \A d \in Displays : holdings'[CommitSlot(d)] = commitFenceFD'[d]
  /\ \A d \in Displays, b \in Buffers :
       /\ holdings'[KmsSlot(d, b)] = kms_fence_fd'[d][b]
       /\ holdings'[RenderSlot(d, b)] = render_fence_fd'[d][b]
<1>1. (/\ \A d \in Displays : holdings[CommitSlot(d)] = commitFenceFD[d]
       /\ \A d \in Displays, b \in Buffers :
            /\ holdings[KmsSlot(d, b)] = kms_fence_fd[d][b]
            /\ holdings[RenderSlot(d, b)] = render_fence_fd[d][b])'
  BY SlotsHold, PTL
<1> QED
  BY <1>1

LEMMA HoldingsAre ==
  ASSUME NEW G, G = [s \in FenceSlots |-> G[s]],
         \A d \in Displays : commitFenceFD'[d] = G[CommitSlot(d)],
         \A d \in Displays, b \in Buffers :
           /\ kms_fence_fd'[d][b] = G[KmsSlot(d, b)]
           /\ render_fence_fd'[d][b] = G[RenderSlot(d, b)]
  PROVE  holdings' = G
<1>1. holdings' = [s \in FenceSlots |-> holdings'[s]]
  <2>1. holdings' = [s \in FenceSlots |-> Held(s)']
    BY DEF holdings, FenceSlots, Displays, Buffers
  <2> QED
    BY <2>1
<1>2. ASSUME NEW s \in FenceSlots PROVE holdings'[s] = G[s]
  <2>1. CASE \E d \in Displays : s = CommitSlot(d)
    <3> PICK d \in Displays : s = CommitSlot(d)
      BY <2>1
    <3>1. holdings'[CommitSlot(d)] = commitFenceFD'[d]
      BY SlotsHoldPrime
    <3> QED
      BY <3>1
  <2>2. CASE \E d \in Displays, b \in Buffers : s \in {KmsSlot(d, b), RenderSlot(d, b)}
    <3> PICK d \in Displays, b \in Buffers : s \in {KmsSlot(d, b), RenderSlot(d, b)}
      BY <2>2
    <3>1. /\ holdings'[KmsSlot(d, b)] = kms_fence_fd'[d][b]
          /\ holdings'[RenderSlot(d, b)] = render_fence_fd'[d][b]
      BY SlotsHoldPrime
    <3> QED
      BY <3>1
  <2> QED
    BY <2>1, <2>2, SlotKinds
<1> QED
  BY <1>1, <1>2

LEMMA FencesPassedOn ==
  ASSUME FencesHeldOnce, Passed(FenceSlots, holdings, fences, holdings', fences')
  PROVE  FencesHeldOnce' /\ (NoFenceLeak => NoFenceLeak')
<1>1. FencesHeldOnce' <=> HeldOnce(FenceSlots, holdings', fences')
  <2>1. (FencesHeldOnce <=> HeldOnce(FenceSlots, holdings, fences))'
    BY HeldOnceIs, PTL
  <2> QED
    BY <2>1 DEF FenceSlots, Displays, Buffers, HeldOnce
<1>2. NoFenceLeak' <=> NoLeak(FenceSlots, holdings', fences')
  <2>1. (NoFenceLeak <=> NoLeak(FenceSlots, holdings, fences))'
    BY NoLeakIs, PTL
  <2> QED
    BY <2>1 DEF FenceSlots, Displays, Buffers, NoLeak
<1> QED
  BY <1>1, <1>2, NoLeakIs DEF Passed

\* A step that leaves the members alone and closes or opens nothing.
LEMMA FencesLeftAlone ==
  ASSUME TypeOK, FencesHeldOnce, UNCHANGED <<commitFenceFD, kms_fence_fd, render_fence_fd>>,
         \A f \in Fds : fences'[f] = Closed <=> fences[f] = Closed
  PROVE  FencesHeldOnce' /\ (NoFenceLeak => NoFenceLeak')
<1>1. holdings \in [FenceSlots -> FdOrNone]
  BY HoldingsType
<1>2. holdings' = holdings
  BY <1>1, HoldingsAre, SlotsHold
<1>3. HeldOnce(FenceSlots, holdings, fences)
  BY HeldOnceIs
<1>4. HeldOnce(FenceSlots, holdings, fences')
  BY <1>1, <1>3 DEF HeldOnce, FdOrNone
<1>5. NoLeak(FenceSlots, holdings, fences) => NoLeak(FenceSlots, holdings, fences')
  BY DEF NoLeak
<1> QED
  BY <1>2, <1>4, <1>5, FencesPassedOn DEF Passed

-----------------------------------------------------------------------------
(***************************************************************************)
(* Every step passes descriptors on in one of these ways, or leaves them.  *)
(***************************************************************************)
LEMMA RepaintPassesOn ==
  ASSUME TypeOK, FencesHeldOnce, NEW d \in Displays, NEW b \in Buffers, RepaintFences(d, b)
  PROVE  FencesHeldOnce' /\ (NoFenceLeak => NoFenceLeak')
<1> DEFINE k == KmsSlot(d, b)
           r == RenderSlot(d, b)
           c == CommitSlot(d)
<1>1. /\ holdings \in [FenceSlots -> FdOrNone] /\ fences \in [Fds -> Fence]
      /\ HeldOnce(FenceSlots, holdings, fences)
  BY HoldingsType, HeldOnceIs DEF TypeOK
<1>2. /\ k \in FenceSlots /\ r \in FenceSlots /\ c \in FenceSlots
      /\ k # r /\ k # c /\ r # c
  BY SlotsAre, SlotsDiffer
<1>3. /\ holdings[k] = kms_fence_fd[d][b] /\ holdings[r] = render_fence_fd[d][b]
      /\ holdings[c] = commitFenceFD[d]
  BY SlotsHold
<1>4. CASE Fenced(d)
  <2>1. PICK n \in FreeFds(Close(fences, kms_fence_fd[d][b])) :
          /\ fences' = CloseCommitFence(DrawFences(d, b, n), d)
          /\ kms_fence_fd' = [kms_fence_fd EXCEPT ![d][b] = NoFd]
          /\ render_fence_fd' = [render_fence_fd EXCEPT ![d][b] = n]
    BY <1>4 DEF RepaintFences, Fenced
  <2>2. commitFenceFD' = [commitFenceFD EXCEPT ![d] = NoFd]
    BY <1>4 DEF RepaintFences, Fenced, ResetCommitFence
  <2> DEFINE G == DrawnH(FenceSlots, holdings, k, r, c, n)
             T == DrawnF(holdings, fences, k, r, c, n)
  <2>3. fences' = T
    BY <1>3, <2>1 DEF CloseCommitFence, DrawFences, DrawnF
  <2>4. holdings' = G
    <3>1. G = [s \in FenceSlots |-> G[s]]
      BY DEF DrawnH
    <3>2. \A s \in FenceSlots : G[s] = IF s = r THEN n ELSE IF s \in {k, c} THEN NoFd ELSE holdings[s]
      BY DEF DrawnH
    <3> HIDE DEF G
    <3>3. ASSUME NEW e \in Displays PROVE commitFenceFD'[e] = G[CommitSlot(e)]
      <4>1. commitFenceFD'[e] = IF e = d THEN NoFd ELSE commitFenceFD[e]
        BY <2>2 DEF TypeOK
      <4>2. CommitSlot(e) # r /\ CommitSlot(e) # k /\ (CommitSlot(e) = c <=> e = d)
        BY SlotsDiffer
      <4>3. G[CommitSlot(e)] = IF e = d THEN NoFd ELSE holdings[CommitSlot(e)]
        BY <3>2, <4>2, SlotsAre
      <4> QED
        BY <4>1, <4>3, SlotsHold
    <3>4. ASSUME NEW e \in Displays, NEW x \in Buffers
          PROVE  /\ kms_fence_fd'[e][x] = G[KmsSlot(e, x)]
                 /\ render_fence_fd'[e][x] = G[RenderSlot(e, x)]
      <4>1. kms_fence_fd'[e][x] = IF e = d /\ x = b THEN NoFd ELSE kms_fence_fd[e][x]
        BY <2>1 DEF TypeOK
      <4>2. render_fence_fd'[e][x] = IF e = d /\ x = b THEN n ELSE render_fence_fd[e][x]
        BY <2>1 DEF TypeOK
      <4>3. G[KmsSlot(e, x)] = IF e = d /\ x = b THEN NoFd ELSE kms_fence_fd[e][x]
        BY <3>2, SlotsAre, SlotsDiffer, SlotsHold
      <4>4. G[RenderSlot(e, x)] = IF e = d /\ x = b THEN n ELSE render_fence_fd[e][x]
        BY <3>2, SlotsAre, SlotsDiffer, SlotsHold
      <4> QED
        BY <4>1, <4>2, <4>3, <4>4
    <3> QED
      BY <3>1, <3>3, <3>4, HoldingsAre
  <2>5. Passed(FenceSlots, holdings, fences, G, T)
    <3>1. n \in FreeFds(Close(fences, holdings[k]))
      BY <1>3
    <3> HIDE DEF k, r, c
    <3> QED
      BY <1>1, <1>2, <3>1, DrawPassesOn
  <2> HIDE DEF G, T
  <2> QED
    BY <2>3, <2>4, <2>5, FencesPassedOn
<1>5. CASE ~Fenced(d) /\ ExplicitFencing[d]
  <2>1. fences' = Close(fences, holdings[c])
    BY <1>3, <1>5 DEF RepaintFences, CloseCommitFence
  <2> DEFINE G == ClosedH(holdings, c)
  <2>2. holdings' = G
    <3>1. UNCHANGED <<kms_fence_fd, render_fence_fd>>
          /\ commitFenceFD' = [commitFenceFD EXCEPT ![d] = NoFd]
      BY <1>5 DEF RepaintFences, ResetCommitFence
    <3>2. G = [s \in FenceSlots |-> G[s]]
      BY <1>1 DEF ClosedH
    <3>3. \A s \in FenceSlots : G[s] = IF s = c THEN NoFd ELSE holdings[s]
      BY <1>1 DEF ClosedH
    <3> HIDE DEF G
    <3>4. ASSUME NEW e \in Displays PROVE commitFenceFD'[e] = G[CommitSlot(e)]
      BY <3>1, <3>3, SlotsAre, SlotsDiffer, SlotsHold DEF TypeOK
    <3>5. ASSUME NEW e \in Displays, NEW x \in Buffers
          PROVE  /\ kms_fence_fd'[e][x] = G[KmsSlot(e, x)]
                 /\ render_fence_fd'[e][x] = G[RenderSlot(e, x)]
      BY <3>1, <3>3, SlotsAre, SlotsDiffer, SlotsHold
    <3> QED
      BY <3>2, <3>4, <3>5, HoldingsAre
  <2>3. Passed(FenceSlots, holdings, fences, G, Close(fences, holdings[c]))
    <3> HIDE DEF c
    <3> QED
      BY <1>1, <1>2, ClosePassesOn
  <2> HIDE DEF G
  <2> QED
    BY <2>1, <2>2, <2>3, FencesPassedOn
<1>6. CASE ~ExplicitFencing[d]
  BY <1>6, FencesLeftAlone DEF RepaintFences, Fenced, fenceVars
<1> QED
  BY <1>4, <1>5, <1>6

LEMMA HandoverPasses ==
  ASSUME TypeOK, FencesHeldOnce, NEW d \in Displays, HandoverFence(d), bufferLast[d] # Wild
  PROVE  FencesHeldOnce' /\ (NoFenceLeak => NoFenceLeak')
<1>1. /\ holdings \in [FenceSlots -> FdOrNone] /\ fences \in [Fds -> Fence]
      /\ HeldOnce(FenceSlots, holdings, fences)
  BY HoldingsType, HeldOnceIs DEF TypeOK
<1> DEFINE b == bufferLast[d]
           k == KmsSlot(d, b)
           c == CommitSlot(d)
<1>2. c \in FenceSlots /\ holdings[c] = commitFenceFD[d]
  BY SlotsAre, SlotsHold
<1>3. CASE Fenced(d) /\ b \in Buffers
  <2>1. b # NoBuffer
    BY <1>3, NotBuffers
  <2>2. /\ commitFenceFD[d] \in Fds
        /\ fences' = Close(fences, kms_fence_fd[d][b])
        /\ kms_fence_fd' = [kms_fence_fd EXCEPT ![d][b] = commitFenceFD[d]]
        /\ commitFenceFD' = [commitFenceFD EXCEPT ![d] = NoFd]
        /\ UNCHANGED render_fence_fd
    BY <1>3, <2>1 DEF HandoverFence, ReplaceKmsFence, ResetCommitFence, linux_sync_file_is_valid
  <2>3. k \in FenceSlots /\ k # c /\ holdings[k] = kms_fence_fd[d][b] /\ holdings[c] # NoFd
    BY <1>2, <1>3, <2>2, SlotsAre, SlotsDiffer, SlotsHold, ConstantsOK
  <2> DEFINE G == HandedH(FenceSlots, holdings, k, c)
  <2>4. holdings' = G
    <3>1. G = [s \in FenceSlots |-> G[s]]
      BY DEF HandedH
    <3>2. \A s \in FenceSlots : G[s] = IF s = k THEN holdings[c] ELSE IF s = c THEN NoFd ELSE holdings[s]
      BY DEF HandedH
    <3> HIDE DEF G
    <3>3. ASSUME NEW e \in Displays PROVE commitFenceFD'[e] = G[CommitSlot(e)]
      <4>1. commitFenceFD'[e] = IF e = d THEN NoFd ELSE commitFenceFD[e]
        BY <2>2 DEF TypeOK
      <4>2. CommitSlot(e) # k /\ (CommitSlot(e) = c <=> e = d)
        BY SlotsDiffer
      <4>3. G[CommitSlot(e)] = IF e = d THEN NoFd ELSE holdings[CommitSlot(e)]
        BY <3>2, <4>2, SlotsAre
      <4> QED
        BY <4>1, <4>3, SlotsHold
    <3>4. ASSUME NEW e \in Displays, NEW x \in Buffers
          PROVE  /\ kms_fence_fd'[e][x] = G[KmsSlot(e, x)]
                 /\ render_fence_fd'[e][x] = G[RenderSlot(e, x)]
      <4>1. kms_fence_fd'[e][x] = IF e = d /\ x = b THEN commitFenceFD[d] ELSE kms_fence_fd[e][x]
        BY <2>2 DEF TypeOK
      <4>2. /\ KmsSlot(e, x) = k <=> e = d /\ x = b
            /\ KmsSlot(e, x) # c /\ RenderSlot(e, x) # k /\ RenderSlot(e, x) # c
        BY SlotsDiffer
      <4>3. KmsSlot(e, x) \in FenceSlots /\ RenderSlot(e, x) \in FenceSlots
        BY SlotsAre
      <4>4. G[KmsSlot(e, x)] = IF e = d /\ x = b THEN holdings[c] ELSE holdings[KmsSlot(e, x)]
        BY <3>2, <4>2, <4>3
      <4>5. G[RenderSlot(e, x)] = holdings[RenderSlot(e, x)]
        BY <3>2, <4>2, <4>3
      <4> QED
        BY <1>2, <2>2, <4>1, <4>4, <4>5, SlotsHold
    <3> QED
      BY <3>1, <3>3, <3>4, HoldingsAre
  <2>5. Passed(FenceSlots, holdings, fences, G, Close(fences, holdings[k]))
    <3> HIDE DEF k, c
    <3> QED
      BY <1>1, <1>2, <2>3, HandoverPassesOn
  <2> HIDE DEF G
  <2> QED
    BY <2>2, <2>3, <2>4, <2>5, FencesPassedOn
<1>4. CASE ~Fenced(d) \/ b = NoBuffer
  BY <1>4, FencesLeftAlone DEF HandoverFence
<1> QED
  BY <1>3, <1>4 DEF TypeOK, BufferPointer

LEMMA CommitPasses ==
  ASSUME TypeInv, FencesHeldOnce, AsksWithoutFence, Commit
  PROVE  FencesHeldOnce' /\ (NoFenceLeak => NoFenceLeak')
<1>1. /\ holdings \in [FenceSlots -> FdOrNone] /\ fences \in [Fds -> Fence]
      /\ HeldOnce(FenceSlots, holdings, fences)
  BY HoldingsType, HeldOnceIs DEF TypeInv, TypeOK
<1>2. PICK out \in Injection(WantOutFence, FreeFds(fences)) :
        /\ commitFenceFD' = [d \in Displays |->
                               IF d \in WantOutFence THEN out[d] ELSE commitFenceFD[d]]
        /\ fences' = [f \in Fds |->
                        IF \E d \in WantOutFence : out[d] = f
                        THEN OutFence(CrtcOf[CHOOSE d \in WantOutFence : out[d] = f])
                        ELSE fences[f]]
  BY DEF Commit
<1>3. WantOutFence \subseteq Displays
  BY RequestedType DEF WantOutFence, TypeInv, TypeOK
<1>4. /\ \A d \in WantOutFence : out[d] \in Fds /\ fences[out[d]] = Closed
      /\ \A d, e \in WantOutFence : out[d] = out[e] => d = e
  BY DEF Injection, IsInjective, FreeFds
<1>5. \A d \in WantOutFence : commitFenceFD[d] = NoFd
  BY DEF WantOutFence, Requested, AsksWithoutFence
<1> DEFINE W == {CommitSlot(d) : d \in WantOutFence}
           o == [w \in W |-> out[w[2]]]
           G == CommittedH(FenceSlots, W, holdings, o)
<1>6. \A d \in WantOutFence : CommitSlot(d) \in W /\ o[CommitSlot(d)] = out[d]
  BY DEF CommitSlot
<1>7. \A w \in W : \E d \in WantOutFence : w = CommitSlot(d) /\ o[w] = out[d]
  BY <1>6
<1>8. \A d \in Displays : CommitSlot(d) \in W <=> d \in WantOutFence
  BY <1>3, SlotsDiffer
<1>9. \A d \in Displays, b \in Buffers : KmsSlot(d, b) \notin W /\ RenderSlot(d, b) \notin W
  BY SlotsDiffer
<1>10. /\ W \in SUBSET FenceSlots /\ o \in [W -> Fds]
       /\ \A w \in W : holdings[w] = NoFd /\ fences[o[w]] = Closed
       /\ \A v, w \in W : o[v] = o[w] => v = w
  <2>1. W \in SUBSET FenceSlots
    BY <1>3, SlotsAre
  <2>2. o \in [W -> Fds]
    BY <1>4, <1>7
  <2> HIDE DEF W, o
  <2>3. ASSUME NEW w \in W PROVE holdings[w] = NoFd /\ fences[o[w]] = Closed
    <3> PICK d \in WantOutFence : w = CommitSlot(d) /\ o[w] = out[d]
      BY <1>7
    <3> QED
      BY <1>3, <1>4, <1>5, SlotsHold
  <2>4. ASSUME NEW v \in W, NEW w \in W, o[v] = o[w] PROVE v = w
    BY <1>4, <1>7, <2>4
  <2> QED
    BY <2>1, <2>2, <2>3, <2>4
<1> HIDE DEF W, o
<1>11. holdings' = G
  <2>1. G = [s \in FenceSlots |-> G[s]]
    BY DEF CommittedH
  <2>2. \A s \in FenceSlots : G[s] = IF s \in W THEN o[s] ELSE holdings[s]
    BY DEF CommittedH
  <2> HIDE DEF G
  <2>3. ASSUME NEW e \in Displays PROVE commitFenceFD'[e] = G[CommitSlot(e)]
    BY <1>2, <1>6, <1>8, <2>2, SlotsAre, SlotsHold
  <2>4. ASSUME NEW e \in Displays, NEW x \in Buffers
        PROVE  /\ kms_fence_fd'[e][x] = G[KmsSlot(e, x)]
               /\ render_fence_fd'[e][x] = G[RenderSlot(e, x)]
    BY <1>9, <2>2, SlotsAre, SlotsHold DEF Commit
  <2> QED
    BY <2>1, <2>3, <2>4, HoldingsAre
<1>12. \A f \in Fds : IF \E w \in W : o[w] = f THEN fences'[f] # Closed ELSE fences'[f] = fences[f]
  <2> SUFFICES ASSUME NEW f \in Fds
               PROVE  IF \E w \in W : o[w] = f THEN fences'[f] # Closed ELSE fences'[f] = fences[f]
    OBVIOUS
  <2>1. (\E w \in W : o[w] = f) <=> \E d \in WantOutFence : out[d] = f
    BY <1>6, <1>7
  <2>2. \A c : OutFence(c) # Closed
    BY DEF OutFence, Closed
  <2> QED
    BY <1>2, <2>1, <2>2
<1>13. Passed(FenceSlots, holdings, fences, G, fences')
  BY <1>1, <1>10, <1>12, CommitPassesOn
<1> HIDE DEF G
<1> QED
  BY <1>11, <1>13, FencesPassedOn

LEMMA FenceInit == HeapZeroed /\ Init => FenceInv
<1> SUFFICES ASSUME HeapZeroed, Init PROVE FenceInv
  OBVIOUS
<1>1. \A s \in FenceSlots : Held(s) = NoFd
  <2>1. \A s \in FenceSlots : holdings[s] = NoFd
    BY SlotKinds, SlotsHold DEF Init
  <2> QED
    BY <2>1 DEF holdings
<1>2. FencesHeldOnce /\ NoFenceLeak
  BY <1>1 DEF FencesHeldOnce, NoFenceLeak, Init
<1>3. AsksWithoutFence
  BY DEF Init, AsksWithoutFence
<1>4. \A d \in Displays : bufferLast[d] # Wild
  BY DEF Init, NoBuffer, Wild
<1> QED
  BY <1>2, <1>3, <1>4 DEF FenceInv

LEMMA FenceStep == TypeInv /\ FenceInv /\ [Next]_vars => FenceInv'
<1> SUFFICES ASSUME TypeInv, FenceInv, [Next]_vars PROVE FenceInv'
  OBVIOUS
<1> USE ConstantsOK
<1>1. TypeOK /\ FencesHeldOnce /\ AsksWithoutFence
  BY DEF TypeInv, FenceInv
\* A step that leaves the members alone only has to respect the rest.
<1>2. ASSUME UNCHANGED <<commitFenceFD, kms_fence_fd, render_fence_fd>>,
             \A f \in Fds : fences'[f] = Closed <=> fences[f] = Closed,
             \A c \in Crtcs : request'[c] \in {NoDisplay, request[c]},
             \A d \in Displays : bufferLast'[d] = Wild => bufferLast[d] = Wild
      PROVE  FenceInv'
  <2>1. FencesHeldOnce' /\ (NoFenceLeak => NoFenceLeak')
    BY <1>1, <1>2, FencesLeftAlone
  <2>2. AsksWithoutFence'
    BY <1>1, <1>2 DEF AsksWithoutFence
  <2> QED
    BY <1>2, <2>1, <2>2 DEF FenceInv
<1>3. ASSUME NEW d \in Displays, RepaintOutput(d) PROVE FenceInv'
  <2> PICK b \in find_free_buffer(d) : RepaintFences(d, b)
    BY <1>3 DEF RepaintOutput, repaint_one_output
  <2>1. b \in Buffers
    BY DEF find_free_buffer
  <2>2. FencesHeldOnce' /\ (NoFenceLeak => NoFenceLeak')
    BY <1>1, <2>1, RepaintPassesOn
  <2>3. \/ commitFenceFD' = [commitFenceFD EXCEPT ![d] = NoFd]
        \/ ~ExplicitFencing[d] /\ UNCHANGED commitFenceFD
    BY DEF RepaintFences, ResetCommitFence, fenceVars
  <2>4. request' = [request EXCEPT ![CrtcOf[d]] = d] /\ bufferLast' = bufferLast
    BY <1>3 DEF RepaintOutput, repaint_one_output
  <2>5. AsksWithoutFence'
    BY <1>1, <2>3, <2>4, CrtcOfType DEF AsksWithoutFence, TypeOK, DisplayOrNone
  <2> QED
    BY <2>2, <2>4, <2>5 DEF FenceInv
<1>4. ASSUME NEW d \in Displays, HandoverFence(d) PROVE FenceInv'
  <2>1. FencesHeldOnce' /\ (NoFenceLeak => NoFenceLeak')
    BY <1>1, <1>4, HandoverPasses DEF FenceInv
  <2>2. commitFenceFD' = [commitFenceFD EXCEPT ![d] = NoFd] \/ UNCHANGED commitFenceFD
    BY <1>4 DEF HandoverFence, ResetCommitFence
  <2>3. request' = request /\ bufferLast' = bufferLast
    BY <1>4 DEF HandoverFence, displayVars
  <2>4. AsksWithoutFence'
    BY <1>1, <2>2, <2>3 DEF AsksWithoutFence, TypeOK, DisplayOrNone
  <2> QED
    BY <2>1, <2>3, <2>4 DEF FenceInv
<1>5. CASE Commit
  <2>1. FencesHeldOnce' /\ (NoFenceLeak => NoFenceLeak')
    BY <1>1, <1>5, CommitPasses
  <2>2. (\A c \in Crtcs : request'[c] = NoDisplay) /\ bufferLast' = bufferLast
    BY <1>5 DEF Commit, displayVars
  <2> QED
    BY <2>1, <2>2 DEF FenceInv, AsksWithoutFence
<1>6. ASSUME NEW c \in Crtcs, HandleEvent(c) PROVE FenceInv'
  <2>1. PICK d \in Displays : /\ bufferPending[d] \in Buffers
                              /\ bufferLast' = [bufferLast EXCEPT ![d] = bufferPending[d]]
    BY <1>6 DEF HandleEvent, DisplayOfEvent, HandlerAssertions
  <2>2. \A e \in Displays : bufferLast'[e] = Wild => bufferLast[e] = Wild
    BY <2>1 DEF TypeInv, TypeOK, Buffers, Wild
  <2> QED
    BY <1>2, <1>6, <2>2 DEF HandleEvent, loopVars, fenceVars
<1>7. ASSUME NEW c \in Crtcs, KernelFlip(c) PROVE FenceInv'
  <2>1. \A f \in Fds : fences'[f] = Closed <=> fences[f] = Closed
    BY <1>7 DEF KernelFlip, OutFence, Signalled, Closed
  <2> QED
    BY <1>2, <1>7, <2>1 DEF KernelFlip, loopVars, displayVars
<1>8. CASE CommitFails
  BY <1>2, <1>8 DEF CommitFails, displayVars, fenceVars
<1>9. CASE UNCHANGED <<fenceVars, request, bufferLast>>
  BY <1>2, <1>9 DEF fenceVars
<1>10. CASE \/ ReadEvents \/ PollOrReadFails \/ DispatchDone \/ Leave \/ Abort \/ UNCHANGED vars
            \/ \E d \in Displays : SkipOutput(d) \/ \E b \in Buffers : GpuDone(d, b)
  BY <1>9, <1>10
     DEF ReadEvents, PollOrReadFails, DispatchDone, Leave, Abort, SkipOutput, GpuDone, vars,
         loopVars, displayVars
<1> QED
  BY <1>3, <1>4, <1>5, <1>6, <1>7, <1>8, <1>10
     DEF Next, Program, Kernel, Gpu, RepaintAsserts, HandoverAsserts, HandlerAsserts

\* Refused commits, exits and the GPU included.
LEMMA FenceInvariance == HeapZeroed /\ Spec => [](TypeInv /\ FenceInv)
<1>1. CASE HeapZeroed
  BY <1>1, TypeInit, TypeStep, FenceInit, FenceStep, PTL DEF Spec
<1>2. CASE ~HeapZeroed
  BY <1>2
<1> QED
  BY <1>1, <1>2

\* If bufferLast starts as a null pointer, whichever displays share a CRTC and
\* however often the kernel refuses: no member holds a descriptor that is
\* closed, and no two hold the same, so none is closed twice or used after it
\* was (main.cpp:68-74, 344-425, 803-815).
THEOREM FencesAlwaysHeldOnce == HeapZeroed /\ Spec => []FencesHeldOnce
<1>1. FenceInv => FencesHeldOnce
  BY DEF FenceInv
<1> QED
  BY <1>1, FenceInvariance, PTL

\* Nor is any descriptor ever lost.
THEOREM NoFenceEverLeaks == HeapZeroed /\ Spec => []NoFenceLeak
<1>1. FenceInv => NoFenceLeak
  BY DEF FenceInv
<1> QED
  BY <1>1, FenceInvariance, PTL

-----------------------------------------------------------------------------
(***************************************************************************)
(* With a CRTC for each display the wait for a buffer's last commit is     *)
(* never needed.                                                           *)
(***************************************************************************)
\* A descriptor that stays where it is keeps the fence it refers to.
LEMMA RepaintKeepsFences ==
  ASSUME TypeOK, FencesHeldOnce, NEW d \in Displays, NEW b \in Buffers, RepaintFences(d, b)
  PROVE  \A e \in Displays :
           /\ commitFenceFD'[e] # NoFd =>
                /\ commitFenceFD'[e] = commitFenceFD[e]
                /\ fences'[commitFenceFD[e]] = fences[commitFenceFD[e]]
           /\ \A x \in Buffers :
                kms_fence_fd'[e][x] # NoFd =>
                  /\ kms_fence_fd'[e][x] = kms_fence_fd[e][x]
                  /\ fences'[kms_fence_fd[e][x]] = fences[kms_fence_fd[e][x]]
<1> SUFFICES ASSUME NEW e \in Displays, NEW x \in Buffers
             PROVE  /\ commitFenceFD'[e] # NoFd =>
                         /\ commitFenceFD'[e] = commitFenceFD[e]
                         /\ fences'[commitFenceFD[e]] = fences[commitFenceFD[e]]
                    /\ kms_fence_fd'[e][x] # NoFd =>
                         /\ kms_fence_fd'[e][x] = kms_fence_fd[e][x]
                         /\ fences'[kms_fence_fd[e][x]] = fences[kms_fence_fd[e][x]]
  BY ConstantsOK DEF Buffers
<1> USE DEF TypeOK
<1>1. HeldOnce(FenceSlots, holdings, fences)
  BY HeldOnceIs
\* Two holders of the same descriptor are the same.
<1>2. /\ commitFenceFD[e] # NoFd =>
           /\ fences[commitFenceFD[e]] # Closed
           /\ commitFenceFD[e] = commitFenceFD[d] => e = d
           /\ commitFenceFD[e] # kms_fence_fd[d][b] /\ commitFenceFD[e] # render_fence_fd[d][b]
      /\ kms_fence_fd[e][x] # NoFd =>
           /\ fences[kms_fence_fd[e][x]] # Closed
           /\ kms_fence_fd[e][x] = kms_fence_fd[d][b] => e = d /\ x = b
           /\ kms_fence_fd[e][x] # commitFenceFD[d] /\ kms_fence_fd[e][x] # render_fence_fd[d][b]
  <2>1. /\ holdings[CommitSlot(e)] = commitFenceFD[e] /\ holdings[CommitSlot(d)] = commitFenceFD[d]
        /\ holdings[KmsSlot(e, x)] = kms_fence_fd[e][x] /\ holdings[KmsSlot(d, b)] = kms_fence_fd[d][b]
        /\ holdings[RenderSlot(d, b)] = render_fence_fd[d][b]
    BY SlotsHold
  <2>2. {CommitSlot(e), CommitSlot(d), KmsSlot(e, x), KmsSlot(d, b), RenderSlot(d, b)}
          \subseteq FenceSlots
    BY SlotsAre
  <2> QED
    BY <1>1, <2>1, <2>2, SlotsDiffer DEF HeldOnce
<1>3. CASE Fenced(d)
  <2>1. PICK n \in FreeFds(Close(fences, kms_fence_fd[d][b])) :
          /\ fences' = CloseCommitFence(DrawFences(d, b, n), d)
          /\ kms_fence_fd' = [kms_fence_fd EXCEPT ![d][b] = NoFd]
    BY <1>3 DEF RepaintFences, Fenced
  <2>2. commitFenceFD' = [commitFenceFD EXCEPT ![d] = NoFd]
    BY <1>3 DEF RepaintFences, Fenced, ResetCommitFence
  <2>3. n \in Fds /\ (n = kms_fence_fd[d][b] \/ fences[n] = Closed)
    BY DEF FreeFds, Close
  <2>4. \A f \in Fds : f \notin {n, kms_fence_fd[d][b], render_fence_fd[d][b], commitFenceFD[d]}
                         => fences'[f] = fences[f]
    BY <2>1, <2>3 DEF CloseCommitFence, DrawFences, Close
  <2>5. /\ commitFenceFD'[e] = IF e = d THEN NoFd ELSE commitFenceFD[e]
        /\ kms_fence_fd'[e][x] = IF e = d /\ x = b THEN NoFd ELSE kms_fence_fd[e][x]
    BY <2>1, <2>2
  <2>6. commitFenceFD[e] \in FdOrNone /\ kms_fence_fd[e][x] \in FdOrNone
    OBVIOUS
  <2> QED
    BY <1>2, <2>3, <2>4, <2>5, <2>6 DEF FdOrNone
<1>4. CASE ~Fenced(d) /\ ExplicitFencing[d]
  <2>1. /\ fences' = Close(fences, commitFenceFD[d])
        /\ commitFenceFD' = [commitFenceFD EXCEPT ![d] = NoFd]
        /\ UNCHANGED kms_fence_fd
    BY <1>4 DEF RepaintFences, CloseCommitFence, ResetCommitFence
  <2>2. commitFenceFD[e] \in FdOrNone /\ kms_fence_fd[e][x] \in FdOrNone
    OBVIOUS
  <2> QED
    BY <1>2, <2>1, <2>2 DEF FdOrNone, Close
<1>5. CASE ~ExplicitFencing[d]
  BY <1>5 DEF RepaintFences, Fenced, fenceVars
<1> QED
  BY <1>3, <1>4, <1>5

\* If a step keeps what is held, what it refers to and the commits under way,
\* it keeps SignalInv.
LEMMA SignalsKept ==
  ASSUME NEW d \in Displays, SignalInv(d), bufferLast'[d] = bufferLast[d],
         inflight[CrtcOf[d]] # NoFrame => inflight'[CrtcOf[d]] # NoFrame,
         commitFenceFD'[d] # NoFd =>
           /\ commitFenceFD'[d] = commitFenceFD[d]
           /\ fences'[commitFenceFD[d]] = fences[commitFenceFD[d]],
         \A x \in Buffers :
           kms_fence_fd'[d][x] # NoFd =>
             /\ kms_fence_fd'[d][x] = kms_fence_fd[d][x]
             /\ fences'[kms_fence_fd[d][x]] = fences[kms_fence_fd[d][x]]
  PROVE  SignalInv(d)'
BY DEF SignalInv, SignalledOrDue, Buffers

LEMMA SignalInit == Init => SignalsInv
BY DEF Init, SignalsInv, SignalInv

\* The frames of a commit get fences that signal when the frames are shown.
LEMMA CommitSignals ==
  ASSUME CrtcsApart, TypeInv, IInv, FencesHeldOnce, SignalsInv, Commit
  PROVE  SignalsInv'
<1> SUFFICES ASSUME NEW d \in Displays PROVE SignalInv(d)'
  BY DEF SignalsInv, Displays
<1>1. PICK out \in Injection(WantOutFence, FreeFds(fences)) :
        /\ commitFenceFD' = [e \in Displays |->
                               IF e \in WantOutFence THEN out[e] ELSE commitFenceFD[e]]
        /\ fences' = [f \in Fds |->
                        IF \E e \in WantOutFence : out[e] = f
                        THEN OutFence(CrtcOf[CHOOSE e \in WantOutFence : out[e] = f])
                        ELSE fences[f]]
  BY DEF Commit
<1>2. /\ \A e \in WantOutFence : out[e] \in Fds /\ fences[out[e]] = Closed
      /\ \A e, x \in WantOutFence : out[e] = out[x] => e = x
  BY DEF Injection, IsInjective, FreeFds
<1>3. inflight'[CrtcOf[d]] =
        IF request[CrtcOf[d]] = NoDisplay THEN inflight[CrtcOf[d]]
        ELSE Frame(request[CrtcOf[d]], bufferPending[request[CrtcOf[d]]])
  BY CrtcOfType DEF Commit
<1>4. request[CrtcOf[d]] \in Displays \union {NoDisplay}
  BY CrtcOfType DEF TypeInv, TypeOK, DisplayOrNone
<1>5. inflight[CrtcOf[d]] # NoFrame \/ d \in Requested => inflight'[CrtcOf[d]] # NoFrame
  <2>1. ASSUME d \in Requested PROVE request[CrtcOf[d]] # NoDisplay
    <3>1. PICK c \in Crtcs : request[c] = d
      BY <2>1 DEF Requested
    <3>2. PICK e \in Displays : CrtcOf[e] = c
      BY DisplayOfCrtc
    <3>3. d # NoDisplay
      BY DEF Displays, NoDisplay
    <3>4. InRequest(e)
      BY <3>1, <3>2, <3>3 DEF IInv, PhaseInv, Idle, Committed, Presented, Dropped
    <3> QED
      BY <3>1, <3>2, <3>3, <3>4 DEF InRequest
  <2> QED
    BY <1>3, <1>4, <2>1, FrameNotNone
\* What was held before is open, so its fence is not one of the new ones.
<1>6. \A f \in Fds : fences[f] # Closed => fences'[f] = fences[f]
  BY <1>1, <1>2
<1>7. HeldOnce(FenceSlots, holdings, fences)
  BY HeldOnceIs
<1>8. commitFenceFD[d] # NoFd => commitFenceFD[d] \in Fds /\ fences[commitFenceFD[d]] # Closed
  BY <1>7, SlotsAre, SlotsHold DEF HeldOnce, TypeInv, TypeOK, FdOrNone
<1>9. \A x \in Buffers :
        kms_fence_fd[d][x] # NoFd =>
          kms_fence_fd[d][x] \in Fds /\ fences[kms_fence_fd[d][x]] # Closed
  <2> SUFFICES ASSUME NEW x \in Buffers, kms_fence_fd[d][x] # NoFd
               PROVE  kms_fence_fd[d][x] \in Fds /\ fences[kms_fence_fd[d][x]] # Closed
    OBVIOUS
  <2>1. KmsSlot(d, x) \in FenceSlots /\ holdings[KmsSlot(d, x)] = kms_fence_fd[d][x]
    BY SlotsAre, SlotsHold
  <2>2. kms_fence_fd[d][x] \in FdOrNone
    BY DEF TypeInv, TypeOK
  <2> QED
    BY <1>7, <2>1, <2>2 DEF HeldOnce, FdOrNone
<1>10. SignalInv(d) /\ bufferLast' = bufferLast /\ kms_fence_fd' = kms_fence_fd
  BY DEF SignalsInv, Commit, displayVars
<1>11. CASE d \notin WantOutFence
  <2>1. commitFenceFD'[d] = commitFenceFD[d]
    BY <1>1, <1>11
  <2> QED
    BY <1>5, <1>6, <1>8, <1>9, <1>10, <2>1, SignalsKept
<1>12. CASE d \in WantOutFence
  <2>1. d \in Requested
    BY <1>12 DEF WantOutFence
  <2>2. commitFenceFD'[d] = out[d]
    BY <1>1, <1>12
  <2>3. fences'[out[d]] = OutFence(CrtcOf[d])
    <3>1. (CHOOSE e \in WantOutFence : out[e] = out[d]) = d
      BY <1>2, <1>12
    <3> QED
      BY <1>1, <1>2, <1>12, <3>1
  <2>4. SignalledOrDue(d, commitFenceFD[d])'
    BY <1>5, <2>1, <2>2, <2>3 DEF SignalledOrDue
  <2>5. ASSUME NEW x \in Buffers, kms_fence_fd[d][x] # NoFd
        PROVE  \/ fences'[kms_fence_fd[d][x]] = Signalled
               \/ SignalledOrDue(d, kms_fence_fd[d][x])' /\ x = bufferLast[d]
    BY <1>5, <1>6, <1>9, <1>10, <2>5 DEF SignalInv, SignalledOrDue
  <2> QED
    BY <1>10, <2>4, <2>5 DEF SignalInv, SignalledOrDue, Buffers
<1> QED
  BY <1>11, <1>12

\* bufferLast gets the fence of the commit that will replace it.
LEMMA HandoverSignals ==
  ASSUME CrtcsApart, TypeInv, IInv, FenceInv, SignalsInv,
         NEW e \in Displays, HandoverFence(e)
  PROVE  SignalsInv'
<1> SUFFICES ASSUME NEW d \in Displays PROVE SignalInv(d)'
  BY DEF SignalsInv, Displays
<1>1. SignalInv(d) /\ SignalInv(e) /\ bufferLast' = bufferLast /\ inflight' = inflight
  BY DEF SignalsInv, HandoverFence, displayVars, kernelVars
<1>2. bufferLast[e] \in Buffers \union {NoBuffer} /\ FencesHeldOnce
  BY DEF TypeInv, TypeOK, BufferPointer, FenceInv
<1>3. CASE ~(Fenced(e) /\ bufferLast[e] \in Buffers)
  <2>1. UNCHANGED <<commitFenceFD, kms_fence_fd, fences>>
    BY <1>2, <1>3 DEF HandoverFence
  <2> QED
    BY <1>1, <2>1, SignalsKept
<1>4. CASE Fenced(e) /\ bufferLast[e] \in Buffers
  <2> DEFINE b == bufferLast[e]
  <2>1. b \in Buffers
    BY <1>4
  <2>2. /\ commitFenceFD[e] \in Fds
        /\ fences' = Close(fences, kms_fence_fd[e][b])
        /\ kms_fence_fd' = [kms_fence_fd EXCEPT ![e][b] = commitFenceFD[e]]
        /\ commitFenceFD' = [commitFenceFD EXCEPT ![e] = NoFd]
    BY <1>4, NotBuffers DEF HandoverFence, ReplaceKmsFence, ResetCommitFence, linux_sync_file_is_valid
  <2>3. HeldOnce(FenceSlots, holdings, fences)
    BY <1>2, HeldOnceIs
  <2>4. /\ commitFenceFD[d] # NoFd => commitFenceFD[d] # kms_fence_fd[e][b]
        /\ \A x \in Buffers :
             kms_fence_fd[d][x] # NoFd /\ kms_fence_fd[d][x] = kms_fence_fd[e][b] => d = e /\ x = b
    BY <2>1, <2>3, SlotsAre, SlotsHold, SlotsDiffer DEF HeldOnce
  <2>5. commitFenceFD[e] # kms_fence_fd[e][b] /\ commitFenceFD[e] # NoFd
    BY <2>1, <2>2, <2>3, SlotsAre, SlotsHold, SlotsDiffer, ConstantsOK DEF HeldOnce
  <2>6. \A f \in Fds : f # kms_fence_fd[e][b] => fences'[f] = fences[f]
    BY <2>2 DEF Close
  <2>7. commitFenceFD[d] \in FdOrNone /\ \A x \in Buffers : kms_fence_fd[d][x] \in FdOrNone
    BY DEF TypeInv, TypeOK
  <2>8. commitFenceFD'[d] = IF d = e THEN NoFd ELSE commitFenceFD[d]
    BY <2>2 DEF TypeInv, TypeOK
  <2>9. \A x \in Buffers :
          kms_fence_fd'[d][x] = IF d = e /\ x = b THEN commitFenceFD[e] ELSE kms_fence_fd[d][x]
    BY <2>1, <2>2 DEF TypeInv, TypeOK
  <2>10. CASE d # e
    <3>1. /\ commitFenceFD'[d] # NoFd =>
               /\ commitFenceFD'[d] = commitFenceFD[d]
               /\ fences'[commitFenceFD[d]] = fences[commitFenceFD[d]]
          /\ \A x \in Buffers :
               kms_fence_fd'[d][x] # NoFd =>
                 /\ kms_fence_fd'[d][x] = kms_fence_fd[d][x]
                 /\ fences'[kms_fence_fd[d][x]] = fences[kms_fence_fd[d][x]]
      BY <2>4, <2>6, <2>7, <2>8, <2>9, <2>10 DEF FdOrNone
    <3> QED
      BY <1>1, <3>1, SignalsKept
  <2>11. CASE d = e
    <3>1. fences'[commitFenceFD[e]] = fences[commitFenceFD[e]]
      BY <2>2, <2>5, <2>6
    <3>2. SignalledOrDue(e, commitFenceFD[e])
      BY <1>1, <2>5 DEF SignalInv
    <3>3. ASSUME NEW x \in Buffers, kms_fence_fd'[d][x] # NoFd
          PROVE  \/ fences'[kms_fence_fd'[d][x]] = Signalled
                 \/ SignalledOrDue(d, kms_fence_fd[d][x])' /\ x = bufferLast'[d]
      <4>1. CASE x = b
        <5>1. kms_fence_fd'[d][x] = commitFenceFD[e]
          BY <2>9, <2>11, <4>1
        <5> QED
          BY <1>1, <2>11, <3>1, <3>2, <4>1, <5>1 DEF SignalledOrDue
      <4>2. CASE x # b
        <5>1. kms_fence_fd'[d][x] = kms_fence_fd[d][x]
          BY <2>9, <4>2
        <5>2. fences'[kms_fence_fd[d][x]] = fences[kms_fence_fd[d][x]]
          BY <2>4, <2>6, <2>7, <3>3, <4>2, <5>1 DEF FdOrNone
        <5>3. fences[kms_fence_fd[d][x]] = Signalled
          BY <1>1, <2>11, <3>3, <4>2, <5>1 DEF SignalInv
        <5> QED
          BY <5>1, <5>2, <5>3
      <4> QED
        BY <4>1, <4>2
    <3>4. commitFenceFD'[d] = NoFd
      BY <2>8, <2>11
    <3> QED
      BY <3>3, <3>4 DEF SignalInv, Buffers
  <2> QED
    BY <2>10, <2>11
<1> QED
  BY <1>3, <1>4

\* At the vertical blank every fence of the CRTC signals.
LEMMA FlipSignals ==
  ASSUME CrtcsApart, TypeInv, SignalsInv, FencesHeldOnce, NEW c \in Crtcs, KernelFlip(c)
  PROVE  SignalsInv'
<1> SUFFICES ASSUME NEW d \in Displays PROVE SignalInv(d)'
  BY DEF SignalsInv, Displays
<1>1. /\ SignalInv(d)
      /\ UNCHANGED <<bufferLast, commitFenceFD, kms_fence_fd>>
      /\ inflight' = [inflight EXCEPT ![c] = NoFrame]
      /\ fences' = [f \in Fds |-> IF fences[f] = OutFence(c) THEN Signalled ELSE fences[f]]
  BY DEF SignalsInv, KernelFlip, displayVars
<1>2. \A f \in FdOrNone :
        f # NoFd /\ SignalledOrDue(d, f) => SignalledOrDue(d, f)'
  <2> SUFFICES ASSUME NEW f \in Fds, SignalledOrDue(d, f)
               PROVE  SignalledOrDue(d, f)'
    BY DEF FdOrNone
  <2>1. CASE fences[f] = Signalled
    BY <1>1, <2>1 DEF SignalledOrDue, Signalled, OutFence
  <2>2. CASE fences[f] = OutFence(CrtcOf[d]) /\ CrtcOf[d] = c
    BY <1>1, <2>2 DEF SignalledOrDue
  <2>3. CASE fences[f] = OutFence(CrtcOf[d]) /\ CrtcOf[d] # c /\ inflight[CrtcOf[d]] # NoFrame
    <3>1. OutFence(CrtcOf[d]) # OutFence(c)
      BY <2>3 DEF OutFence
    <3>2. inflight'[CrtcOf[d]] = inflight[CrtcOf[d]]
      BY <1>1, <2>3 DEF TypeInv, TypeOK
    <3> QED
      BY <1>1, <2>3, <3>1, <3>2 DEF SignalledOrDue
  <2> QED
    BY <2>1, <2>2, <2>3 DEF SignalledOrDue
<1>3. \A f \in Fds : fences[f] = Signalled => fences'[f] = Signalled
  BY <1>1
<1>4. commitFenceFD[d] \in FdOrNone /\ \A x \in Buffers : kms_fence_fd[d][x] \in FdOrNone
  BY DEF TypeInv, TypeOK
<1> QED
  BY <1>1, <1>2, <1>3, <1>4 DEF SignalInv, SignalledOrDue, FdOrNone, Buffers

\* When an event is dispatched its commit's fence has signalled.
LEMMA EventSignals ==
  ASSUME CrtcsApart, TypeInv, IInv, SignalsInv, NEW c \in Crtcs, HandleEvent(c)
  PROVE  SignalsInv'
<1> SUFFICES ASSUME NEW d \in Displays PROVE SignalInv(d)'
  BY DEF SignalsInv, Displays
<1>1. PICK e \in Displays : CrtcOf[e] = c /\ bufferLast' = [bufferLast EXCEPT ![e] = bufferPending[e]]
  BY DEF HandleEvent, DisplayOfEvent
<1>2. /\ SignalInv(d) /\ batch[c] > 0
      /\ UNCHANGED <<commitFenceFD, kms_fence_fd, fences, inflight>>
  BY DEF SignalsInv, HandleEvent, fenceVars, kernelVars
<1>3. CASE d = e
  <2>1. batch[c] \in Nat /\ queued[c] \in Nat
    BY DEF TypeInv, TypeOK
  <2>2. inflight[c] = NoFrame
    BY <1>1, <1>2, <2>1 DEF IInv, PhaseInv, Idle, InRequest, Committed, Presented, Dropped
  <2> QED
    BY <1>1, <1>2, <1>3, <2>2 DEF SignalInv, SignalledOrDue, Buffers
<1>4. CASE d # e
  BY <1>1, <1>2, <1>4, SignalsKept DEF TypeInv, TypeOK
<1> QED
  BY <1>3, <1>4

LEMMA SignalStep ==
  CrtcsApart /\ TypeInv /\ IInv /\ FenceInv /\ SignalsInv /\ [Next]_vars => SignalsInv'
<1> SUFFICES ASSUME CrtcsApart, TypeInv, IInv, FenceInv, SignalsInv, [Next]_vars
             PROVE  SignalsInv'
  OBVIOUS
<1>0. FencesHeldOnce
  BY DEF FenceInv
<1>1. CASE UNCHANGED <<fenceVars, inflight, bufferLast>>
  BY <1>1 DEF fenceVars, SignalsInv, SignalInv, SignalledOrDue, Displays, Buffers
<1>2. ASSUME NEW d \in Displays, RepaintOutput(d) PROVE SignalsInv'
  <2> PICK b \in find_free_buffer(d) : RepaintFences(d, b)
    BY <1>2 DEF RepaintOutput, repaint_one_output
  <2>1. b \in Buffers
    BY DEF find_free_buffer
  <2>2. UNCHANGED <<inflight, bufferLast>>
    BY <1>2 DEF RepaintOutput, repaint_one_output, kernelVars
  <2>3. ASSUME NEW e \in Displays PROVE SignalInv(e)'
    BY <1>0, <2>1, <2>2, RepaintKeepsFences, SignalsKept DEF SignalsInv, TypeInv
  <2> QED
    BY <2>3 DEF SignalsInv, Displays
<1>3. CASE \/ CommitFails \/ ReadEvents \/ PollOrReadFails \/ DispatchDone \/ Leave \/ Abort
           \/ UNCHANGED vars
           \/ \E d \in Displays : SkipOutput(d) \/ \E b \in Buffers : GpuDone(d, b)
  BY <1>1, <1>3
     DEF CommitFails, ReadEvents, PollOrReadFails, DispatchDone, Leave, Abort, SkipOutput,
         GpuDone, vars, displayVars, kernelVars
<1> QED
  BY <1>0, <1>2, <1>3, CommitSignals, HandoverSignals, FlipSignals, EventSignals
     DEF Next, Program, Kernel, Gpu, RepaintAsserts, HandoverAsserts, HandlerAsserts

\* With any number of displays that have a CRTC each, members that start at
\* zero, and fences on both sides or not: when a buffer can be drawn into, the fence of its last commit has signalled
\* (main.cpp:344-347).
THEOREM ReusedAlwaysSignalled == CrtcsApart /\ HeapZeroed /\ Spec => []ReusedFenceSignalled
<1>1. CASE CrtcsApart /\ HeapZeroed
  <2>1. SignalsInv /\ IInv => ReusedFenceSignalled
    BY DEF SignalsInv, SignalInv, IInv, BuffersInv, ReusedFenceSignalled
  <2>2. Spec => [](TypeInv /\ IInv)
    BY <1>1, Invariance
  <2>3. TypeInv /\ IInv /\ FenceInv /\ SignalsInv /\ [Next]_vars => SignalsInv'
    BY <1>1, SignalStep
  <2> QED
    BY <1>1, <2>1, <2>2, <2>3, SignalInit, FenceInvariance, PTL DEF Spec
<1>2. CASE ~(CrtcsApart /\ HeapZeroed)
  BY <1>2
<1> QED
  BY <1>1, <1>2
-----------------------------------------------------------------------------
(***************************************************************************)
(* The assertions with fences on both sides. The descriptor of the pending *)
(* buffer's drawing is held from the drawing to the event, and there are   *)
(* enough descriptors for those that are held at a time. With several displays *)
(* HandoverFence can still find a display that the commit was not for.     *)
(***************************************************************************)
\* The process can have five files open for each display, however deep the
\* queues: an out-fence, and two fences for each of the two buffers in use.
EnoughFds == IsFiniteSet(Fds) /\ Cardinality(Fds) >= 5 * NumDisplays

\* The other buffers never have a fence.
SpareHasNone(d) ==
  \A b \in Buffers : b > 2 => kms_fence_fd[d][b] = NoFd /\ render_fence_fd[d][b] = NoFd

SpareInv == \A d \in Displays : SpareHasNone(d)

\* What was drawn has a fence.
DrawnHasFence(d) ==
  Fenced(d) /\ bufferPending[d] \in Buffers => render_fence_fd[d][bufferPending[d]] # NoFd

RenderFenceInv == \A d \in Displays : DrawnHasFence(d)

\* A program with one display commits in every iteration: it scans a display
\* that is idle, and hands the fence over that it was just given.
SoloPhase(d) ==
  /\ pc = "scan" => Idle(d) \/ InRequest(d)
  /\ pc = "dispatch" => Idle(d) \/ batch[CrtcOf[d]] > 0
  /\ pc = "fences" /\ cursor = d /\ Fenced(d) => commitFenceFD[d] # NoFd

SoloInv == \A d \in Displays : SoloPhase(d)

LEMMA SpareInit == Init => SpareInv
BY DEF Init, SpareInv, SpareHasNone

LEMMA SpareStep == CrtcsApart /\ TypeInv /\ IInv /\ SpareInv /\ [Next]_vars => SpareInv'
<1> SUFFICES ASSUME CrtcsApart, TypeInv, IInv, SpareInv, [Next]_vars, NEW d \in Displays
             PROVE  SpareHasNone(d)'
  BY DEF SpareInv, Displays
<1> USE DEF SpareInv, SpareHasNone, Fenced
<1>1. CASE UNCHANGED <<kms_fence_fd, render_fence_fd>>
  BY <1>1 DEF Buffers
<1>2. ASSUME NEW e \in Displays, RepaintOutput(e) PROVE SpareHasNone(d)'
  <2> PICK b \in find_free_buffer(e) : RepaintFences(e, b)
    BY <1>2 DEF RepaintOutput, repaint_one_output
  <2>1. b \in {1, 2}
    BY <1>2, FreeIsOfTwo DEF RepaintOutput
  <2>2. CASE UNCHANGED <<kms_fence_fd, render_fence_fd>>
    BY <1>1, <2>2
  <2>3. CASE \E n : /\ kms_fence_fd' = [kms_fence_fd EXCEPT ![e][b] = NoFd]
                    /\ render_fence_fd' = [render_fence_fd EXCEPT ![e][b] = n]
    BY <2>1, <2>3 DEF TypeInv, TypeOK, Buffers
  <2> QED
    BY <2>2, <2>3 DEF RepaintFences, fenceVars
<1>3. ASSUME NEW e \in Displays, HandoverFence(e) PROVE SpareHasNone(d)'
  <2>1. /\ bufferLast[e] \in {NoBuffer, Wild, 1, 2}
        /\ render_fence_fd' = render_fence_fd
    BY <1>3 DEF IInv, BuffersInv, HandoverFence, TypeInv, TypeOK, BufferPointer
  <2>2. \/ kms_fence_fd' = kms_fence_fd
        \/ /\ bufferLast[e] \in {1, 2}
           /\ kms_fence_fd' = [kms_fence_fd EXCEPT ![e][bufferLast[e]] = commitFenceFD[e]]
    BY <1>3, <2>1, NotBuffers DEF HandoverFence, ReplaceKmsFence, IInv, BuffersInv
  <2>3. CASE kms_fence_fd' = kms_fence_fd
    BY <1>1, <2>1, <2>3
  <2>4. ASSUME bufferLast[e] \in {1, 2}, NEW b \in Buffers, b > 2,
               kms_fence_fd' = [kms_fence_fd EXCEPT ![e][bufferLast[e]] = commitFenceFD[e]]
        PROVE  kms_fence_fd'[d][b] = NoFd
    BY <2>4 DEF TypeInv, TypeOK
  <2> QED
    BY <2>1, <2>2, <2>3, <2>4 DEF Buffers
<1>4. CASE \/ Commit \/ CommitFails \/ ReadEvents \/ PollOrReadFails \/ DispatchDone \/ Leave
           \/ Abort \/ UNCHANGED vars
           \/ \E e \in Displays : SkipOutput(e) \/ \E b \in Buffers : GpuDone(e, b)
           \/ \E c \in Crtcs : KernelFlip(c) \/ HandleEvent(c)
  BY <1>1, <1>4
     DEF Commit, CommitFails, ReadEvents, PollOrReadFails, DispatchDone, Leave, Abort, SkipOutput,
         GpuDone, KernelFlip, HandleEvent, vars, fenceVars
<1> QED
  BY <1>2, <1>3, <1>4
     DEF Next, Program, Kernel, Gpu, RepaintAsserts, HandoverAsserts, HandlerAsserts

\* The holders that are ever used.
UsedSlots == {s \in FenceSlots : s[3] \in {NoBuffer, 1, 2}}

LEMMA SpareSlotsEmpty ==
  ASSUME TypeInv, SpareInv, NEW s \in FenceSlots, holdings[s] # NoFd
  PROVE  s \in UsedSlots
<1> SUFFICES ASSUME s \notin UsedSlots PROVE FALSE
  OBVIOUS
<1>1. s[3] \notin {NoBuffer, 1, 2}
  BY DEF UsedSlots
<1>2. \A e \in Displays : s # CommitSlot(e)
  BY <1>1 DEF CommitSlot
<1>3. PICK e \in Displays, x \in Buffers : s \in {KmsSlot(e, x), RenderSlot(e, x)}
  BY <1>2, SlotKinds
<1>4. s[3] = x
  BY <1>3 DEF KmsSlot, RenderSlot
<1>5. x > 2
  BY <1>1, <1>4, ConstantsOK DEF Buffers, NoBuffer
<1> QED
  BY <1>3, <1>5, SlotsHold DEF SpareInv, SpareHasNone

LEMMA UsedSlotsBound ==
  IsFiniteSet(UsedSlots) /\ Cardinality(UsedSlots) \in Nat /\ Cardinality(UsedSlots) <= 5 * NumDisplays
<1> DEFINE Places == Displays \X (1 .. 5)
           slotAt(d, i) == IF i = 1 THEN CommitSlot(d)
                           ELSE IF i = 2 THEN KmsSlot(d, 1)
                           ELSE IF i = 3 THEN KmsSlot(d, 2)
                           ELSE IF i = 4 THEN RenderSlot(d, 1)
                           ELSE RenderSlot(d, 2)
           slotOf == [p \in Places |-> slotAt(p[1], p[2])]
           Slots  == {slotOf[p] : p \in Places}
<1>1. IsFiniteSet(Displays) /\ Cardinality(Displays) = NumDisplays
  BY FS_Interval, ConstantsOK DEF Displays
<1>2. IsFiniteSet(1 .. 5) /\ Cardinality(1 .. 5) = 5
  <2>1. 1 \in Int /\ 5 \in Int /\ ~(1 > 5) /\ 5 - 1 + 1 = 5
    OBVIOUS
  <2> QED
    BY <2>1, FS_Interval, Zenon
<1>3. IsFiniteSet(Places) /\ Cardinality(Places) = NumDisplays * 5
  BY <1>1, <1>2, FS_Product
<1>4. slotOf \in Surjection(Places, Slots)
  BY DEF Surjection
<1>5. ASSUME NEW s \in UsedSlots PROVE s \in Slots
  <2>1. PICK d \in Displays, i \in 1 .. 5 : s = slotAt(d, i)
    <3>1. CASE \E d \in Displays : s = CommitSlot(d)
      BY <3>1
    <3>2. ASSUME NEW d \in Displays, NEW b \in Buffers, s \in {KmsSlot(d, b), RenderSlot(d, b)}
          PROVE  \E i \in 1 .. 5 : s = slotAt(d, i)
      <4>1. s[3] = b /\ b # NoBuffer
        BY <3>2 DEF KmsSlot, RenderSlot, Buffers, NoBuffer
      <4>2. b \in {1, 2}
        BY <4>1 DEF UsedSlots
      <4> QED
        BY <3>2, <4>2
    <3> QED
      BY <3>1, <3>2, SlotKinds DEF UsedSlots
  <2>2. <<d, i>> \in Places /\ slotOf[<<d, i>>] = slotAt(d, i)
    OBVIOUS
  <2> QED
    BY <2>1, <2>2
<1>6. IsFiniteSet(Slots) /\ Cardinality(Slots) <= Cardinality(Places)
  BY <1>3, <1>4, FS_Surjection
<1>7. UsedSlots \in SUBSET Slots
  BY <1>5
<1>8. IsFiniteSet(UsedSlots) /\ Cardinality(UsedSlots) <= Cardinality(Slots)
  BY <1>6, <1>7, FS_Subset
<1>9. Cardinality(UsedSlots) \in Nat /\ Cardinality(Slots) \in Nat
  BY <1>6, <1>8, FS_CardinalityType
<1> HIDE DEF Slots
<1> QED
  BY <1>3, <1>6, <1>8, <1>9, ConstantsOK

\* Since nothing leaks, there is always a descriptor for the next drawing: its
\* buffer gives one back, or holds none yet.
LEMMA NeverOutOfFds ==
  ASSUME TypeInv, NoFenceLeak, SpareInv, EnoughFds,
         NEW d \in Displays, NEW b \in Buffers, b \in {1, 2}
  PROVE  FreeFds(Close(fences, kms_fence_fd[d][b])) # {}
<1> SUFFICES ASSUME FreeFds(Close(fences, kms_fence_fd[d][b])) = {} PROVE FALSE
  OBVIOUS
<1> DEFINE k      == KmsSlot(d, b)
           Others == UsedSlots \ {k}
<1>1. /\ \A f \in Fds : fences[f] # Closed
      /\ kms_fence_fd[d][b] \notin Fds
  BY DEF FreeFds, Close
<1>2. k \in UsedSlots /\ holdings[k] \notin Fds
  BY <1>1, SlotsAre, SlotsHold DEF UsedSlots, KmsSlot
<1>3. \A s \in FenceSlots \ UsedSlots : holdings[s] \notin Fds
  BY SpareSlotsEmpty, ConstantsOK
<1>4. \A f \in Fds : \E s \in Others : holdings[s] = f
  BY <1>1, <1>2, <1>3, NoLeakIs DEF NoLeak
<1>5. /\ IsFiniteSet(UsedSlots) /\ Cardinality(UsedSlots) \in Nat
      /\ Cardinality(UsedSlots) <= 5 * NumDisplays
  BY UsedSlotsBound
<1>6. IsFiniteSet(Others) /\ Cardinality(Others) = Cardinality(UsedSlots) - 1
  BY <1>2, <1>5, FS_RemoveElement
<1>7. Cardinality(Fds) \in Nat /\ Cardinality(Fds) >= 5 * NumDisplays
  BY FS_CardinalityType DEF EnoughFds
<1>8. Fds # {}
  <2>1. Cardinality(Fds) # 0
    BY <1>7, ConstantsOK
  <2> QED
    BY <2>1, FS_EmptySet
<1>9. PICK one \in Fds : TRUE
  BY <1>8
<1> DEFINE descriptorOf == [s \in Others |-> IF holdings[s] \in Fds THEN holdings[s] ELSE one]
<1>10. descriptorOf \in Surjection(Others, Fds)
  <2>1. descriptorOf \in [Others -> Fds]
    BY <1>9
  <2>2. \A f \in Fds : \E s \in Others : descriptorOf[s] = f
    BY <1>4
  <2> QED
    BY <2>1, <2>2 DEF Surjection
<1>11. Cardinality(Fds) <= Cardinality(Others)
  BY <1>6, <1>10, FS_Surjection
<1> HIDE DEF Others
<1> QED
  BY <1>5, <1>6, <1>7, <1>11, ConstantsOK

LEMMA RenderFenceInit == Init => RenderFenceInv
<1>1. Init => \A d \in Displays : bufferPending[d] \in {NoBuffer, Wild}
  BY DEF Init
<1> QED
  BY <1>1, NotBuffers DEF RenderFenceInv, DrawnHasFence

LEMMA RenderFenceStep ==
  TypeInv /\ RenderFenceInv /\ [Next]_vars => RenderFenceInv'
<1> SUFFICES ASSUME TypeInv, RenderFenceInv, [Next]_vars, NEW d \in Displays
             PROVE  DrawnHasFence(d)'
  BY DEF RenderFenceInv, Displays
<1> USE DEF RenderFenceInv, DrawnHasFence, Fenced
<1>1. CASE UNCHANGED <<bufferPending, render_fence_fd>>
  BY <1>1
<1>2. ASSUME NEW e \in Displays, RepaintOutput(e) PROVE DrawnHasFence(d)'
  <2> PICK b \in find_free_buffer(e) :
           RepaintFences(e, b) /\ bufferPending' = [bufferPending EXCEPT ![e] = b]
    BY <1>2 DEF RepaintOutput, repaint_one_output
  <2>1. b \in Buffers
    BY DEF find_free_buffer
  <2>2. CASE d # e
    BY <2>1, <2>2 DEF RepaintFences, fenceVars, TypeInv, TypeOK
  <2>3. CASE d = e /\ Fenced(e)
    <3>1. PICK n \in Fds : render_fence_fd' = [render_fence_fd EXCEPT ![e][b] = n]
      BY <2>3 DEF RepaintFences, FreeFds
    <3>2. render_fence_fd'[e][b] = n /\ n # NoFd
      BY <2>1, <3>1, ConstantsOK DEF TypeInv, TypeOK
    <3>3. bufferPending'[e] = b
      BY DEF TypeInv, TypeOK
    <3> QED
      BY <2>3, <3>2, <3>3
  <2> QED
    BY <2>2, <2>3
<1>3. ASSUME NEW c \in Crtcs, HandleEvent(c) PROVE DrawnHasFence(d)'
  <2>1. PICK e \in Displays : bufferPending' = [bufferPending EXCEPT ![e] = NoBuffer]
    BY <1>3 DEF HandleEvent, DisplayOfEvent
  <2>2. UNCHANGED render_fence_fd
    BY <1>3 DEF HandleEvent, fenceVars
  <2>3. bufferPending'[d] \in Buffers => bufferPending'[d] = bufferPending[d]
    BY <2>1, NotBuffers DEF TypeInv, TypeOK
  <2> QED
    BY <2>2, <2>3
<1>4. ASSUME NEW e \in Displays, HandoverFence(e) PROVE UNCHANGED <<bufferPending, render_fence_fd>>
  BY <1>4 DEF HandoverFence, displayVars
<1>5. CASE \/ Commit \/ CommitFails \/ ReadEvents \/ PollOrReadFails \/ DispatchDone \/ Leave
           \/ Abort \/ UNCHANGED vars
           \/ \E e \in Displays : SkipOutput(e) \/ \E b \in Buffers : GpuDone(e, b)
           \/ \E c \in Crtcs : KernelFlip(c)
  BY <1>1, <1>5
     DEF Commit, CommitFails, ReadEvents, PollOrReadFails, DispatchDone, Leave, Abort, SkipOutput,
         GpuDone, KernelFlip, vars, displayVars, fenceVars
<1> QED
  BY <1>1, <1>2, <1>3, <1>4, <1>5
     DEF Next, Program, Kernel, Gpu, RepaintAsserts, HandoverAsserts, HandlerAsserts

\* With everything in order, no assertion but that of the handover can fail.
LEMMA OnlyHandoverFails ==
  ASSUME SaneSetup, EnoughFds, ~PaintFaults, TypeInv, IInv, FencesHeldOnce, NoFenceLeak,
         SpareInv, RenderFenceInv
  PROVE  /\ ~ \E d \in Displays : RepaintAsserts(d)
         /\ ~ \E c \in Crtcs : HandlerAsserts(c)
<1>1. HeldOnce(FenceSlots, holdings, fences)
  BY HeldOnceIs
<1>2. ASSUME NEW d \in Displays, NEW b \in Buffers, NEW fd,
             fd \in {kms_fence_fd[d][b], render_fence_fd[d][b]}, fd # NoFd
      PROVE  linux_sync_file_is_valid(fences, fd)
  <2>1. fd \in Fds
    BY <1>2 DEF TypeInv, TypeOK, FdOrNone
  <2>2. PICK s \in FenceSlots : holdings[s] = fd
    BY <1>2, SlotsAre, SlotsHold
  <2> QED
    BY <1>1, <1>2, <2>1, <2>2 DEF HeldOnce, linux_sync_file_is_valid
<1>3. ASSUME NEW d \in Displays, RepaintAsserts(d) PROVE FALSE
  <2>1. PICK b \in find_free_buffer(d) : TRUE
    BY <1>3, FreeBufferExists DEF RepaintAsserts
  <2>2. b \in Buffers /\ b \in {1, 2}
    BY <1>3, SaneIsApart, FreeIsOfTwo DEF RepaintAsserts, find_free_buffer
  <2>3. CanDraw(d, b)
    BY <1>2, <2>2, NeverOutOfFds DEF CanDraw
  <2> QED
    BY <1>3, <2>1, <2>2, <2>3 DEF RepaintAsserts
<1>4. ASSUME NEW c \in Crtcs, HandlerAsserts(c) PROVE FALSE
  <2>1. PICK d \in Displays : CrtcOf[d] = c /\ (~HandlerAssertions(d) \/ bufferLast[d] = Wild)
    BY <1>4 DEF HandlerAsserts, DisplayOfEvent
  <2>2. queued[c] + batch[c] # 0
    BY <1>4 DEF HandlerAsserts, TypeInv, TypeOK
  <2>3. Presented(d) /\ BuffersInv(d)
    BY <2>1, <2>2 DEF IInv, PhaseInv, Idle, InRequest, Committed, Dropped
  <2>5. /\ bufferPending[d] \in Buffers /\ in_use[d][bufferPending[d]]
        /\ bufferLast[d] \in Buffers => in_use[d][bufferLast[d]]
        /\ bufferLast[d] # Wild
    BY <2>3 DEF Presented, BuffersInv, SaneSetup
  <2>6. Fenced(d) => linux_sync_file_is_valid(fences, render_fence_fd[d][bufferPending[d]])
    BY <1>2, <2>3, <2>5 DEF RenderFenceInv, DrawnHasFence, Presented
  <2>7. bufferLast[d] \in Buffers =>
          \/ kms_fence_fd[d][bufferLast[d]] = NoFd
          \/ linux_sync_file_is_valid(fences, kms_fence_fd[d][bufferLast[d]])
    BY <1>2
  <2> QED
    BY <2>1, <2>5, <2>6, <2>7 DEF HandlerAssertions
<1> QED
  BY <1>3, <1>4

\* A step that fails an assertion fails that of the handover (main.cpp:809).
OnlyHandoverAsserts ==
  pc' = "aborted" => pc = "aborted" \/ \E d \in Displays : HandoverAsserts(d)

LEMMA AbortIsHandover ==
  ASSUME SaneSetup, EnoughFds, ~PaintFaults, TypeInv, IInv, FencesHeldOnce, NoFenceLeak,
         SpareInv, RenderFenceInv, [Next]_vars
  PROVE  OnlyHandoverAsserts
BY OnlyHandoverFails
DEF OnlyHandoverAsserts, Next, Program, Kernel, Gpu, SkipOutput, RepaintOutput, repaint_one_output,
    HandoverFence, Commit, CommitFails, ReadEvents, PollOrReadFails, HandleEvent, DispatchDone,
    Leave, KernelFlip, GpuDone, loopVars, vars

\* In a sane setup with any number of displays, fences on both sides, enough
\* descriptors and an EGL that does what it is asked, no other assertion can
\* fail (main.cpp:154-182, 308-425): a buffer and a descriptor are free when
\* they are needed, the fences that are used are open, and the event handler
\* finds what it expects.
THEOREM OnlyHandoverEverAsserts ==
  SaneSetup /\ EnoughFds /\ ~PaintFaults /\ Spec => [][OnlyHandoverAsserts]_vars
<1>1. CASE SaneSetup /\ EnoughFds /\ ~PaintFaults
  <2>1. Spec => [](TypeInv /\ IInv)
    BY <1>1, SaneIsApart, Invariance
  <2>2. Init => RenderFenceInv /\ SpareInv
    BY <1>1, RenderFenceInit, SpareInit
  <2>3. TypeInv /\ IInv /\ RenderFenceInv /\ SpareInv /\ [Next]_vars => (RenderFenceInv /\ SpareInv)'
    BY <1>1, SaneIsApart, RenderFenceStep, SpareStep
  <2>4. FenceInv => NoFenceLeak
    BY DEF FenceInv
  <2>5. TypeInv /\ IInv /\ FencesHeldOnce /\ NoFenceLeak /\ RenderFenceInv /\ SpareInv
          /\ [Next]_vars => OnlyHandoverAsserts
    BY <1>1, AbortIsHandover
  <2>6. Spec => [](TypeInv /\ FenceInv)
    BY <1>1, FenceInvariance DEF SaneSetup
  <2>7. FenceInv => FencesHeldOnce
    BY DEF FenceInv
  <2> QED
    BY <2>1, <2>2, <2>3, <2>4, <2>5, <2>6, <2>7, PTL DEF Spec
<1>2. CASE ~(SaneSetup /\ EnoughFds /\ ~PaintFaults)
  BY <1>2
<1> QED
  BY <1>1, <1>2

LEMMA SoloInit == SaneSetup /\ Init => SoloInv
BY SafeInit, SaneIsApart, NotBuffers DEF Init, SoloInv, SoloPhase, IInv, PhaseInv, InRequest, Committed, Presented, Dropped,
   NoBuffer, NoDisplay

LEMMA SoloStep ==
  ASSUME SaneSetup, NumDisplays = 1, TypeInv, IInv, IInv', SoloInv, [Next]_vars
  PROVE  SoloInv'
<1> SUFFICES ASSUME NEW d \in Displays PROVE SoloPhase(d)'
  BY DEF SoloInv, Displays
<1>1. /\ d = 1 /\ Displays = {1} /\ Crtcs = {CrtcOf[d]}
      /\ cursor \in {1, 2} /\ (LoopDone <=> cursor = 2)
  BY DEF Displays, Crtcs, TypeInv, TypeOK, LoopDone
<1>2. SoloPhase(d) /\ PhaseInv(d) /\ LoopInv(d) /\ PhaseInv(d)' /\ LoopInv(d)'
  BY DEF SoloInv, IInv, Displays
<1>3. CASE UNCHANGED <<pc, cursor, request, displayVars, eventVars, kernelVars, commitFenceFD>>
  BY <1>2, <1>3 DEF displayVars, eventVars, kernelVars, SoloPhase, Idle, InRequest, Shown, Fenced
<1>4. CASE pc' \in {"restore", "exited", "aborted"}
  BY <1>4 DEF SoloPhase
<1>5. ASSUME SkipOutput(d) PROVE SoloPhase(d)'
  BY <1>2, <1>5
     DEF SkipOutput, displayVars, eventVars, kernelVars, SoloPhase, Idle, InRequest, Shown
<1>6. ASSUME RepaintOutput(d) PROVE SoloPhase(d)'
  <2>1. pc' = "scan" /\ request' = [request EXCEPT ![CrtcOf[d]] = d]
    BY <1>6 DEF RepaintOutput, repaint_one_output
  <2>2. request'[CrtcOf[d]] = d /\ d # NoDisplay
    BY <1>1, <2>1, CrtcOfType DEF TypeInv, TypeOK, NoDisplay
  <2>3. InRequest(d)'
    BY <1>2, <2>1, <2>2 DEF PhaseInv, Idle, Committed, Presented, Dropped
  <2> QED
    BY <2>1, <2>3 DEF SoloPhase
<1>7. ASSUME Commit PROVE SoloPhase(d)'
  <2>1. pc = "scan" /\ cursor = 2 /\ pc' = "fences"
    BY <1>1, <1>7 DEF Commit
  <2>2. InRequest(d)
    BY <1>1, <1>2, <2>1 DEF SoloPhase, LoopInv, Idle
  <2>3. ASSUME Fenced(d) PROVE commitFenceFD'[d] # NoFd
    <3>1. d \in WantOutFence
      BY <1>1, <2>2, <2>3 DEF WantOutFence, Requested, InRequest, Fenced, NoDisplay
    <3>2. PICK out \in Injection(WantOutFence, FreeFds(fences)) :
            commitFenceFD' = [e \in Displays |->
                                IF e \in WantOutFence THEN out[e] ELSE commitFenceFD[e]]
      BY <1>7 DEF Commit
    <3>3. commitFenceFD'[d] = out[d] /\ out[d] \in Fds
      BY <3>1, <3>2 DEF Injection, IsInjective, FreeFds
    <3> QED
      BY <3>3, ConstantsOK
  <2> QED
    BY <2>1, <2>3 DEF SoloPhase
<1>8. ASSUME HandoverFence(d) PROVE SoloPhase(d)'
  BY <1>1, <1>8 DEF HandoverFence, SoloPhase
<1>9. ASSUME ReadEvents PROVE SoloPhase(d)'
  <2>1. batch' = queued /\ queued[CrtcOf[d]] > 0 /\ pc' = "dispatch"
    BY <1>1, <1>9 DEF ReadEvents
  <2> QED
    BY <2>1 DEF SoloPhase
<1>10. ASSUME HandleEvent(CrtcOf[d]) PROVE SoloPhase(d)'
  <2>1. pc' = "dispatch" /\ needs_repaint' = [needs_repaint EXCEPT ![d] = TRUE]
    BY <1>1, <1>10 DEF HandleEvent, DisplayOfEvent, loopVars
  <2>2. needs_repaint'[d]
    BY <2>1 DEF TypeInv, TypeOK
  <2>3. Idle(d)'
    BY <1>2, <2>2 DEF PhaseInv, InRequest, Committed, Presented, Dropped
  <2> QED
    BY <2>1, <2>3 DEF SoloPhase
<1>11. ASSUME DispatchDone PROVE SoloPhase(d)'
  <2>1. Idle(d) /\ pc' = "scan"
    BY <1>1, <1>2, <1>11 DEF DispatchDone, SoloPhase
  <2>2. Idle(d)'
    BY <1>11, <2>1 DEF DispatchDone, displayVars, eventVars, kernelVars, Idle, Shown
  <2> QED
    BY <2>1, <2>2 DEF SoloPhase
<1>12. ASSUME KernelFlip(CrtcOf[d]) PROVE SoloPhase(d)'
  <2>1. /\ inflight[CrtcOf[d]] # NoFrame
        /\ UNCHANGED <<pc, cursor, commitFenceFD, batch>>
    BY <1>12 DEF KernelFlip, loopVars
  <2>2. ~Idle(d) /\ ~InRequest(d)
    BY <2>1 DEF Idle, InRequest
  <2> QED
    BY <1>2, <2>1, <2>2 DEF SoloPhase
<1>13. CASE CommitFails \/ PollOrReadFails \/ Leave \/ Abort
  BY <1>4, <1>13 DEF CommitFails, PollOrReadFails, Leave, Abort
<1>14. CASE UNCHANGED vars \/ \E e \in Displays, b \in Buffers : GpuDone(e, b)
  BY <1>3, <1>14 DEF vars, GpuDone, loopVars, fenceVars
<1> QED
  BY <1>1, <1>5, <1>6, <1>7, <1>8, <1>9, <1>10, <1>11, <1>12, <1>13, <1>14
     DEF Next, Program, Kernel, Gpu, RepaintAsserts, HandoverAsserts, HandlerAsserts

\* In a sane setup with one display and an EGL that does what it is asked no
\* assertion fails, fences or no fences (main.cpp:154-182, 308-425, 809): out
\* of step with each other, only several displays can fail that of the
\* handover.
THEOREM SoloNeverAsserts ==
  SaneSetup /\ EnoughFds /\ ~PaintFaults /\ NumDisplays = 1 /\ Spec => []AssertionsHold
<1>1. CASE SaneSetup /\ EnoughFds /\ ~PaintFaults /\ NumDisplays = 1
  <2>1. Spec => [](TypeInv /\ IInv)
    BY <1>1, SaneIsApart, Invariance
  <2>2. Init => SoloInv /\ AssertionsHold
    BY <1>1, SoloInit DEF Init, AssertionsHold
  <2>3. TypeInv /\ IInv /\ IInv' /\ SoloInv /\ [Next]_vars => SoloInv'
    BY <1>1, SoloStep
  <2>4. ASSUME TypeInv, IInv, SoloInv, FencesHeldOnce, NEW d \in Displays
        PROVE  ~HandoverAsserts(d)
    <3>1. ASSUME pc = "fences", cursor = d, Fenced(d)
          PROVE  linux_sync_file_is_valid(fences, commitFenceFD[d])
      <4>1. commitFenceFD[d] # NoFd /\ commitFenceFD[d] \in FdOrNone
        BY <2>4, <3>1 DEF SoloInv, SoloPhase, TypeInv, TypeOK
      <4>2. HeldOnce(FenceSlots, holdings, fences)
        BY <2>4, HeldOnceIs
      <4> QED
        BY <4>1, <4>2, SlotsAre, SlotsHold DEF HeldOnce, FdOrNone, linux_sync_file_is_valid
    <3>2. bufferLast[d] # Wild
      BY <1>1, <2>4 DEF IInv, BuffersInv, SaneSetup
    <3> QED
      BY <3>1, <3>2 DEF HandoverAsserts
  <2>5. TypeInv /\ IInv /\ SoloInv /\ FencesHeldOnce /\ AssertionsHold /\ [OnlyHandoverAsserts]_vars
          => AssertionsHold'
    BY <2>4 DEF OnlyHandoverAsserts, AssertionsHold, vars, loopVars
  <2>6. Spec => [][OnlyHandoverAsserts]_vars
    BY <1>1, OnlyHandoverEverAsserts
  <2>7. Spec => []FencesHeldOnce
    BY <1>1, FencesAlwaysHeldOnce DEF SaneSetup
  <2> QED
    BY <2>1, <2>2, <2>3, <2>5, <2>6, <2>7, PTL DEF Spec
<1>2. CASE ~(SaneSetup /\ EnoughFds /\ ~PaintFaults /\ NumDisplays = 1)
  BY <1>2
<1> QED
  BY <1>1, <1>2

-----------------------------------------------------------------------------
(***************************************************************************)
(* The kernel never refuses a commit: the last one is on the screen, and   *)
(* there are descriptors for the out-fences.                               *)
(***************************************************************************)
\* The kernel has no reason to refuse the commit that comes next.
CommitAccepted == pc = "scan" /\ LoopDone => ~Refused

\* A set that is not larger than another can be mapped into it.
LEMMA SmallerMapsInto ==
  ASSUME NEW S, IsFiniteSet(S), NEW T, IsFiniteSet(T), Cardinality(S) <= Cardinality(T)
  PROVE  Injection(S, T) # {}
<1>1. PICK g \in Bijection(1 .. Cardinality(S), S) : TRUE
  BY FS_CardinalityType DEF ExistsBijection
<1>2. PICK h \in Bijection(1 .. Cardinality(T), T) : TRUE
  BY FS_CardinalityType DEF ExistsBijection
<1>3. Cardinality(S) \in Nat /\ Cardinality(T) \in Nat
  BY FS_CardinalityType
<1> DEFINE place(x) == CHOOSE i \in 1 .. Cardinality(S) : g[i] = x
           f == [x \in S |-> h[place(x)]]
<1>4. ASSUME NEW x \in S
      PROVE  /\ place(x) \in 1 .. Cardinality(S) /\ g[place(x)] = x
             /\ place(x) \in 1 .. Cardinality(T)
  <2>1. \E i \in 1 .. Cardinality(S) : g[i] = x
    BY <1>1 DEF Bijection, Surjection
  <2>2. place(x) \in 1 .. Cardinality(S) /\ g[place(x)] = x
    BY <2>1
  <2> HIDE DEF place
  <2> QED
    BY <1>3, <2>2
<1> HIDE DEF place
<1>5. f \in [S -> T]
  BY <1>2, <1>4 DEF Bijection, Injection, IsInjective
<1>6. ASSUME NEW x \in S, NEW y \in S, f[x] = f[y] PROVE x = y
  <2>1. h[place(x)] = h[place(y)]
    BY <1>6
  <2>2. place(x) = place(y)
    BY <1>2, <1>4, <2>1 DEF Bijection, Injection, IsInjective
  <2> QED
    BY <1>4, <2>2
<1> HIDE DEF f
<1>7. f \in Injection(S, T)
  BY <1>5, <1>6 DEF Injection, IsInjective
<1> QED
  BY <1>7

LEMMA FdsForCommit ==
  ASSUME TypeInv, NoFenceLeak, SpareInv, AsksWithoutFence, EnoughFds
  PROVE  Injection(WantOutFence, FreeFds(fences)) # {}
<1> DEFINE W      == WantOutFence
           C      == {CommitSlot(d) : d \in W}
           Open   == {f \in Fds : fences[f] # Closed}
           Others == UsedSlots \ C
           Opener == {s \in Others : holdings[s] \in Open}
           toSlot == [d \in W |-> CommitSlot(d)]
           toOpen == [s \in Opener |-> holdings[s]]
<1>1. /\ IsFiniteSet(UsedSlots) /\ Cardinality(UsedSlots) \in Nat
      /\ Cardinality(UsedSlots) <= 5 * NumDisplays
  BY UsedSlotsBound
<1>2. IsFiniteSet(Fds) /\ Cardinality(Fds) \in Nat /\ Cardinality(Fds) >= 5 * NumDisplays
  BY FS_CardinalityType DEF EnoughFds
\* A display that will get an out-fence holds none.
<1>3. ASSUME NEW d \in W
      PROVE  d \in Displays /\ commitFenceFD[d] = NoFd /\ CommitSlot(d) \in UsedSlots
  <2>1. PICK c \in Crtcs : request[c] = d /\ d # NoDisplay
    BY DEF WantOutFence, Requested
  <2>2. d \in Displays
    BY <2>1 DEF TypeInv, TypeOK, DisplayOrNone
  <2>3. commitFenceFD[d] = NoFd
    BY <2>1 DEF AsksWithoutFence, WantOutFence
  <2>4. CommitSlot(d) \in FenceSlots /\ CommitSlot(d)[3] = NoBuffer
    BY <2>2, SlotsAre DEF CommitSlot
  <2> QED
    BY <2>2, <2>3, <2>4 DEF UsedSlots
<1>4. /\ IsFiniteSet(W) /\ IsFiniteSet(C) /\ C \subseteq UsedSlots
      /\ Cardinality(W) <= Cardinality(C)
  <2>1. C \in SUBSET UsedSlots
    BY <1>3
  <2>2. IsFiniteSet(C)
    BY <1>1, <2>1, FS_Subset
  <2>3. toSlot \in [W -> C]
    OBVIOUS
  <2>4. \A d, e \in W : toSlot[d] = toSlot[e] => d = e
    BY SlotsDiffer
  <2> HIDE DEF toSlot, W, C
  <2>5. toSlot \in Injection(W, C)
    BY <2>3, <2>4 DEF Injection, IsInjective
  <2> QED
    BY <2>1, <2>2, <2>5, FS_Injection
<1>5. /\ IsFiniteSet(Others)
      /\ Cardinality(Others) = Cardinality(UsedSlots) - Cardinality(C)
  <2>1. UsedSlots \cap C = C
    BY <1>4
  <2> HIDE DEF C
  <2> QED
    BY <1>1, <2>1, FS_Difference
\* Every open descriptor is held by one of the others.
<1>6. IsFiniteSet(Open) /\ Cardinality(Open) <= Cardinality(Others)
  <2>1. IsFiniteSet(Opener) /\ Cardinality(Opener) <= Cardinality(Others)
    <3>1. Opener \in SUBSET Others
      OBVIOUS
    <3> HIDE DEF Opener, Others
    <3> QED
      BY <1>5, <3>1, FS_Subset
  <2>2. ASSUME NEW f \in Open PROVE \E s \in Opener : toOpen[s] = f
    <3>1. PICK s \in FenceSlots : holdings[s] = f
      BY NoLeakIs DEF NoLeak
    <3>2. s \in UsedSlots
      BY <3>1, SpareSlotsEmpty, ConstantsOK
    <3>3. s \notin C
      BY <1>3, <3>1, SlotsHold, ConstantsOK
    <3> QED
      BY <3>1, <3>2, <3>3
  <2>3. toOpen \in [Opener -> Open]
    OBVIOUS
  <2> HIDE DEF Opener, Open, toOpen
  <2>4. toOpen \in Surjection(Opener, Open)
    BY <2>2, <2>3 DEF Surjection
  <2>5. IsFiniteSet(Open) /\ Cardinality(Open) <= Cardinality(Opener)
    BY <2>1, <2>4, FS_Surjection
  <2>6. /\ Cardinality(Open) \in Nat /\ Cardinality(Opener) \in Nat
        /\ Cardinality(Others) \in Nat
    BY <1>5, <2>1, <2>5, FS_CardinalityType
  <2> QED
    BY <2>1, <2>5, <2>6
<1>7. /\ IsFiniteSet(FreeFds(fences))
      /\ Cardinality(FreeFds(fences)) = Cardinality(Fds) - Cardinality(Open)
  <2>1. FreeFds(fences) = Fds \ Open /\ Fds \cap Open = Open
    BY DEF FreeFds
  <2> HIDE DEF Open
  <2> QED
    BY <1>2, <2>1, FS_Difference
<1>8. /\ Cardinality(W) \in Nat /\ Cardinality(C) \in Nat /\ Cardinality(Others) \in Nat
      /\ Cardinality(Open) \in Nat
  BY <1>4, <1>5, <1>6, FS_CardinalityType
<1> HIDE DEF W, C, Open, Others
<1>9. Cardinality(W) <= Cardinality(FreeFds(fences))
  BY <1>1, <1>2, <1>4, <1>5, <1>6, <1>7, <1>8, ConstantsOK
<1> QED
  BY <1>4, <1>7, <1>9, SmallerMapsInto DEF W

\* In a sane setup with enough descriptors the kernel has no reason to refuse a
\* commit, with any number of displays and fences on any side: no EBUSY, which
\* would end the program, and no out-fence it cannot make (main.cpp:796-799).
THEOREM CommitAlwaysAccepted == SaneSetup /\ EnoughFds /\ Spec => []CommitAccepted
<1>1. CASE SaneSetup /\ EnoughFds
  <2>1. ASSUME TypeInv, IInv, FenceInv, SpareInv PROVE CommitAccepted
    <3>1. NoFenceLeak /\ AsksWithoutFence
      BY <2>1 DEF FenceInv
    <3>2. ASSUME NEW d \in Requested PROVE inflight[CrtcOf[d]] = NoFrame
      <4>1. PICK c \in Crtcs : request[c] = d /\ d # NoDisplay
        BY <3>2 DEF Requested
      <4>2. PICK e \in Displays : CrtcOf[e] = c
        BY DisplayOfCrtc
      <4>3. InRequest(e)
        BY <2>1, <4>1, <4>2 DEF IInv, PhaseInv, Idle, Committed, Presented, Dropped
      <4> QED
        BY <4>1, <4>2, <4>3 DEF InRequest
    <3> QED
      BY <1>1, <2>1, <3>1, <3>2, FdsForCommit DEF CommitAccepted, Refused
  <2>2. Spec => [](TypeInv /\ IInv)
    BY <1>1, SaneIsApart, Invariance
  <2>3. TypeInv /\ IInv /\ SpareInv /\ [Next]_vars => SpareInv'
    BY <1>1, SaneIsApart, SpareStep
  <2>4. Spec => [](TypeInv /\ FenceInv)
    BY <1>1, FenceInvariance DEF SaneSetup
  <2> QED
    BY <2>1, <2>2, <2>3, <2>4, SpareInit, PTL DEF Spec
<1>2. CASE ~(SaneSetup /\ EnoughFds)
  BY <1>2
<1> QED
  BY <1>1, <1>2

\* The loop has not been left.
InLoop == pc \notin {"restore", "exited"}

\* So without a fault of the device nothing ends the loop but an assertion
\* (main.cpp:790-834: shall_exit is never set).
THEOREM LoopNeverLeft == SaneSetup /\ EnoughFds /\ ~DeviceFaults /\ Spec => []InLoop
<1>1. CASE SaneSetup /\ EnoughFds /\ ~DeviceFaults
  <2>1. Init => InLoop
    BY DEF Init, InLoop
  <2>2. CommitAccepted /\ InLoop /\ [Next]_vars => InLoop'
    BY <1>1
       DEF CommitAccepted, InLoop, Next, Program, Kernel, Gpu, SkipOutput, RepaintOutput,
           RepaintAsserts, HandoverAsserts, HandlerAsserts, Abort, repaint_one_output,
           HandoverFence, Commit, CommitFails, ReadEvents, PollOrReadFails, HandleEvent,
           DispatchDone, Leave, KernelFlip, GpuDone, loopVars, vars
  <2> QED
    BY <1>1, <2>1, <2>2, CommitAlwaysAccepted, PTL DEF Spec
<1>2. CASE ~(SaneSetup /\ EnoughFds /\ ~DeviceFaults)
  BY <1>2
<1> QED
  BY <1>1, <1>2

\* And with one display it never ends at all.
THEOREM SoloRunsForever ==
  SaneSetup /\ EnoughFds /\ ~PaintFaults /\ NumDisplays = 1 /\ ~DeviceFaults /\ Spec
    => []Running
<1>1. InLoop /\ AssertionsHold => Running
  BY DEF InLoop, AssertionsHold, Running
<1> QED
  BY <1>1, LoopNeverLeft, SoloNeverAsserts, PTL
=============================================================================
