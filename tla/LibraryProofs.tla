---------------------------- MODULE LibraryProofs ----------------------------
(***************************************************************************)
(* The laws of Libraries that hold for every choice of subjects: the       *)
(* timespecs for seconds of any length, the descriptors for any number of  *)
(* objects, and the properties, formats, EDIDs, quads, requests and modes  *)
(* for any there are.                                                      *)
(***************************************************************************)
EXTENDS Libraries, TimespecLemmas, SequenceTheorems, FiniteSetTheorems, WellFoundedInduction

-----------------------------------------------------------------------------
(* The timespecs *)

\* Whatever the length of a second and the operands that are drawn, the
\* operands are normalised and adding to them and subtracting them is exact.
LEMMA LawsTypeCorrect == Spec => []TypeOK
<1> USE UnitsOK, DrawsOK
<1>1. Init => TypeOK
  BY DEF Init, TypeOK, Normal, Times, Zero
<1>2. TypeOK /\ [Draw]_<<a, b, n>> => TypeOK'
  BY DEF TypeOK, Draw, DrawA, DrawB, DrawN, NormalTimes
<1> QED
  BY <1>1, <1>2, PTL DEF Spec

\* A behaviour of the libraries draws times as TimespecLaws does.
LEMMA LibrariesDrawTimes == LibSpec => Spec
<1>1. LibInit => Init
  BY DEF LibInit
<1>2. [LibNext]_libVars => [Draw]_<<a, b, n>>
  BY DEF LibNext, libVars, DrawTimes, UseDescriptors, DrawSubject
<1> QED
  BY <1>1, <1>2, PTL DEF LibSpec, Spec

\* timespec_add_nsec is exact and keeps times normalised.
THEOREM AddAlwaysExact == LibSpec => []AddExact
<1>1. TypeOK => AddExact
  BY AddIsExact DEF TypeOK, AddExact, Normal
<1> QED
  BY <1>1, LibrariesDrawTimes, LawsTypeCorrect, PTL

\* timespec_sub and timespec_sub_to_nsec are exact and keep times normalised.
THEOREM SubAlwaysExact == LibSpec => []SubExact
<1>1. TypeOK => SubExact
  BY SubIsExact DEF TypeOK, SubExact, Normal
<1> QED
  BY <1>1, LibrariesDrawTimes, LawsTypeCorrect, PTL

LEMMA DivMod ==
  ASSUME NEW m \in Nat \ {0}, NEW y \in Int,
         NEW q, q = y \div m, NEW e, e = y % m
  PROVE  q \in Int /\ e \in Int /\ 0 <= e /\ e < m /\ y = m * q + e
OBVIOUS

\* The seconds and the nanoseconds of a normalised time, each in milliseconds,
\* add up to the whole time rounded down.
LEMMA MsecIsFloor ==
  ASSUME NEW x, Normal(x), NSEC_PER_SEC % NSEC_PER_MSEC = 0
  PROVE  timespec_to_msec(x) = timespec_to_nsec(x) \div NSEC_PER_MSEC
<1> USE UnitsOK
<1> DEFINE m == NSEC_PER_MSEC
           k == NSEC_PER_SEC \div m
           q == x.nsec \div m
           r == x.nsec % m
<1>1. x.sec \in Int /\ x.nsec \in Nat
  BY DEF Normal, Times
<1>2. m \in Nat \ {0} /\ k \in Int /\ NSEC_PER_SEC = m * k
  <2>1. k \in Int /\ NSEC_PER_SEC = m * k + 0
    BY DivMod
  <2> HIDE DEF k
  <2> QED
    BY <2>1
<1>3. /\ q \in Int /\ r \in Int /\ 0 <= r /\ r < m
      /\ x.nsec = m * q + r
  <2>1. q \in Int /\ r \in Int /\ 0 <= r /\ r < m /\ x.nsec = m * q + r
    BY <1>1, DivMod
  <2> HIDE DEF q, r
  <2> QED
    BY <2>1
<1>4. timespec_to_msec(x) = x.sec * k + q
  <2>1. DivC(NSEC_PER_SEC, NSEC_PER_MSEC) = k /\ DivC(x.nsec, NSEC_PER_MSEC) = q
    BY <1>1 DEF DivC
  <2> HIDE DEF k, q
  <2> QED
    BY <2>1 DEF timespec_to_msec
<1> HIDE DEF m, k, q, r
<1>5. timespec_to_nsec(x) = m * (x.sec * k + q) + r
  <2>1. timespec_to_nsec(x) = x.sec * (m * k) + (m * q + r)
    <3>1. timespec_to_nsec(x) = x.sec * NSEC_PER_SEC + x.nsec
      BY DEF timespec_to_nsec
    <3> QED
      BY <1>2, <1>3, <3>1, Zenon
  <2>2. x.sec * (m * k) = m * (x.sec * k)
    <3>1. \A u, v, w \in Int : u * (v * w) = v * (u * w)
      OBVIOUS
    <3> QED
      BY <1>1, <1>2, <3>1, m \in Int, Zenon
  <2>3. m * (x.sec * k + q) = m * (x.sec * k) + m * q
    <3> DEFINE p == x.sec * k
    <3>1. p \in Int
      BY <1>1, <1>2
    <3> HIDE DEF p
    <3>2. m * (p + q) = m * p + m * q
      BY <1>2, <1>3, <3>1
    <3> QED
      BY <3>2 DEF p
  <2>4. m * (x.sec * k) \in Int /\ m * q \in Int
    BY <1>1, <1>2, <1>3
  <2> QED
    BY <1>3, <2>1, <2>2, <2>3, <2>4
<1>6. x.sec * k + q \in Int
  BY <1>1, <1>2, <1>3
<1>7. (m * (x.sec * k + q) + r) \div m = x.sec * k + q
  BY <1>2, <1>3, <1>6, DivModUnique
<1> QED
  BY <1>4, <1>5, <1>7 DEF m

\* timespec_to_msec rounds down, whatever the sign of the time.
THEOREM MsecAlwaysFloor == LibSpec => []MsecFloor
<1>1. TypeOK => MsecFloor
  BY MsecIsFloor DEF TypeOK, MsecFloor
<1> QED
  BY <1>1, LibrariesDrawTimes, LawsTypeCorrect, PTL
-----------------------------------------------------------------------------
(* The descriptors *)

\* A descriptor that was lost stays open, so that open() and dup() never give
\* it out again.
FdInv == FdTypeOK /\ lost \subseteq table /\ DescriptorsOwned

LEMMA FdInitEstablishes == FdInit => FdInv
  BY TableOK DEF FdInit, FdInv, FdTypeOK, DescriptorsOwned, Held

\* An object that gets a descriptor nobody has, and closes the one it had.
LEMMA ObtainOwned ==
  ASSUME FdInv, NEW o \in Objects, Obtain(o, table \ {fd[o]}), UNCHANGED lost
  PROVE  FdInv'
<1> USE TableOK
<1>1. PICK f \in FdTable \ (table \ {fd[o]}) :
        fd' = [fd EXCEPT ![o] = f] /\ table' = (table \ {fd[o]}) \union {f}
  BY DEF Obtain
<1>2. FdTypeOK'
  BY <1>1 DEF FdInv, FdTypeOK
<1>3. fd[o] \notin lost
  BY DEF FdInv, FdTypeOK, DescriptorsOwned, Held
<1>4. (lost \subseteq table)'
  BY <1>1, <1>3 DEF FdInv
<1>5. \A p \in Objects : p # o /\ Held(p) => fd[p] \in table \ {fd[o]}
  BY DEF FdInv, DescriptorsOwned, Held
<1>6. f \notin lost
  BY <1>1, <1>3 DEF FdInv
<1>7. DescriptorsOwned'
  <2>1. \A p \in Objects : fd'[p] = IF p = o THEN f ELSE fd[p]
    BY <1>1 DEF FdInv, FdTypeOK
  <2>2. (\A p \in Objects : Held(p) => fd[p] \in table \ lost)'
    BY <1>1, <1>5, <1>6, <2>1 DEF FdInv, DescriptorsOwned, Held
  <2>3. (\A p, p2 \in Objects : Held(p) /\ fd[p] = fd[p2] => p = p2)'
    BY <1>1, <1>5, <2>1 DEF FdInv, DescriptorsOwned, Held
  <2>4. (\A g \in table : g \in lost \/ \E p \in Objects : fd[p] = g)'
    BY <1>1, <2>1 DEF FdInv, DescriptorsOwned
  <2> QED
    BY <2>2, <2>3, <2>4 DEF DescriptorsOwned
<1> QED
  BY <1>2, <1>4, <1>7 DEF FdInv

\* An object that closes what it has, and then holds none.
LEMMA DropOwned ==
  ASSUME FdInv, NEW o \in Objects, NEW v \in {NotOpen, NoObject},
         fd' = [fd EXCEPT ![o] = v], table' = table \ {fd[o]}, UNCHANGED lost
  PROVE  FdInv'
<1> USE TableOK
<1>1. FdTypeOK'
  BY DEF FdInv, FdTypeOK
<1>2. fd[o] \notin lost
  BY DEF FdInv, FdTypeOK, DescriptorsOwned, Held
<1>3. \A p \in Objects : fd'[p] = IF p = o THEN v ELSE fd[p]
  BY DEF FdInv, FdTypeOK
<1>4. v \notin FdTable
  OBVIOUS
<1>5. DescriptorsOwned'
  BY <1>2, <1>3, <1>4 DEF FdInv, DescriptorsOwned, Held
<1> QED
  BY <1>1, <1>2, <1>5 DEF FdInv

\* An object that takes over the descriptor of another.
LEMMA TakeOverOwned ==
  ASSUME FdInv, NEW o \in Objects, NEW other \in Objects, ~Alive(o), Alive(other),
         MoveConstruct(o, other)
  PROVE  FdInv'
<1> USE TableOK
<1>1. o # other
  BY DEF Alive
<1>2. \A p \in Objects :
        fd'[p] = IF p = o THEN fd[other] ELSE IF p = other THEN NotOpen ELSE fd[p]
  BY <1>1 DEF FdInv, FdTypeOK, MoveConstruct
<1>3. FdTypeOK'
  BY DEF FdInv, FdTypeOK, MoveConstruct
<1>4. fd[o] = NoObject
  BY DEF Alive
<1>5. table' = table /\ lost' = lost
  BY DEF MoveConstruct
<1>6. (\A p \in Objects : Held(p) => fd[p] \in table \ lost)'
  BY <1>2, <1>5 DEF FdInv, DescriptorsOwned, Held
<1>7. (\A p, p2 \in Objects : Held(p) /\ fd[p] = fd[p2] => p = p2)'
  BY <1>2 DEF FdInv, DescriptorsOwned, Held
<1>8. (\A g \in table : g \in lost \/ \E p \in Objects : fd[p] = g)'
  <2> SUFFICES ASSUME NEW g \in table, g \notin lost PROVE \E p \in Objects : fd'[p] = g
    BY <1>5
  <2>1. PICK p \in Objects : fd[p] = g
    BY DEF FdInv, DescriptorsOwned
  <2>2. g \in FdTable
    BY DEF FdInv, FdTypeOK
  <2>3. p # o
    BY <1>4, <2>1, <2>2
  <2> QED
    BY <1>2, <2>1, <2>3
<1> QED
  BY <1>3, <1>5, <1>6, <1>7, <1>8 DEF FdInv, DescriptorsOwned

\* Move assignment closes what o has, and leaves what other had open without
\* an owner: it is lost, and o has a copy of it or nothing.
LEMMA MoveAssignOwned ==
  ASSUME FdInv, NEW o \in Objects, NEW other \in Objects, MoveAssign(o, other)
  PROVE  FdInv'
<1> USE TableOK
<1>1. o # other /\ fd[o] # NoObject /\ fd[other] # NoObject
  BY DEF MoveAssign, Alive
<1> DEFINE others == table \ {fd[o]}
<1>2. PICK v \in FdTable \union {NotOpen} :
        /\ fd' = [fd EXCEPT ![o] = v, ![other] = NotOpen]
        /\ \/ v = NotOpen /\ table' = others
           \/ v \in FdTable \ others /\ table' = others \union {v} /\ fd[other] # NotOpen
  BY DEF MoveAssign
<1>3. \A p \in Objects : fd'[p] = IF p = o THEN v ELSE IF p = other THEN NotOpen ELSE fd[p]
  BY <1>1, <1>2 DEF FdInv, FdTypeOK
<1>4. lost' = lost \union ({fd[other]} \ {NotOpen})
  BY DEF MoveAssign
<1>5. fd[other] # NotOpen => fd[other] \in FdTable /\ fd[other] \in others
  BY <1>1 DEF FdInv, FdTypeOK, DescriptorsOwned, Held
<1>6. fd[o] \notin lost
  BY DEF FdInv, FdTypeOK, DescriptorsOwned, Held
<1>7. FdTypeOK'
  BY <1>2, <1>4, <1>5 DEF FdInv, FdTypeOK
<1>8. lost' \subseteq others
  BY <1>4, <1>5, <1>6 DEF FdInv
<1>9. \A p \in Objects : p # o /\ Held(p) => fd[p] \in others
  BY DEF FdInv, DescriptorsOwned, Held
<1>10. (\A p \in Objects : Held(p) => fd[p] \in table \ lost)'
  <2> SUFFICES ASSUME NEW p \in Objects, fd'[p] \in FdTable PROVE fd'[p] \in table' \ lost'
    BY DEF Held
  <2>1. CASE p = o
    BY <1>2, <1>3, <1>8, <2>1
  <2>2. CASE p # o
    <3>1. p # other /\ fd'[p] = fd[p] /\ Held(p)
      BY <1>3, <2>2 DEF Held
    <3>2. fd[p] # fd[other]
      BY <3>1 DEF FdInv, DescriptorsOwned
    <3> QED
      BY <1>2, <1>4, <1>9, <2>2, <3>1, <3>2 DEF FdInv, DescriptorsOwned
  <2> QED
    BY <2>1, <2>2
<1>11. (\A p, p2 \in Objects : Held(p) /\ fd[p] = fd[p2] => p = p2)'
  BY <1>2, <1>3, <1>9 DEF FdInv, DescriptorsOwned, Held
<1>12. (\A g \in table : g \in lost \/ \E p \in Objects : fd[p] = g)'
  <2> SUFFICES ASSUME NEW g \in table', g \notin lost' PROVE \E p \in Objects : fd'[p] = g
    OBVIOUS
  <2>1. CASE g = v
    BY <1>3, <2>1
  <2>2. CASE g # v
    <3>1. g \in table /\ g # fd[o] /\ g \notin lost
      BY <1>2, <1>4, <2>2
    <3>2. PICK p \in Objects : fd[p] = g
      BY <3>1 DEF FdInv, DescriptorsOwned
    <3>3. g # NotOpen
      BY <3>1 DEF FdInv, FdTypeOK
    <3>4. p # o /\ p # other
      BY <1>4, <3>1, <3>2, <3>3
    <3> QED
      BY <1>3, <3>2, <3>4
  <2> QED
    BY <2>1, <2>2
<1> QED
  BY <1>2, <1>7, <1>8, <1>10, <1>11, <1>12 DEF FdInv, DescriptorsOwned

LEMMA FdPreserved == FdInv /\ [FdNext]_fdVars => FdInv'
<1> USE TableOK
<1> SUFFICES ASSUME FdInv, [FdNext]_fdVars PROVE FdInv'
  OBVIOUS
<1>1. CASE UNCHANGED fdVars
  BY <1>1 DEF fdVars, FdInv, FdTypeOK, DescriptorsOwned, Held
<1>2. CASE FdNext
  <2>1. PICK o \in Objects :
          \/ Construct(o) \/ Destroy(o)
          \/ \E other \in Objects :
               \/ CopyConstruct(o, other) \/ MoveConstruct(o, other)
               \/ CopyAssign(o, other) \/ MoveAssign(o, other)
    BY <1>2 DEF FdNext
  <2>2. ~Alive(o) => table = table \ {fd[o]}
    BY DEF FdInv, FdTypeOK, Alive
  <2>3. CASE Construct(o)
    BY <2>2, <2>3, ObtainOwned DEF Construct
  <2>4. CASE Destroy(o)
    BY <2>4, DropOwned DEF Destroy
  <2>5. ASSUME NEW other \in Objects, CopyConstruct(o, other) PROVE FdInv'
    BY <2>2, <2>5, ObtainOwned DEF CopyConstruct
  <2>6. ASSUME NEW other \in Objects, MoveConstruct(o, other) PROVE FdInv'
    BY <2>6, TakeOverOwned DEF MoveConstruct
  <2>7. ASSUME NEW other \in Objects, CopyAssign(o, other) PROVE FdInv'
    BY <2>7, ObtainOwned, DropOwned DEF CopyAssign
  <2>8. ASSUME NEW other \in Objects, MoveAssign(o, other) PROVE FdInv'
    BY <2>8, MoveAssignOwned
  <2> QED
    BY <2>1, <2>3, <2>4, <2>5, <2>6, <2>7, <2>8
<1> QED
  BY <1>1, <1>2

\* nix::FileDescriptor never closes a descriptor twice or uses one that is
\* closed, for any number of objects and however they are copied and moved.
THEOREM DescriptorsAlwaysOwned == LibSpec => []DescriptorsOwned
<1>1. LibInit => FdInv
  BY FdInitEstablishes DEF LibInit
<1>2. FdInv /\ [LibNext]_libVars => FdInv'
  <2>1. [LibNext]_libVars => [FdNext]_fdVars
    BY DEF LibNext, libVars, fdVars, DrawTimes, UseDescriptors, DrawSubject
  <2> QED
    BY <2>1, FdPreserved
<1>3. FdInv => DescriptorsOwned
  BY DEF FdInv
<1> QED
  BY <1>1, <1>2, <1>3, PTL DEF LibSpec
-----------------------------------------------------------------------------
(* The subjects *)

\* What is looked at is nothing or a subject of the part that is looked at.
SubjectInv == subject = NoSubject \/ (lib \in DOMAIN Subjects /\ subject \in Subjects[lib])

LEMMA SubjectInductive == LibSpec => []SubjectInv
<1>1. LibInit => SubjectInv
  BY DEF LibInit, SubjectInv
<1>2. SubjectInv /\ [LibNext]_libVars => SubjectInv'
  BY DEF SubjectInv, LibNext, libVars, DrawTimes, UseDescriptors, DrawSubject
<1> QED
  BY <1>1, <1>2, PTL DEF LibSpec

\* A bit within the width of an int selects just itself.
LEMMA TakesExact ==
  ASSUME NEW idx \in Int, NEW mod, mod.offset \in Int, idx - mod.offset < INT_BITS - 1
  PROVE  Takes(idx, mod) =
           {idx - mod.offset \in 0 .. MASK_BITS - 1 /\ idx - mod.offset \in mod.formats}
<1> USE WidthsOK
<1> DEFINE k == idx - mod.offset
<1>1. k \in Int /\ k < INT_BITS - 1
  OBVIOUS
<1>2. InWindow(idx, mod) <=> k \in 0 .. MASK_BITS - 1
  BY DEF InWindow
<1>3. OneShifted(k) = {{k}}
  BY <1>1 DEF OneShifted, Extended
<1> HIDE DEF k
<1>4. mod.formats \intersect {k} # {} <=> k \in mod.formats
  OBVIOUS
<1>5. CASE InWindow(idx, mod)
  <2>1. Takes(idx, mod) = {mod.formats \intersect bits # {} : bits \in {{k}}}
    BY <1>3, <1>5 DEF Takes, k
  <2> QED
    BY <1>2, <1>4, <1>5, <2>1 DEF k
<1>6. CASE ~InWindow(idx, mod)
  BY <1>2, <1>6 DEF Takes, k
<1> QED
  BY <1>5, <1>6

\* The modifiers taken are those listed, for every blob whose entries reach
\* the format within the width of an int.
THEOREM FormatsAlwaysExact == LibSpec => []FormatsExact
<1>1. SubjectInv => FormatsExact
  <2> SUFFICES ASSUME SubjectInv, Drawn("formats"), ShiftFits(subject.idx, subject.mods)
               PROVE  plane_formats_populate(subject.idx, subject.mods)
                        = {Listed(subject.idx, subject.mods)}
    BY DEF FormatsExact
  <2> DEFINE idx == subject.idx
             mods == subject.mods
             listed(mod) == idx - mod.offset \in 0 .. MASK_BITS - 1 /\ idx - mod.offset \in mod.formats
  <2>1. subject \in FormatSubjects
    BY DEF SubjectInv, Drawn, Subjects
  <2>2. idx \in Int /\ \A mod \in mods : mod.offset \in Int
    BY <2>1, SubjectsOK
  <2>3. \A mod \in mods : Takes(idx, mod) = {listed(mod)}
    BY <2>2, TakesExact DEF ShiftFits
  <2>4. Listed(idx, mods) = {mod \in mods : listed(mod)}
    BY DEF Listed
  <2>5. plane_formats_populate(idx, mods)
          = {S \in SUBSET mods : \A mod \in mods : (mod \in S) \in Takes(idx, mod)}
    BY DEF plane_formats_populate
  <2> HIDE DEF idx, mods, listed
  <2>6. ASSUME NEW S \in SUBSET mods
        PROVE  (\A mod \in mods : (mod \in S) \in Takes(idx, mod)) <=> S = {mod \in mods : listed(mod)}
    <3>1. \A mod \in mods : (mod \in S) \in Takes(idx, mod) <=> (mod \in S <=> listed(mod))
      BY <2>3 DEF listed
    <3> QED
      BY <3>1
  <2>7. {mod \in mods : listed(mod)} \in SUBSET mods
    OBVIOUS
  <2> QED
    BY <2>4, <2>5, <2>6, <2>7 DEF idx, mods
<1> QED
  BY <1>1, SubjectInductive, PTL

\* What each quad covers.
LEMMA QuadCovers ==
  ASSUME NEW frame \in Int, NEW N \in Nat, NEW x \in Int, NEW y \in Int
  PROVE  LET f == factor(frame, N) IN
           /\ f \in Int
           /\ Covers(fill_verts(0, frame, N), x, y) <=> (-N <= x /\ x < f /\ -N <= y /\ y < f)
           /\ Covers(fill_verts(1, frame, N), x, y) <=> (f <= x /\ x < N /\ -N <= y /\ y < f)
           /\ Covers(fill_verts(2, frame, N), x, y) <=> (-N <= x /\ x < f /\ f <= y /\ y < N)
           /\ Covers(fill_verts(3, frame, N), x, y) <=> (f <= x /\ x < N /\ f <= y /\ y < N)
<1> DEFINE f == factor(frame, N)
<1>1. f \in Int
  BY DEF factor
<1>2. /\ QuadOf(0, frame, N) = [left |-> -N, right |-> f, top |-> -N, bottom |-> f]
      /\ QuadOf(1, frame, N) = [left |-> f, right |-> N, top |-> -N, bottom |-> f]
      /\ QuadOf(2, frame, N) = [left |-> -N, right |-> f, top |-> f, bottom |-> N]
      /\ QuadOf(3, frame, N) = [left |-> f, right |-> N, top |-> f, bottom |-> N]
  BY DEF QuadOf
<1> HIDE DEF f
<1>3. \A loc : fill_verts(loc, frame, N) =
         <<[x |-> QuadOf(loc, frame, N).left, y |-> QuadOf(loc, frame, N).bottom],
           [x |-> QuadOf(loc, frame, N).left, y |-> QuadOf(loc, frame, N).top],
           [x |-> QuadOf(loc, frame, N).right, y |-> QuadOf(loc, frame, N).top],
           [x |-> QuadOf(loc, frame, N).right, y |-> QuadOf(loc, frame, N).bottom]>>
  BY DEF fill_verts
<1>4. \A loc : Covers(fill_verts(loc, frame, N), x, y) <=>
         /\ QuadOf(loc, frame, N).left <= x /\ x < QuadOf(loc, frame, N).right
         /\ QuadOf(loc, frame, N).top <= y /\ y < QuadOf(loc, frame, N).bottom
  BY <1>3 DEF Covers
<1> QED
  BY <1>1, <1>2, <1>4 DEF f

\* The quads tile the screen at every frame number, one out of range too.
THEOREM QuadsAlwaysTile == LibSpec => []QuadsTile
<1>1. ASSUME NEW frame \in Int, NEW N \in Nat PROVE Tiles(frame, N)
  <2>1. ASSUME NEW x \in -N .. N - 1, NEW y \in -N .. N - 1
        PROVE  \E loc \in 0 .. 3 :
                 /\ Covers(fill_verts(loc, frame, N), x, y)
                 /\ \A other \in 0 .. 3 :
                      Covers(fill_verts(other, frame, N), x, y) => other = loc
    <3> DEFINE f == factor(frame, N)
               C(loc) == Covers(fill_verts(loc, frame, N), x, y)
    <3>1. /\ x \in Int /\ y \in Int /\ -N <= x /\ x < N /\ -N <= y /\ y < N
      OBVIOUS
    <3>2. /\ f \in Int
          /\ C(0) <=> (x < f /\ y < f)
          /\ C(1) <=> (f <= x /\ y < f)
          /\ C(2) <=> (x < f /\ f <= y)
          /\ C(3) <=> (f <= x /\ f <= y)
      BY <3>1, QuadCovers
    <3> HIDE DEF f, C
    <3>3. \A loc \in 0 .. 3 : loc = 0 \/ loc = 1 \/ loc = 2 \/ loc = 3
      OBVIOUS
    <3>4. \E loc \in 0 .. 3 : C(loc) /\ \A other \in 0 .. 3 : C(other) => other = loc
      <4>1. CASE x < f /\ y < f
        BY <3>1, <3>2, <3>3, <4>1
      <4>2. CASE f <= x /\ y < f
        BY <3>1, <3>2, <3>3, <4>2
      <4>3. CASE x < f /\ f <= y
        BY <3>1, <3>2, <3>3, <4>3
      <4>4. CASE f <= x /\ f <= y
        BY <3>1, <3>2, <3>3, <4>4
      <4> QED
        BY <3>1, <3>2, <4>1, <4>2, <4>3, <4>4
    <3> QED
      BY <3>4 DEF C
  <2>2. ASSUME NEW loc \in 0 .. 3
        PROVE  LET v == fill_verts(loc, frame, N) IN
                 v[1].x = v[2].x /\ v[2].y = v[3].y /\ v[3].x = v[4].x /\ v[4].y = v[1].y
    BY DEF fill_verts
  <2> QED
    BY <2>1, <2>2 DEF Tiles
<1>2. SubjectInv => QuadsTile
  <2> SUFFICES ASSUME SubjectInv, Drawn("quads") PROVE Tiles(subject.frame, subject.N)
    BY DEF QuadsTile
  <2>1. subject \in QuadSubjects
    BY DEF SubjectInv, Drawn, Subjects
  <2>2. subject.frame \in Int /\ subject.N \in Nat
    BY <2>1, SubjectsOK
  <2> QED
    BY <1>1, <2>2
<1> QED
  BY <1>2, SubjectInductive, PTL

\* Both roundings of the frequency together are off by at most half a
\* millihertz and half a line.
LEMMA RefreshRounds ==
  ASSUME NEW mode \in ModesOf(Nat)
  PROVE  LET pixels == mode.htotal * mode.vtotal
             error  == refresh(mode) * pixels - mode.clock * MHZ_PER_KHZ
         IN /\ refresh(mode) \in Int
            /\ 2 * error <= pixels + mode.htotal /\ -2 * error <= pixels + mode.htotal
<1> USE TimingUnitsOK
<1> DEFINE h == mode.htotal
           v == mode.vtotal
           A == mode.clock * MHZ_PER_KHZ
           B == A \div h
           C == B + v \div 2
           R == C \div v
<1>1. h \in Nat \ {0} /\ v \in Nat \ {0} /\ A \in Int
  BY DEF ModesOf
<1>2. R = refresh(mode)
  BY DEF refresh
<1> HIDE DEF h, v, A
<1> DEFINE r1 == A % h
<1>3. B \in Int /\ r1 \in Int /\ 0 <= r1 /\ r1 < h /\ A = h * B + r1
  BY <1>1, DivMod
<1> HIDE DEF B, r1
<1>4. PICK d \in Int, e \in Int : d = v \div 2 /\ 0 <= e /\ e < 2 /\ v = 2 * d + e
  BY <1>1, DivMod
<1>5. C \in Int /\ C = B + d
  BY <1>3, <1>4
<1> HIDE DEF C
<1> DEFINE r2 == C % v
<1>6. R \in Int /\ r2 \in Int /\ 0 <= r2 /\ r2 < v /\ C = v * R + r2
  BY <1>1, <1>5, DivMod
<1> HIDE DEF R, r2
<1> DEFINE hd == h * d
           hr == h * r2
           hv == h * v
           he == h * e
           hb == h * B
           w  == R * (h * v)
<1>7. hd \in Int /\ hr \in Int /\ hv \in Int /\ he \in Int /\ hb \in Int
  BY <1>1, <1>3, <1>4, <1>6
<1>8. hv = 2 * hd + he
  <2>1. \A u, x, y \in Int : u * (2 * x + y) = 2 * (u * x) + u * y
    OBVIOUS
  <2>2. h * (2 * d + e) = 2 * (h * d) + h * e
    BY <1>1, <1>4, <2>1
  <2> QED
    BY <1>4, <2>2, Zenon
<1>9. w = hb + hd - hr
  <2>1. v * R = B + d - r2 /\ v * R \in Int
    BY <1>1, <1>3, <1>4, <1>5, <1>6
  <2>2. \A u, x, y \in Int : y * (u * x) = u * (x * y)
    OBVIOUS
  <2>3. w = h * (v * R)
    BY <1>1, <1>6, <2>2, h \in Int, v \in Int, Zenon
  <2>4. \A u, x, y, z \in Int : u * (x + y - z) = u * x + u * y - u * z
    OBVIOUS
  <2>5. h * (B + d - r2) = hb + hd - hr
    <3> DEFINE g == h * (B + d - r2)
    <3>1. g = h * B + h * d - h * r2
      BY <1>1, <1>3, <1>4, <1>6, <2>4
    <3> QED
      BY <3>1
  <2> QED
    BY <2>1, <2>3, <2>5, Zenon
<1>10. 0 <= hr /\ hr <= hv - h
  <2>1. \A u \in Nat, x \in Nat : u * x \in Nat
    OBVIOUS
  <2>2. r2 \in Nat /\ v - 1 - r2 \in Nat /\ h \in Nat
    BY <1>1, <1>6
  <2>3. hr \in Nat /\ h * (v - 1 - r2) \in Nat
    BY <2>1, <2>2, Zenon
  <2>4. \A u, x, y \in Int : u * (x - 1 - y) = u * x - u - u * y
    OBVIOUS
  <2>5. h * (v - 1 - r2) = hv - h - hr
    BY <1>1, <1>6, <2>4, h \in Int, v \in Int, Zenon
  <2> HIDE DEF hr, hv
  <2> QED
    BY <1>1, <1>7, <2>3, <2>5
<1>11. 0 <= he /\ he <= h
  <2>1. e = 0 \/ e = 1
    BY <1>4
  <2> QED
    BY <1>1, <2>1
<1> DEFINE error == w - A
<1>12. error = hd - hr - r1
  <2> HIDE DEF hd, hr, hb, w
  <2> QED
    BY <1>3, <1>7, <1>9 DEF hb
<1> HIDE DEF hd, hr, hv, he, hb, error
<1>13. 2 * error <= hv + h
  BY <1>1, <1>3, <1>7, <1>8, <1>10, <1>11, <1>12
<1>14. -2 * error <= hv + h
  BY <1>1, <1>3, <1>7, <1>8, <1>10, <1>11, <1>12
<1> QED
  BY <1>2, <1>6, <1>13, <1>14 DEF h, v, A, hv, error, w

LEMMA RefreshIsNat ==
  ASSUME NEW mode \in ModesOf(Nat)
  PROVE  refresh(mode) \in Nat
<1>1. \A x \in Nat, m \in Nat \ {0} : x \div m \in Nat
  OBVIOUS
<1>2. \A x, m \in Nat : x * m \in Nat /\ x + m \in Nat
  OBVIOUS
<1>3. mode.clock \in Nat /\ mode.htotal \in Nat \ {0} /\ mode.vtotal \in Nat \ {0} /\ 2 \in Nat \ {0}
  BY DEF ModesOf
<1>4. mode.clock * MHZ_PER_KHZ \in Nat
  BY <1>2, <1>3, TimingUnitsOK
<1>5. (mode.clock * MHZ_PER_KHZ) \div mode.htotal \in Nat /\ mode.vtotal \div 2 \in Nat
  BY <1>1, <1>3, <1>4
<1>6. (mode.clock * MHZ_PER_KHZ) \div mode.htotal + mode.vtotal \div 2 \in Nat
  BY <1>2, <1>5, Zenon
<1> QED
  BY <1>1, <1>3, <1>6, Zenon DEF refresh

\* The interval of the frame clock is the mode's, to within the rounding, for
\* every mode whose frequency fits the argument and whatever the units.
THEOREM RefreshAlwaysNearest == LibSpec => []RefreshNearest
<1> USE TimingUnitsOK
<1>1. ASSUME NEW mode \in ModesOf(Nat) PROVE Nearest(mode)
  <2> DEFINE R == refresh(mode)
  <2>1. R \in Nat
    BY RefreshIsNat
  <2>2. ASSUME R < UINT_RANGE
        PROVE  refreshIntervalNsec_of(mode) = IF R = 0 THEN {} ELSE {NSEC_MHZ \div R}
    <3>1. R % UINT_RANGE = R
      BY <2>1, <2>2
    <3>2. refreshIntervalNsec_of(mode) = millihzToNsec(R)
      BY <3>1 DEF refreshIntervalNsec_of
    <3> HIDE DEF R
    <3>3. millihzToNsec(R) = IF R = 0 THEN {} ELSE {NSEC_MHZ \div R}
      <4>1. R < 1 <=> R = 0
        BY <2>1
      <4> QED
        BY <4>1 DEF millihzToNsec
    <3> QED
      BY <3>2, <3>3
  <2>3. ASSUME R # 0, NEW interval, interval = NSEC_MHZ \div R
        PROVE  interval * R <= NSEC_MHZ /\ NSEC_MHZ < (interval + 1) * R
    <3>1. R \in Nat \ {0}
      BY <2>1, <2>3
    <3> HIDE DEF R
    <3> DEFINE r == NSEC_MHZ % R
    <3>3. interval \in Int /\ r \in Int /\ 0 <= r /\ r < R /\ NSEC_MHZ = R * interval + r
      BY <2>3, <3>1, DivMod
    <3> HIDE DEF r
    <3>4. \A x, y \in Int : x * y = y * x /\ (x + 1) * y = y * x + y
      OBVIOUS
    <3>5. interval * R = R * interval /\ (interval + 1) * R = R * interval + R
      BY <3>1, <3>3, <3>4, R \in Int, Zenon
    <3> DEFINE p == R * interval
    <3>6. p \in Int
      BY <3>1, <3>3
    <3> HIDE DEF p
    <3>7. p <= NSEC_MHZ /\ NSEC_MHZ < p + R
      BY <3>1, <3>3, <3>6 DEF p
    <3> QED
      BY <3>5, <3>7 DEF p
  <2> DEFINE intervals == refreshIntervalNsec_of(mode)
  <2>4. R < UINT_RANGE =>
          /\ intervals = {} <=> R = 0
          /\ \A interval \in intervals : interval * R <= NSEC_MHZ /\ NSEC_MHZ < (interval + 1) * R
    <3> SUFFICES ASSUME R < UINT_RANGE
                 PROVE  /\ intervals = {} <=> R = 0
                        /\ \A interval \in intervals :
                             interval * R <= NSEC_MHZ /\ NSEC_MHZ < (interval + 1) * R
      OBVIOUS
    <3>1. intervals = IF R = 0 THEN {} ELSE {NSEC_MHZ \div R}
      BY <2>2
    <3> HIDE DEF intervals, R
    <3> QED
      BY <2>3, <3>1
  <2> QED
    BY <2>4, RefreshRounds DEF Nearest
<1>2. SubjectInv => RefreshNearest
  <2> SUFFICES ASSUME SubjectInv, Drawn("mode") PROVE Nearest(subject)
    BY DEF RefreshNearest
  <2>1. subject \in ModesOf(Nat)
    BY SubjectsOK DEF SubjectInv, Drawn, Subjects
  <2> QED
    BY <1>1, <2>1
<1> QED
  BY <1>2, SubjectInductive, PTL
-----------------------------------------------------------------------------
(* The properties of KMS objects *)

\* The only number of a set is its least and its greatest.
LEMMA FirstLastOfOne ==
  ASSUME NEW x \in Int
  PROVE  First({x}) = x /\ Last({x}) = x
BY DEF First, Last

\* What the driver says of the value of a name, of a property with one
\* description and no enum name twice.
LEMMA ValueNamedIs ==
  ASSUME NEW KMS, NEW id, NEW prop, KMS[id] = {prop},
         EnumNamesDiffer(prop.enums),
         NEW name
  PROVE  \A v : v \in ValueNamed(name, id, KMS) <=>
                 \E l \in Named(name, prop.enums) : v = prop.enums[l].value
<1> USE DEF EnumNamesDiffer
<1> DEFINE mine == Named(name, prop.enums)
<1>1. ValueNamed(name, id, KMS) = {prop.enums[First(l)].value : l \in {mine} \ {{}}}
  BY DEF ValueNamed
<1>2. CASE mine = {}
  BY <1>1, <1>2
<1>3. CASE mine # {}
  <2>1. PICK m \in DOMAIN prop.enums : prop.enums[m].name = name
    BY <1>3 DEF Named
  <2>2. mine = {m}
    BY <2>1 DEF Named
  <2>3. m \in Int
    BY LenProperties
  <2>4. First(mine) = m
    BY <2>2, <2>3, FirstLastOfOne
  <2> HIDE DEF mine
  <2> QED
    BY <1>1, <2>2, <2>4 DEF mine
<1> QED
  BY <1>2, <1>3

\* The value of a property is the one that its name has, for every table and
\* every driver.
LEMMA ValueIsByName ==
  ASSUME NEW s, Described(s), NEW j \in DOMAIN s.src, NEW default
  PROVE  drm_property_get_value(Entry(s.src[j], s.props, s.KMS), s.props, default)
           = ValueByName(s.src[j], s.props, s.KMS, default)
<1> DEFINE p == s.src[j]
           props == s.props
           KMS == s.KMS
           found == Matching(p.name, props, KMS)
           info == Entry(p, props, KMS)
           having(k) == {i \in found : ValueNamed(p.enums[k], props[i].id, KMS) # {}}
           values == [k \in DOMAIN p.enums |->
                        IF having(k) = {} THEN [valid |-> FALSE, value |-> 0]
                        ELSE [valid |-> TRUE,
                              value |-> CHOOSE v \in ValueNamed(p.enums[k], props[Last(having(k))].id, KMS) : TRUE]]
<1>1. /\ p \in [name : STRING, enums : Seq(STRING)]
      /\ props \in Seq([id : Nat \ {0}, value : Nat])
  <2>1. /\ s.src \in Seq([name : STRING, enums : Seq(STRING)])
        /\ s.props \in Seq([id : Nat \ {0}, value : Nat])
    BY DEF Described
  <2>2. j \in 1 .. Len(s.src)
    BY <2>1, LenProperties
  <2> QED
    BY <2>1, <2>2, ElementOfSeq
<1>2. DOMAIN props = 1 .. Len(props) /\ \A i \in DOMAIN props : props[i].id \in Nat \ {0}
  <2>1. DOMAIN props = 1 .. Len(props) /\ props \in [1 .. Len(props) -> [id : Nat \ {0}, value : Nat]]
    BY <1>1, LenProperties
  <2> HIDE DEF props
  <2> QED
    BY <2>1
<1>3. DOMAIN p.enums = {} <=> p.enums = << >>
  <2>1. p.enums \in Seq(STRING)
    BY <1>1
  <2> HIDE DEF p
  <2>2. DOMAIN p.enums = 1 .. Len(p.enums) /\ Len(p.enums) \in Nat
    BY <2>1, LenProperties
  <2>3. Len(<< >>) = 0 /\ (p.enums # << >> => Len(p.enums) \in Nat \ {0})
    BY <2>1, EmptySeq
  <2>4. CASE p.enums = << >>
    BY <2>2, <2>3, <2>4
  <2>5. CASE p.enums # << >>
    <3>1. 1 \in DOMAIN p.enums
      BY <2>2, <2>3, <2>5
    <3> QED
      BY <2>5, <3>1
  <2> QED
    BY <2>4, <2>5
<1>4. info = [prop_id |-> IF found = {} THEN 0 ELSE props[Last(found)].id, enum_values |-> values]
  BY DEF Entry
<1>5. CASE found = {}
  <2>1. info.prop_id = 0
    BY <1>4, <1>5
  <2>2. drm_property_get_value(info, props, default) = default
    BY <2>1 DEF drm_property_get_value
  <2>3. ValueByName(p, props, KMS, default) = default
    BY <1>5 DEF ValueByName
  <2> QED
    BY <2>2, <2>3
<1>6. CASE found # {}
  <2>1. PICK m \in DOMAIN props : \E prop \in KMS[props[m].id] : prop.name = p.name
    BY <1>6 DEF Matching
  <2>2. PICK prop \in KMS[props[m].id] : prop.name = p.name
    BY <2>1
  <2>3. KMS[props[m].id] = {prop}
    <3>1. \A q \in KMS[props[m].id] : q = prop
      BY DEF Described
    <3> QED
      BY <3>1
  <2>4. found = {m}
    BY <2>2 DEF Matching, Described
  <2>5. m \in Int
    BY <1>2
  <2>6. First(found) = m /\ Last(found) = m
    BY <2>4, <2>5, FirstLastOfOne
  <2>7. EnumNamesDiffer(prop.enums)
    BY DEF Described
  <2>8. {i \in DOMAIN props : props[i].id = props[m].id} = {m}
    <3>1. ASSUME NEW i \in DOMAIN props, props[i].id = props[m].id PROVE i = m
      BY <2>2, <3>1 DEF Described
    <3> QED
      BY <3>1
  <2> DEFINE value == props[m].value
             mean(k) == ValueNamed(p.enums[k], props[m].id, KMS)
  <2>9. \A k \in DOMAIN p.enums : \A v :
          v \in mean(k) <=> \E l \in Named(p.enums[k], prop.enums) : v = prop.enums[l].value
    <3> DEFINE id == props[m].id
    <3>1. KMS[id] = {prop}
      BY <2>3
    <3> HIDE DEF id, KMS
    <3>2. \A name, v : v \in ValueNamed(name, id, KMS) <=>
                          \E l \in Named(name, prop.enums) : v = prop.enums[l].value
      BY <2>7, <3>1, ValueNamedIs
    <3> QED
      BY <3>2 DEF id
  <2>10. \A k \in DOMAIN p.enums : having(k) = IF mean(k) = {} THEN {} ELSE {m}
    BY <2>4
  <2>11. ASSUME NEW k \in DOMAIN p.enums
         PROVE  values[k].valid /\ values[k].value = value <=> value \in mean(k)
    <3>1. CASE mean(k) = {}
      BY <2>10, <3>1
    <3>2. CASE mean(k) # {}
      <4>1. having(k) = {m}
        BY <2>10, <3>2
      <4>2. Last(having(k)) = m
        BY <2>5, <4>1, FirstLastOfOne
      <4>3. values[k] = [valid |-> TRUE, value |-> CHOOSE v \in mean(k) : TRUE]
        BY <4>1, <4>2
      <4>4. PICK l \in DOMAIN prop.enums : prop.enums[l].name = p.enums[k]
        BY <2>9, <3>2 DEF Named
      <4>5. Named(p.enums[k], prop.enums) = {l}
        BY <2>7, <4>4 DEF Named, EnumNamesDiffer
      <4>6. mean(k) = {prop.enums[l].value}
        BY <2>9, <4>5
      <4> HIDE DEF values, mean
      <4> QED
        BY <4>3, <4>6
    <3> QED
      BY <3>1, <3>2
  <2> DEFINE known == Translations(info, value)
             names == {e.name : e \in {e \in UNION {{q.enums[l] : l \in DOMAIN q.enums} :
                                                    q \in KMS[props[First(found)].id]} :
                                         e.value = value}}
             known2 == {k \in DOMAIN p.enums : p.enums[k] \in names}
  <2>12. info.enum_values = values /\ info.prop_id = props[m].id /\ DOMAIN values = DOMAIN p.enums
    <3>1. DOMAIN values = DOMAIN p.enums
      OBVIOUS
    <3> HIDE DEF info, values, found, props
    <3> QED
      BY <1>4, <1>6, <2>6, <3>1
  <2>13. known = {k \in DOMAIN p.enums : value \in mean(k)}
    <3> HIDE DEF info, values, mean, value
    <3> QED
      BY <2>11, <2>12 DEF Translations
  <2>14. known2 = {k \in DOMAIN p.enums : value \in mean(k)}
    <3>1. ASSUME NEW k \in DOMAIN p.enums PROVE p.enums[k] \in names <=> value \in mean(k)
      <4>1. names = {e.name : e \in {e \in {prop.enums[l] : l \in DOMAIN prop.enums} : e.value = value}}
        BY <2>3, <2>6
      <4>2. p.enums[k] \in names <=>
              \E l \in DOMAIN prop.enums : prop.enums[l].value = value /\ prop.enums[l].name = p.enums[k]
        <5> HIDE DEF names, p, value
        <5> QED
          BY <4>1
      <4>3. value \in mean(k) <=>
              \E l \in DOMAIN prop.enums : prop.enums[l].name = p.enums[k] /\ prop.enums[l].value = value
        <5> HIDE DEF mean, value, p
        <5> QED
          BY <2>9 DEF Named
      <4> QED
        BY <4>2, <4>3
    <3> QED
      BY <3>1
  <2>15. values = << >> <=> p.enums = << >>
    <3>1. values = << >> <=> DOMAIN values = {}
      OBVIOUS
    <3> QED
      BY <1>3, <2>12, <3>1
  <2> HIDE DEF info, values, mean, known, known2, names, value, found
  <2>16. known2 = known
    BY <2>13, <2>14
  <2>17. drm_property_get_value(info, props, default) =
           IF p.enums = << >> THEN value ELSE IF known = {} THEN default ELSE First(known) - 1
    <3>1. ~(info.prop_id = 0) /\ props[m].id # 0
      BY <1>2, <2>12
    <3>2. {i \in DOMAIN props : props[i].id = info.prop_id} = {m}
      BY <2>8, <2>12
    <3>3. First({m}) = m
      BY <2>5, FirstLastOfOne
    <3> HIDE DEF p, props
    <3> QED
      BY <2>12, <2>15, <3>1, <3>2, <3>3 DEF drm_property_get_value, known, value
  <2>18. ValueByName(p, props, KMS, default) =
           IF p.enums = << >> THEN value ELSE IF known2 = {} THEN default ELSE First(known2) - 1
    BY <1>6, <2>6 DEF ValueByName, known2, names, value, found
  <2> QED
    BY <2>16, <2>17, <2>18 DEF info
<1> QED
  BY <1>5, <1>6

\* The value of a property is found under its name, for every table, every
\* object and every driver that gives no name twice.
THEOREM ValueAlwaysFound == LibSpec => []ValueFound
<1>1. SubjectInv => ValueFound
  <2> SUFFICES ASSUME SubjectInv, Drawn("props"), NEW j \in DOMAIN subject.src
               PROVE  drm_property_get_value(
                        drm_property_info_populate(subject.src, subject.props, subject.KMS)[j],
                        subject.props, Default)
                      = ValueByName(subject.src[j], subject.props, subject.KMS, Default)
    BY DEF ValueFound
  <2>1. Described(subject)
    BY SubjectsOK DEF SubjectInv, Drawn, Subjects
  <2>2. drm_property_info_populate(subject.src, subject.props, subject.KMS)[j]
          = Entry(subject.src[j], subject.props, subject.KMS)
    BY DEF drm_property_info_populate
  <2> QED
    BY <2>1, <2>2, ValueIsByName
<1> QED
  BY <1>1, SubjectInductive, PTL

\* The entry of a table has the id of the driver's property of its name.
LEMMA EntryNamed ==
  ASSUME NEW src, NEW props, NEW KMS,
         Described([src |-> src, props |-> props, KMS |-> KMS]),
         NEW j \in DOMAIN src, NEW id, id = Entry(src[j], props, KMS).prop_id
  PROVE  /\ id # 0 <=> Matching(src[j].name, props, KMS) # {}
         /\ id # 0 => \E prop : KMS[id] = {prop} /\ prop.name = src[j].name
<1> DEFINE p == src[j]
           found == Matching(p.name, props, KMS)
<1>1. id = IF found = {} THEN 0 ELSE props[Last(found)].id
  BY DEF Entry
<1>2. DOMAIN props = 1 .. Len(props) /\ \A i \in DOMAIN props : props[i].id \in Nat \ {0}
  <2>1. props \in Seq([id : Nat \ {0}, value : Nat])
    BY DEF Described
  <2>2. DOMAIN props = 1 .. Len(props) /\ props \in [1 .. Len(props) -> [id : Nat \ {0}, value : Nat]]
    BY <2>1, LenProperties
  <2> QED
    BY <2>2
<1>3. CASE found = {}
  BY <1>1, <1>3
<1>4. CASE found # {}
  <2>1. PICK m \in DOMAIN props : \E prop \in KMS[props[m].id] : prop.name = p.name
    BY <1>4 DEF Matching
  <2>2. PICK prop \in KMS[props[m].id] : prop.name = p.name
    BY <2>1
  <2>3. KMS[props[m].id] = {prop}
    <3>1. \A q \in KMS[props[m].id] : q = prop
      BY DEF Described
    <3> QED
      BY <3>1
  <2>4. found = {m}
    BY <2>2 DEF Matching, Described
  <2>5. m \in Int
    BY <1>2
  <2>6. Last(found) = m
    BY <2>4, <2>5, FirstLastOfOne
  <2>7. id = props[m].id /\ id # 0
    BY <1>1, <1>2, <1>4, <2>6
  <2> QED
    BY <1>4, <2>2, <2>3, <2>7
<1> QED
  BY <1>3, <1>4

\* What the changes are called, and that their names are in the tables.
NamesOf(changes) == {<<c.on, Tables[c.on][c.prop].name, c.val>> : c \in changes}

LEMMA ChangesKnown ==
  ASSUME NEW info, NEW screen, NEW c \in Changes(info, screen)
  PROVE  c.on \in DOMAIN Tables /\ c.prop \in DOMAIN Tables[c.on]
BY DEF Changes, Change, Tables, plane_props, crtc_props, connector_props,
       wdrm_plane_property, wdrm_crtc_property, wdrm_connector_property

\* The changes, by the names in the tables, are what the frame takes.
LEMMA ChangesIntended ==
  ASSUME NEW info, NEW screen, NEW driver,
         screen.width = screen.hdisplay, screen.height = screen.vdisplay,
         explicitFencing(info) <=> Has(driver.plane, "IN_FENCE_FD") /\ Has(driver.crtc, "OUT_FENCE_PTR")
  PROVE  NamesOf(Changes(info, screen)) = Intended(driver, screen)
<1> DEFINE P == wdrm_plane_property
           C == wdrm_crtc_property
           always ==
             {Change("plane", P.CRTC_ID, screen.crtc_id), Change("plane", P.FB_ID, screen.fb_id),
              Change("plane", P.SRC_X, 0), Change("plane", P.SRC_Y, 0),
              Change("plane", P.SRC_W, screen.width * FIXED_ONE),
              Change("plane", P.SRC_H, screen.height * FIXED_ONE),
              Change("plane", P.CRTC_X, 0), Change("plane", P.CRTC_Y, 0),
              Change("plane", P.CRTC_W, screen.width), Change("plane", P.CRTC_H, screen.height),
              Change("crtc", C.MODE_ID, screen.mode_blob_id), Change("crtc", C.ACTIVE, 1),
              Change("connector", wdrm_connector_property.CRTC_ID, screen.crtc_id)}
           fence == Change("crtc", C.OUT_FENCE_PTR, screen.fence_ptr)
           name(c) == <<c.on, Tables[c.on][c.prop].name, c.val>>
<1>1. /\ P.CRTC_ID = 11 /\ P.FB_ID = 10 /\ P.SRC_X = 2 /\ P.SRC_Y = 3 /\ P.SRC_W = 4 /\ P.SRC_H = 5
      /\ P.CRTC_X = 6 /\ P.CRTC_Y = 7 /\ P.CRTC_W = 8 /\ P.CRTC_H = 9
      /\ C.MODE_ID = 1 /\ C.ACTIVE = 2 /\ C.OUT_FENCE_PTR = 3
      /\ wdrm_connector_property.CRTC_ID = 3
  BY DEF wdrm_plane_property, wdrm_crtc_property, wdrm_connector_property
<1>2. /\ plane_props[11].name = "CRTC_ID" /\ plane_props[10].name = "FB_ID"
      /\ plane_props[2].name = "SRC_X" /\ plane_props[3].name = "SRC_Y"
      /\ plane_props[4].name = "SRC_W" /\ plane_props[5].name = "SRC_H"
      /\ plane_props[6].name = "CRTC_X" /\ plane_props[7].name = "CRTC_Y"
      /\ plane_props[8].name = "CRTC_W" /\ plane_props[9].name = "CRTC_H"
      /\ crtc_props[1].name = "MODE_ID" /\ crtc_props[2].name = "ACTIVE"
      /\ crtc_props[3].name = "OUT_FENCE_PTR" /\ connector_props[3].name = "CRTC_ID"
  BY DEF plane_props, crtc_props, connector_props, Property
<1>3. Tables["plane"] = plane_props /\ Tables["crtc"] = crtc_props /\ Tables["connector"] = connector_props
  BY DEF Tables
<1>4. \A on, prop, val : name(Change(on, prop, val)) = <<on, Tables[on][prop].name, val>>
  BY DEF Change
<1>5. NamesOf(Changes(info, screen)) =
        {name(c) : c \in always} \union (IF explicitFencing(info) THEN {name(fence)} ELSE {})
  <2>1. NamesOf(Changes(info, screen)) = {name(c) : c \in Changes(info, screen)}
    BY DEF NamesOf
  <2>2. Changes(info, screen) = always \union (IF explicitFencing(info) THEN {fence} ELSE {})
    BY DEF Changes
  <2> HIDE DEF always, fence, name
  <2> QED
    BY <2>1, <2>2
<1> HIDE DEF name
<1>6. name(fence) = <<"crtc", "OUT_FENCE_PTR", screen.fence_ptr>>
  BY <1>1, <1>2, <1>3, <1>4
<1>7. /\ name(Change("plane", P.CRTC_ID, screen.crtc_id)) = <<"plane", "CRTC_ID", screen.crtc_id>>
      /\ name(Change("plane", P.FB_ID, screen.fb_id)) = <<"plane", "FB_ID", screen.fb_id>>
      /\ name(Change("plane", P.SRC_X, 0)) = <<"plane", "SRC_X", 0>>
      /\ name(Change("plane", P.SRC_Y, 0)) = <<"plane", "SRC_Y", 0>>
      /\ name(Change("plane", P.SRC_W, screen.width * FIXED_ONE))
           = <<"plane", "SRC_W", screen.hdisplay * FIXED_ONE>>
      /\ name(Change("plane", P.SRC_H, screen.height * FIXED_ONE))
           = <<"plane", "SRC_H", screen.vdisplay * FIXED_ONE>>
  BY <1>1, <1>2, <1>3, <1>4
<1>8. /\ name(Change("plane", P.CRTC_X, 0)) = <<"plane", "CRTC_X", 0>>
      /\ name(Change("plane", P.CRTC_Y, 0)) = <<"plane", "CRTC_Y", 0>>
      /\ name(Change("plane", P.CRTC_W, screen.width)) = <<"plane", "CRTC_W", screen.hdisplay>>
      /\ name(Change("plane", P.CRTC_H, screen.height)) = <<"plane", "CRTC_H", screen.vdisplay>>
      /\ name(Change("crtc", C.MODE_ID, screen.mode_blob_id))
           = <<"crtc", "MODE_ID", screen.mode_blob_id>>
      /\ name(Change("crtc", C.ACTIVE, 1)) = <<"crtc", "ACTIVE", 1>>
      /\ name(Change("connector", wdrm_connector_property.CRTC_ID, screen.crtc_id))
           = <<"connector", "CRTC_ID", screen.crtc_id>>
  BY <1>1, <1>2, <1>3, <1>4
<1>9. {name(c) : c \in always} \union (IF explicitFencing(info) THEN {name(fence)} ELSE {})
        = Intended(driver, screen)
  <2> DEFINE frame ==
    {<<"plane", "CRTC_ID", screen.crtc_id>>, <<"plane", "FB_ID", screen.fb_id>>,
     <<"plane", "SRC_X", 0>>, <<"plane", "SRC_W", screen.hdisplay * FIXED_ONE>>,
     <<"plane", "SRC_Y", 0>>, <<"plane", "SRC_H", screen.vdisplay * FIXED_ONE>>,
     <<"plane", "CRTC_X", 0>>, <<"plane", "CRTC_W", screen.hdisplay>>,
     <<"plane", "CRTC_Y", 0>>, <<"plane", "CRTC_H", screen.vdisplay>>,
     <<"crtc", "MODE_ID", screen.mode_blob_id>>, <<"crtc", "ACTIVE", 1>>,
     <<"connector", "CRTC_ID", screen.crtc_id>>}
  <2>1. {name(c) : c \in always} = frame
    BY <1>7, <1>8, Zenon
  <2>2. Intended(driver, screen) =
          frame \union (IF explicitFencing(info) THEN {name(fence)} ELSE {})
    BY <1>6 DEF Intended
  <2> HIDE DEF always, fence, frame
  <2> QED
    BY <2>1, <2>2
<1> QED
  BY <1>5, <1>9

\* The request sets what the frame takes, for every driver.
LEMMA RequestExact ==
  ASSUME NEW driver, NEW screen, NEW nomem,
         \A o \in DOMAIN Tables :
           Described([src |-> Tables[o], props |-> driver[o].props, KMS |-> driver[o].KMS])
  PROVE  ShowsFrame(driver, screen, nomem)
<1> DEFINE info    == Populated(driver)
           changes == Changes(info, screen)
           request == output_add_atomic_req(driver, screen, nomem)
           id(c)   == info[c.on][c.prop].prop_id
           added(c) == [on |-> c.on, id |-> id(c), val |-> c.val]
<1>1. ASSUME NEW o \in DOMAIN Tables, NEW j \in DOMAIN Tables[o]
      PROVE  /\ info[o][j].prop_id # 0 <=> Has(driver[o], Tables[o][j].name)
             /\ info[o][j].prop_id # 0 =>
                  \E prop : driver[o].KMS[info[o][j].prop_id] = {prop} /\ prop.name = Tables[o][j].name
  <2> DEFINE src == Tables[o]
             props == driver[o].props
             KMS == driver[o].KMS
             nr == info[o][j].prop_id
  <2>1. Described([src |-> src, props |-> props, KMS |-> KMS])
    BY <1>1
  <2>2. nr = Entry(src[j], props, KMS).prop_id
    BY <1>1 DEF Populated, drm_property_info_populate
  <2>3. j \in DOMAIN src
    BY <1>1
  <2>4. Has(driver[o], src[j].name) <=> Matching(src[j].name, props, KMS) # {}
    BY DEF Has
  <2> HIDE DEF src, props, KMS, nr, info
  <2>5. /\ nr # 0 <=> Matching(src[j].name, props, KMS) # {}
        /\ nr # 0 => \E prop : KMS[nr] = {prop} /\ prop.name = src[j].name
    BY <2>1, <2>2, <2>3, EntryNamed
  <2> QED
    BY <2>4, <2>5 DEF src, KMS, nr
<1>2. explicitFencing(info) <=> Has(driver.plane, "IN_FENCE_FD") /\ Has(driver.crtc, "OUT_FENCE_PTR")
  <2>1. /\ "plane" \in DOMAIN Tables /\ 13 \in DOMAIN Tables["plane"]
        /\ Tables["plane"][13].name = "IN_FENCE_FD"
        /\ "crtc" \in DOMAIN Tables /\ 3 \in DOMAIN Tables["crtc"]
        /\ Tables["crtc"][3].name = "OUT_FENCE_PTR"
    BY DEF Tables, plane_props, crtc_props, Property
  <2>2. explicitFencing(info) <=> info["plane"][13].prop_id # 0 /\ info["crtc"][3].prop_id # 0
    BY DEF explicitFencing, wdrm_plane_property, wdrm_crtc_property
  <2>3. driver.plane = driver["plane"] /\ driver.crtc = driver["crtc"]
    OBVIOUS
  <2> HIDE DEF info
  <2> QED
    BY <1>1, <2>1, <2>2, <2>3
<1>3. /\ request.passes => /\ screen.width = screen.hdisplay /\ screen.height = screen.vdisplay
                           /\ \A c \in changes : id(c) # 0
      /\ request.passes => request.adds = {added(c) : c \in changes}
  <2> DEFINE fails == {c \in changes : add_prop_fails(info, c, nomem)}
  <2>1. request = [passes |-> /\ screen.width = screen.hdisplay /\ screen.height = screen.vdisplay
                              /\ fails = {},
                   adds |-> {added(c) : c \in changes \ fails}]
    BY DEF output_add_atomic_req
  <2>2. fails = {} => \A c \in changes : id(c) # 0
    BY DEF add_prop_fails
  <2>3. fails = {} => changes \ fails = changes
    OBVIOUS
  <2> HIDE DEF fails, changes, id, added, info, request
  <2> QED
    BY <2>1, <2>2, <2>3
<1>4. ASSUME request.passes
      PROVE  Applied(driver, request.adds) = NamesOf(changes)
  <2>1. ASSUME NEW c \in changes
        PROVE  {<<c.on, p.name, c.val>> : p \in driver[c.on].KMS[id(c)]}
                 = {<<c.on, Tables[c.on][c.prop].name, c.val>>}
    <3>1. c.on \in DOMAIN Tables /\ c.prop \in DOMAIN Tables[c.on]
      BY <2>1, ChangesKnown
    <3>2. id(c) # 0
      BY <1>3, <1>4, <2>1
    <3>3. PICK prop : driver[c.on].KMS[id(c)] = {prop} /\ prop.name = Tables[c.on][c.prop].name
      BY <1>1, <3>1, <3>2
    <3> HIDE DEF id
    <3> QED
      BY <3>3
  <2>2. Applied(driver, request.adds)
          = UNION {{<<c.on, p.name, c.val>> : p \in driver[c.on].KMS[id(c)]} : c \in changes}
    <3>1. request.adds = {added(c) : c \in changes}
      BY <1>3, <1>4
    <3>2. \A c : added(c).on = c.on /\ added(c).id = id(c) /\ added(c).val = c.val
      OBVIOUS
    <3> HIDE DEF request, changes, added, id
    <3> QED
      BY <3>1, <3>2 DEF Applied
  <2>3. UNION {{<<c.on, p.name, c.val>> : p \in driver[c.on].KMS[id(c)]} : c \in changes}
          = {<<c.on, Tables[c.on][c.prop].name, c.val>> : c \in changes}
    <3> HIDE DEF id, changes
    <3> QED
      BY <2>1
  <2> QED
    BY <2>2, <2>3 DEF NamesOf
<1>5. request.passes => Applied(driver, request.adds) = Intended(driver, screen)
  BY <1>2, <1>3, <1>4, ChangesIntended
<1> QED
  BY <1>5 DEF ShowsFrame

\* A request that passes the assertions sets just what the frame takes, whatever
\* ids the driver has, in whatever order it lists its properties, whichever it
\* lacks and wherever memory runs out.
THEOREM RequestAlwaysShowsFrame == LibSpec => []RequestShowsFrame
<1>1. SubjectInv => RequestShowsFrame
  <2> SUFFICES ASSUME SubjectInv, Drawn("request")
               PROVE  ShowsFrame(subject.driver, subject.screen, subject.nomem)
    BY DEF RequestShowsFrame
  <2>1. subject \in RequestSubjects
    BY DEF SubjectInv, Drawn, Subjects
  <2> QED
    BY <2>1, SubjectsOK, RequestExact
<1> QED
  BY <1>1, SubjectInductive, PTL
-----------------------------------------------------------------------------
(* The EDID parser *)

\* The numbers have a least one in every set that is not empty.
LEMMA LeastExists ==
  ASSUME NEW S \in SUBSET Nat, S # {}
  PROVE  \E x \in S : \A y \in S : x <= y
<1> DEFINE Less == OpToRel(<, Nat)
<1>1. IsWellFoundedOn(Less, Nat)
  BY NatLessThanWellFounded
<1>2. \A x, y \in Nat : <<y, x>> \in Less <=> y < x
  BY DEF OpToRel
<1> HIDE DEF Less
<1>3. PICK x \in S : \A y \in S : ~(<<y, x>> \in Less)
  BY <1>1, WFMin
<1>4. ASSUME NEW y \in S PROVE x <= y
  <2>1. x \in Nat /\ y \in Nat /\ ~(y < x)
    BY <1>2, <1>3
  <2> QED
    BY <2>1
<1> QED
  BY <1>4

\* A set of numbers up to a bound has a greatest one.
LEMMA GreatestExists ==
  ASSUME NEW k \in Nat, NEW S \in SUBSET (0 .. k), S # {}
  PROVE  \E x \in S : \A y \in S : y <= x
<1> DEFINE above == {m \in Nat : \A y \in S : y <= m}
<1>1. k \in above
  OBVIOUS
<1>2. PICK x \in above : \A y \in above : x <= y
  BY <1>1, LeastExists
<1>3. x \in S
  <2> SUFFICES ASSUME x \notin S PROVE FALSE
    OBVIOUS
  <2>1. \A y \in S : y < x
    BY <1>2
  <2>2. PICK y \in S : y \in Nat
    <3>1. \A y \in S : y \in Nat
      OBVIOUS
    <3> QED
      BY <3>1
  <2>3. x \in Nat /\ x > 0
    BY <2>1, <2>2, <1>2
  <2>4. x - 1 \in above
    BY <2>1, <2>3
  <2> QED
    BY <1>2, <2>3, <2>4
<1> QED
  BY <1>2, <1>3
\* A text is cut before its first character that stops it.
LEMMA UptoStops ==
  ASSUME NEW text \in Texts, NEW stops
  PROVE  \E end \in 0 .. TEXT_LENGTH :
           /\ Upto(text, stops) = SubSeq(text, 1, end)
           /\ \A i \in 1 .. end : text[i] \notin stops
           /\ end < TEXT_LENGTH => text[end + 1] \in stops
<1> USE TextOK
<1> DEFINE stop == {i \in DOMAIN text : text[i] \in stops}
<1>1. DOMAIN text = 1 .. TEXT_LENGTH
  BY DEF Texts
<1>2. CASE stop = {}
  <2>1. Upto(text, stops) = SubSeq(text, 1, TEXT_LENGTH)
    BY <1>2 DEF Upto
  <2> QED
    BY <1>1, <1>2, <2>1
<1>3. CASE stop # {}
  <2> DEFINE s == CHOOSE i \in stop : \A j \in stop : i <= j
  <2>1. stop \in SUBSET Nat
    BY <1>1
  <2>2. s \in stop /\ \A j \in stop : s <= j
    <3> HIDE DEF stop
    <3>1. \E i \in stop : \A j \in stop : i <= j
      BY <1>3, <2>1, LeastExists
    <3> QED
      BY <3>1
  <2>3. Upto(text, stops) = SubSeq(text, 1, s - 1)
    BY <1>3 DEF Upto
  <2> HIDE DEF s
  <2>4. s \in 1 .. TEXT_LENGTH /\ text[s] \in stops
    BY <1>1, <2>2
  <2>5. \A i \in 1 .. s - 1 : text[i] \notin stops
    BY <1>1, <2>2, <2>4
  <2>6. s - 1 \in 0 .. TEXT_LENGTH /\ (s - 1) + 1 = s
    BY <2>4
  <2> QED
    BY <2>3, <2>4, <2>5, <2>6
<1> QED
  BY <1>2, <1>3

\* What is left of a text: a sequence of the characters before the end.
LEMMA CutIs ==
  ASSUME NEW data \in Texts
  PROVE  \E end \in 0 .. TEXT_LENGTH :
           /\ Cut(data) = SubSeq(data, 1, end)
           /\ DOMAIN Cut(data) = 1 .. end
           /\ \A i \in 1 .. end : Cut(data)[i] = data[i] /\ data[i] \in CharClass \ {"nul", "eol"}
           /\ end < TEXT_LENGTH => data[end + 1] \in {"nul", "eol"}
<1> USE TextOK
<1>1. PICK end \in 0 .. TEXT_LENGTH :
           /\ Cut(data) = SubSeq(data, 1, end)
           /\ \A i \in 1 .. end : data[i] \notin {"nul", "eol"}
           /\ end < TEXT_LENGTH => data[end + 1] \in {"nul", "eol"}
  BY UptoStops DEF Cut
<1>2. \A i \in 1 .. end : data[i] \in CharClass
  BY DEF Texts
<1>3. /\ SubSeq(data, 1, end) \in Seq(CharClass)
      /\ Len(SubSeq(data, 1, end)) = IF 1 <= end THEN end - 1 + 1 ELSE 0
      /\ \A i \in 1 .. end - 1 + 1 : SubSeq(data, 1, end)[i] = data[1 + i - 1]
  <2>1. 1 \in Int /\ end \in Int
    OBVIOUS
  <2> QED
    BY <1>2, <2>1, SubSeqProperties
<1>4. Len(SubSeq(data, 1, end)) = end /\ DOMAIN SubSeq(data, 1, end) = 1 .. end
  BY <1>3, LenProperties
<1>5. \A i \in 1 .. end : SubSeq(data, 1, end)[i] = data[i]
  BY <1>3
<1> QED
  BY <1>1, <1>2, <1>4, <1>5

\* Whatever the bytes, what is kept of a text is clean.
LEMMA ParsedIsClean ==
  ASSUME NEW data \in Texts
  PROVE  CleanText(data)
<1> USE TextOK
<1> DEFINE t == Cut(data)
<1>1. PICK end \in 0 .. TEXT_LENGTH :
           /\ t = SubSeq(data, 1, end)
           /\ DOMAIN t = 1 .. end
           /\ \A i \in 1 .. end : t[i] = data[i] /\ data[i] \in CharClass \ {"nul", "eol"}
           /\ end < TEXT_LENGTH => data[end + 1] \in {"nul", "eol"}
  BY CutIs
<1> HIDE DEF t
<1>2. ASSUME NEW k \in DOMAIN data, \A i \in 1 .. k : data[i] = "ok",
             k < TEXT_LENGTH => data[k + 1] \in {"nul", "eol"}
      PROVE  k = end
  <2>1. k \in 1 .. TEXT_LENGTH
    BY DEF Texts
  <2>2. ~(end < k)
    <3> SUFFICES ASSUME end < k PROVE FALSE
      OBVIOUS
    <3>1. end + 1 \in 1 .. k /\ end < TEXT_LENGTH
      BY <2>1
    <3> QED
      BY <1>1, <1>2, <3>1
  <2>3. ~(k < end)
    <3> SUFFICES ASSUME k < end PROVE FALSE
      OBVIOUS
    <3>1. k + 1 \in 1 .. end /\ k < TEXT_LENGTH
      BY <2>1
    <3> QED
      BY <1>1, <1>2, <3>1
  <2> QED
    BY <2>1, <2>2, <2>3
<1> DEFINE Clean(text) ==
    /\ \A i \in DOMAIN text : /\ text[i] \in {"ok", "high", "dash"}
                              /\ text[i] # "dash" => text[i] = data[i]
    /\ Cardinality({i \in DOMAIN text : text[i] = "dash"}) <= MAX_REPLACED
    /\ \A k \in DOMAIN data :
         /\ \A i \in 1 .. k : data[i] = "ok"
         /\ k < TEXT_LENGTH => data[k + 1] \in {"nul", "eol"}
         => text = SubSeq(data, 1, k)
<1>3. ASSUME NEW U, {"eol", "junk"} \subseteq U, U \subseteq {"eol", "junk", "high"},
             NEW bad, bad = {i \in DOMAIN t : t[i] \in U},
             NEW text, text = IF Cardinality(bad) > MAX_REPLACED THEN EmptyText
                              ELSE [i \in DOMAIN t |-> IF i \in bad THEN "dash" ELSE t[i]]
      PROVE  Clean(text)
  <2>1. IsFiniteSet(bad) /\ Cardinality(bad) \in Nat
    <3>1. IsFiniteSet(1 .. end) /\ bad \in SUBSET (1 .. end)
      BY <1>1, <1>3, FS_Interval
    <3> QED
      BY <3>1, FS_Subset, FS_CardinalityType
  <2>2. ASSUME NEW k \in DOMAIN data, \A i \in 1 .. k : data[i] = "ok",
               k < TEXT_LENGTH => data[k + 1] \in {"nul", "eol"}
        PROVE  k = end /\ bad = {} /\ Cardinality(bad) = 0
    <3>1. k = end
      BY <1>2, <2>2
    <3>2. \A i \in 1 .. end : t[i] = "ok"
      BY <1>1, <2>2, <3>1
    <3>3. bad = {}
      BY <1>1, <1>3, <3>2
    <3> QED
      BY <3>1, <3>3, FS_EmptySet
  <2>3. CASE Cardinality(bad) > MAX_REPLACED
    <3>1. text = << >> /\ DOMAIN text = {}
      BY <1>3, <2>3 DEF EmptyText
    <3>2. {i \in DOMAIN text : text[i] = "dash"} = {}
      BY <3>1
    <3>3. Cardinality({i \in DOMAIN text : text[i] = "dash"}) <= MAX_REPLACED
      BY <3>2, FS_EmptySet
    <3>4. \A k \in DOMAIN data :
         /\ \A i \in 1 .. k : data[i] = "ok"
         /\ k < TEXT_LENGTH => data[k + 1] \in {"nul", "eol"}
         => FALSE
      BY <2>2, <2>3
    <3> QED
      BY <3>1, <3>3, <3>4
  <2>4. CASE Cardinality(bad) <= MAX_REPLACED
    <3>1. text = [i \in 1 .. end |-> IF i \in bad THEN "dash" ELSE t[i]]
      <4>1. ~(Cardinality(bad) > MAX_REPLACED)
        BY <2>1, <2>4
      <4>2. text = [i \in DOMAIN t |-> IF i \in bad THEN "dash" ELSE t[i]]
        BY <1>3, <4>1, Zenon
      <4> QED
        BY <1>1, <4>2, Zenon
    <3>2. DOMAIN text = 1 .. end
      BY <3>1
    <3>3. \A i \in 1 .. end : \/ i \in bad /\ text[i] = "dash"
                              \/ i \notin bad /\ text[i] = data[i] /\ text[i] \in {"ok", "high"}
      <4> SUFFICES ASSUME NEW i \in 1 .. end
                   PROVE  \/ i \in bad /\ text[i] = "dash"
                          \/ i \notin bad /\ text[i] = data[i] /\ text[i] \in {"ok", "high"}
        OBVIOUS
      <4>1. text[i] = IF i \in bad THEN "dash" ELSE t[i]
        BY <3>1
      <4>2. i \in bad <=> t[i] \in U
        BY <1>1, <1>3
      <4>3. t[i] = data[i] /\ t[i] \in {"ok", "junk", "high"}
        BY <1>1 DEF CharClass
      <4>4. i \notin bad => t[i] # "junk"
        BY <1>3, <4>2
      <4> QED
        BY <4>1, <4>3, <4>4
    <3>4. {i \in DOMAIN text : text[i] = "dash"} = bad
      BY <1>1, <1>3, <3>2, <3>3
    <3>5. Cardinality({i \in DOMAIN text : text[i] = "dash"}) <= MAX_REPLACED
      BY <2>4, <3>4
    <3>6. ASSUME NEW k \in DOMAIN data, \A i \in 1 .. k : data[i] = "ok",
               k < TEXT_LENGTH => data[k + 1] \in {"nul", "eol"}
          PROVE  text = SubSeq(data, 1, k)
      <4>1. k = end /\ bad = {}
        BY <2>2, <3>6
      <4>2. t \in Seq(CharClass) /\ Len(t) = end
        <5>1. \A i \in 1 .. end : data[i] \in CharClass
          BY <1>1
        <5>2. t \in Seq(CharClass)
          BY <1>1, <5>1, SubSeqProperties
        <5> QED
          BY <1>1, <5>2, LenProperties
      <4>3. t = [i \in 1 .. end |-> t[i]]
        BY <4>2, LenProperties
      <4>4. text = t
        BY <3>1, <4>1, <4>3
      <4> QED
        BY <1>1, <4>1, <4>4
    <3> HIDE DEF t
    <3> QED
      BY <3>2, <3>3, <3>5, <3>6
  <2> QED
    BY <2>1, <2>3, <2>4
<1> HIDE DEF Clean
<1>4. \A text \in parse_string(data) : Clean(text)
  <2> SUFFICES ASSUME NEW text \in parse_string(data) PROVE Clean(text)
    OBVIOUS
  <2>1. PICK U \in {{"eol", "junk"}, {"eol", "junk", "high"}} :
          text = IF Cardinality({i \in DOMAIN t : t[i] \in U}) > MAX_REPLACED THEN EmptyText
                 ELSE [i \in DOMAIN t |-> IF i \in {k \in DOMAIN t : t[k] \in U} THEN "dash" ELSE t[i]]
    BY DEF parse_string, t
  <2> DEFINE bad == {i \in DOMAIN t : t[i] \in U}
  <2>2. text = IF Cardinality(bad) > MAX_REPLACED THEN EmptyText
               ELSE [i \in DOMAIN t |-> IF i \in bad THEN "dash" ELSE t[i]]
    BY <2>1
  <2>3. {"eol", "junk"} \subseteq U /\ U \subseteq {"eol", "junk", "high"}
    BY <2>1
  <2>4. bad = {i \in DOMAIN t : t[i] \in U}
    OBVIOUS
  <2> HIDE DEF bad
  <2> QED
    BY <1>3, <2>2, <2>3, <2>4
<1> QED
  BY <1>4 DEF CleanText, Clean

\* The two bytes of the manufacturer are three times five bits.
LEMMA PnpIsExact ==
  ASSUME NEW b0 \in 0 .. 255, NEW b1 \in 0 .. 255
  PROVE  PnpExact(b0, b1)
<1> DEFINE c == b0 % 128
           q == c \div 4
           r == b0 % 4
           s == b1 \div 32
           u == b1 % 32
<1>1. /\ c \in Int /\ 0 <= c /\ c < 128
      /\ q \in Int /\ r \in Int /\ 0 <= r /\ r < 4 /\ c = 4 * q + r
      /\ s \in Int /\ u \in Int /\ 0 <= u /\ u < 32 /\ b1 = 32 * s + u
  OBVIOUS
<1>2. pnp_id(b0, b1) = <<q, r * 8 + s, u>>
  BY DEF pnp_id
<1> HIDE DEF c, q, r, s, u
<1>3. q \in 0 .. 31 /\ s \in 0 .. 7
  BY <1>1
<1>4. r * 8 + s \in 0 .. 31
  BY <1>1, <1>3
<1>5. (q * 32 + (r * 8 + s)) * 32 + u = c * 256 + b1
  BY <1>1, <1>3
<1> QED
  BY <1>1, <1>2, <1>3, <1>4, <1>5 DEF PnpExact, c

\* A field that is set comes from the last of its blocks.
LEMMA FieldFromBlock ==
  ASSUME NEW blob \in Blobs, NEW tag, NEW before
  PROVE  Field(blob.blocks, tag, before) \subseteq TextsOf(blob.blocks, tag, before)
<1> DEFINE blocks == blob.blocks
           mine == {i \in DOMAIN blocks : ~blocks[i].timing /\ blocks[i].tag = tag}
<1>1. DOMAIN blocks = 1 .. 4
  BY DEF Blobs
<1>2. CASE mine = {}
  BY <1>2 DEF Field, FieldText, TextsOf
<1>3. CASE mine # {}
  <2> DEFINE last == CHOOSE i \in mine : \A j \in mine : j <= i
  <2>1. last \in mine
    <3>1. mine \in SUBSET (0 .. 4) /\ 4 \in Nat
      BY <1>1
    <3> HIDE DEF mine
    <3>2. \E i \in mine : \A j \in mine : j <= i
      BY <1>3, <3>1, GreatestExists
    <3> QED
      BY <3>2
  <2>2. FieldText(blocks, tag) = parse_string(blocks[last].text)
    BY <1>3 DEF FieldText
  <2> HIDE DEF last
  <2>3. parse_string(blocks[last].text) # {}
    BY DEF parse_string
  <2>4. Field(blocks, tag, before) = parse_string(blocks[last].text)
    BY <2>2, <2>3 DEF Field
  <2>5. TextsOf(blocks, tag, before) = UNION {parse_string(blocks[i].text) : i \in mine}
    BY <1>3 DEF TextsOf
  <2> HIDE DEF mine
  <2> QED
    BY <2>1, <2>4, <2>5
<1> QED
  BY <1>2, <1>3

\* Texts of any length and content leave a monitor's EDID clean, come from
\* descriptors of their kind, and the manufacturer's letters are exact.
THEOREM EdidAlwaysExact == LibSpec => []EdidExact
<1>1. SubjectInv => EdidExact
  <2> SUFFICES ASSUME SubjectInv, Drawn("edid")
               PROVE  /\ \A i \in DOMAIN subject.blocks : CleanText(subject.blocks[i].text)
                      /\ PnpExact(subject.pnp[1], subject.pnp[2])
                      /\ \A e \in ParsedEdid(subject) :
                           /\ e.monitor_name \in TextsOf(subject.blocks, "name", Unset)
                           /\ e.eisa_id \in TextsOf(subject.blocks, "text", Unset)
                           /\ e.serial_number \in TextsOf(subject.blocks, "serial",
                                                         IF subject.serial = 0 THEN Unset ELSE Number)
    BY DEF EdidExact
  <2>1. subject \in Blobs
    BY SubjectsOK DEF SubjectInv, Drawn, Subjects
  <2>2. ASSUME NEW i \in DOMAIN subject.blocks PROVE CleanText(subject.blocks[i].text)
    <3>1. subject.blocks[i].text \in Texts
      BY <2>1 DEF Blobs
    <3> QED
      BY <3>1, ParsedIsClean
  <2>3. PnpExact(subject.pnp[1], subject.pnp[2])
    <3>1. subject.pnp[1] \in 0 .. 255 /\ subject.pnp[2] \in 0 .. 255
      BY <2>1 DEF Blobs
    <3> QED
      BY <3>1, PnpIsExact
  <2>4. (IF subject.serial > 0 THEN Number ELSE Unset) = (IF subject.serial = 0 THEN Unset ELSE Number)
    <3>1. subject.serial \in Nat
      BY <2>1 DEF Blobs
    <3> QED
      BY <3>1
  <2>5. ASSUME NEW e \in ParsedEdid(subject)
        PROVE  /\ e.monitor_name \in TextsOf(subject.blocks, "name", Unset)
               /\ e.eisa_id \in TextsOf(subject.blocks, "text", Unset)
               /\ e.serial_number \in TextsOf(subject.blocks, "serial",
                                             IF subject.serial = 0 THEN Unset ELSE Number)
    <3>1. /\ e.monitor_name \in Field(subject.blocks, "name", Unset)
          /\ e.eisa_id \in Field(subject.blocks, "text", Unset)
          /\ e.serial_number \in Field(subject.blocks, "serial",
                                      IF subject.serial = 0 THEN Unset ELSE Number)
      BY <2>4, <2>5 DEF ParsedEdid
    <3> QED
      BY <2>1, <3>1, FieldFromBlock
  <2> QED
    BY <2>2, <2>3, <2>5
<1> QED
  BY <1>1, SubjectInductive, PTL
=============================================================================
