--------------------------- MODULE FileDescriptor ----------------------------
(***************************************************************************)
(* nix::FileDescriptor, a class that owns an open file: what the           *)
(* constructors, the assignments and the destructor do to the descriptor   *)
(* table of the process. The path and the flags are only carried along;    *)
(* flags is not passed to open().                                          *)
(***************************************************************************)
EXTENDS FiniteSets

CONSTANTS
  Objects,   \* the FileDescriptor objects the program may have
  FdTable,   \* the file descriptors the process may have open
  NotOpen,   \* -1
  NoObject   \* what an object that is not constructed holds

ASSUME TableOK == NotOpen \notin FdTable /\ NoObject \notin FdTable \union {NotOpen}

VARIABLES
  fd,      \* fd[o]: FileDescriptor::fd
  table,   \* the descriptors that are open
  lost     \* the descriptors that no object will ever close

fdVars == <<fd, table, lost>>

Alive(o) == fd[o] # NoObject

FdInit == fd = [o \in Objects |-> NoObject] /\ table = {} /\ lost = {}

\* open() or dup() gives out a free descriptor, and o holds it.
Obtain(o, others) ==
  \E f \in FdTable \ others : fd' = [fd EXCEPT ![o] = f] /\ table' = others \union {f}

Construct(o) ==
  /\ ~Alive(o)
  /\ Obtain(o, table)
  /\ UNCHANGED lost

\* Mutant: the copy has the same descriptor.
CopyConstruct_shallow(o, other) ==
  /\ ~Alive(o) /\ Alive(other)
  /\ fd' = [fd EXCEPT ![o] = fd[other]]
  /\ UNCHANGED <<table, lost>>

\* dup() fails for an object that was moved from, and the exception leaves no
\* object.
CopyConstruct(o, other) ==
  /\ ~Alive(o) /\ Alive(other) /\ fd[other] # NotOpen
  /\ Obtain(o, table)
  /\ UNCHANGED lost

MoveConstruct(o, other) ==
  /\ ~Alive(o) /\ Alive(other)
  /\ fd' = [fd EXCEPT ![o] = fd[other], ![other] = NotOpen]
  /\ UNCHANGED <<table, lost>>

\* close(fd), then fd = dup(other.fd), whose result is not looked at.
CopyAssign(o, other) ==
  /\ Alive(o) /\ Alive(other) /\ o # other
  /\ LET others == table \ {fd[o]} IN
       \/ fd[other] # NotOpen /\ Obtain(o, others)
       \/ /\ fd[other] = NotOpen \/ FdTable \subseteq others
          /\ fd' = [fd EXCEPT ![o] = NotOpen] /\ table' = others
  /\ UNCHANGED lost

\* The same, and other.fd = -1: nobody closes the original.
MoveAssign(o, other) ==
  /\ Alive(o) /\ Alive(other) /\ o # other
  /\ LET others == table \ {fd[o]} IN
       \/ /\ fd[other] # NotOpen
          /\ \E f \in FdTable \ others :
               fd' = [fd EXCEPT ![o] = f, ![other] = NotOpen] /\ table' = others \union {f}
       \/ /\ fd[other] = NotOpen \/ FdTable \subseteq others
          /\ fd' = [fd EXCEPT ![o] = NotOpen, ![other] = NotOpen] /\ table' = others
  /\ lost' = lost \union ({fd[other]} \ {NotOpen})

Destroy(o) ==
  /\ Alive(o)
  /\ fd' = [fd EXCEPT ![o] = NoObject]
  /\ table' = table \ {fd[o]}
  /\ UNCHANGED lost

FdNext ==
  \E o \in Objects :
    \/ Construct(o) \/ Destroy(o)
    \/ \E other \in Objects :
         \/ CopyConstruct(o, other) \/ MoveConstruct(o, other)
         \/ CopyAssign(o, other) \/ MoveAssign(o, other)
-----------------------------------------------------------------------------
FdTypeOK ==
  /\ fd \in [Objects -> FdTable \union {NotOpen, NoObject}]
  /\ table \subseteq FdTable /\ lost \subseteq FdTable

Held(o) == fd[o] \in FdTable

\* However objects are copied, moved, assigned and destroyed, each descriptor
\* is closed once and only by its owner: what an object holds is open, no two
\* objects hold the same, and what nobody holds any more was lost by a move
\* assignment, which duplicates what it should take over
\* (FileDescriptor.cpp:50-66: "Transfer ownership").
DescriptorsOwned ==
  /\ \A o \in Objects : Held(o) => fd[o] \in table \ lost
  /\ \A o, p \in Objects : Held(o) /\ fd[o] = fd[p] => o = p
  /\ \A f \in table : f \in lost \/ \E o \in Objects : fd[o] = f
=============================================================================
