---------------------------- MODULE MCBufferAlloc ----------------------------
(***************************************************************************)
(* Instance of BufferAlloc for TLC.                                        *)
(***************************************************************************)
EXTENDS BufferAlloc

CONSTANTS f1, f2

DmaBufFds == {f1, f2}
=============================================================================
