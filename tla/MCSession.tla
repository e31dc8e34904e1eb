------------------------------ MODULE MCSession ------------------------------
(***************************************************************************)
(* Instance of Session for TLC: one display with fences on both sides, and *)
(* as many descriptors as its two buffers can need.                        *)
(***************************************************************************)
EXTENDS Session, TLC

CONSTANTS f1, f2, f3, f4, f5

OneCrtc    == <<1>>
FencingOne == <<TRUE>>
FiveFds    == {f1, f2, f3, f4, f5}

\* Which free descriptor a new fence gets is left open, so they are alike.
FdSymmetry == Permutations(Fds)
=============================================================================
