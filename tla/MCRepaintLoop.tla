---------------------------- MODULE MCRepaintLoop ----------------------------
(***************************************************************************)
(* Instances of RepaintLoop for TLC: values for the constants that a .cfg  *)
(* cannot write.                                                           *)
(***************************************************************************)
EXTENDS RepaintLoop, TLC

CONSTANTS f1, f2, f3, f4, f5, f6  \* file descriptors

OneCrtc   == <<1>>
OwnCrtcs  == <<1, 2>>
ThreeCrtcs == <<1, 2, 3>>
OneShared == <<1, 1>>

FencingOne  == <<TRUE>>
FencingBoth == <<TRUE, TRUE>>

FencingMixed == <<TRUE, FALSE, TRUE>>

TwoFds == {f1, f2}
FiveFds == {f1, f2, f3, f4, f5}
SixFds == {f1, f2, f3, f4, f5, f6}

\* Which free descriptor a new fence gets is left open, so they are alike.
FdSymmetry == Permutations(Fds)
=============================================================================
