-------------------------- MODULE MCDisplayAdapter ---------------------------
(***************************************************************************)
(* Instance of DisplayAdapter for TLC.                                     *)
(***************************************************************************)
EXTENDS DisplayAdapter

CONSTANTS f1

OneFd == {f1}

\* Two connectors with an encoder each, which may be off, or on the same CRTC.
\* There may be a plane and a CRTC without fences beside those that have them.
OwnEncoders ==
  {k \in KmsStates : /\ \A i \in Connectors : k.encoder_id[i] \in {None, i}
                     /\ \A p \in Planes \ {2} : k.in_fence[p]
                     /\ \A c \in Crtcs \ {1} : k.out_fence[c]
                     /\ k.in_fence[2] = k.out_fence[1]}
=============================================================================
