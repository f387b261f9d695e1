-------------------------- MODULE MCReleaseStore --------------------------
(* Instances of ReleaseStore for TLC.                                      *)
EXTENDS ReleaseStore, TLC

CONSTANTS h1, h2, p1, p2, d1, d2

(* Two uploads that share an artifact; one of them lacks a platform.       *)
MCUploads == {(p1 :> d1 @@ p2 :> d2), (p1 :> d2 @@ p2 :> NoArtifact)}

HandlerSymmetry == Permutations(Handlers)
=============================================================================
