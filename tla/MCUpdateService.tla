-------------------------- MODULE MCUpdateService --------------------------
(* An instance of UpdateService for TLC.                                   *)
EXTENDS UpdateService, TLC

CONSTANTS p1, p2, d1, d2

(* Two uploads that share an artifact; one of them lacks a platform.       *)
MCUploads == {(p1 :> d1 @@ p2 :> d2), (p1 :> d2 @@ p2 :> NoArtifact)}
=============================================================================
