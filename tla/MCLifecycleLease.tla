-------------------------- MODULE MCLifecycleLease --------------------------
(***************************************************************************)
(* A small instance of LifecycleLease: three calls on one key.             *)
(***************************************************************************)
EXTENDS LifecycleLease, TLC

CONSTANTS c1, c2, c3, k1

OneContendedKey == c1 :> k1 @@ c2 :> k1 @@ c3 :> k1
=============================================================================
