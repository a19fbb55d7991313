--------------------------- MODULE MCMem0Backend ---------------------------
(* Instances of Mem0Backend for TLC. *)
EXTENDS Mem0Backend, TLC

CONSTANTS s1, s2, s3, u1, u2

\* Two of three scopes meet in one user_id.
MCUserId == (s1 :> u1) @@ (s2 :> u2) @@ (s3 :> u1)

=============================================================================
