-------------------------- MODULE MCRemoteBackends --------------------------
(* Instances of RemoteBackends for TLC. *)
EXTENDS RemoteBackends, TLC

CONSTANTS s1, s2

MCHome == [c \in Clients |-> s1]

\* Creations go astray in one of the scopes.
MCMaxStrays == (s1 :> 1) @@ (s2 :> 0)

Symmetry == Permutations(Clients)

=============================================================================
