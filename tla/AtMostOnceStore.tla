-------------------------- MODULE AtMostOnceStore --------------------------
(***************************************************************************)
(* What a memory store shared by several processes promises its callers,   *)
(* with no locks, workers, timeouts or crashes: a call takes effect on the *)
(* store in one atomic step, at most once, between its start and its       *)
(* return; a call that returns ok has taken effect, one that fails may or  *)
(* may not have.  What an ok add returns its scope held when the add took  *)
(* effect, and an add never inserts a fact its scope already holds.  What a*)
(* clear removes is not promised: the backend swallows a deletion that     *)
(* stopped half-way, so a clear, ok or not, takes away any part of its     *)
(* scope, but never anything else and never at another moment.             *)
(***************************************************************************)
EXTENDS Naturals

CONSTANTS Callers, Facts, Scopes, HomeScope, Ops

VARIABLES phase, call, ids, store, result

vars == <<phase, call, ids, store, result>>

NoResult == [ok |-> TRUE, ids |-> {}]

Init ==
    /\ phase = [c \in Callers |-> "idle"]
    /\ call = [c \in Callers |-> [op |-> "none", scope |-> HomeScope[c], n |-> 0]]
    /\ ids = [c \in Callers |-> {}]
    /\ store = [s \in Scopes |-> {}]
    /\ result = [c \in Callers |-> NoResult]

Start(c) ==
    /\ phase[c] = "idle"
    /\ phase' = [phase EXCEPT ![c] = "pending"]
    /\ \E op \in Ops, s \in Scopes :
          call' = [call EXCEPT ![c] = [op |-> op, scope |-> s, n |-> @.n + 1]]
    /\ result' = [result EXCEPT ![c] = NoResult]
    /\ UNCHANGED <<ids, store>>

Fresh(c, found) ==
    {[fact |-> f, by |-> c, n |-> call[c].n] :
        f \in found \ {m.fact : m \in store[call[c].scope]}}

\* The call reports what it inserted and any memories its scope held before,
\* or, when it ran into trouble, nothing.
Insert(c) ==
    /\ call[c].op = "add"
    /\ \E found \in SUBSET Facts, held \in SUBSET store[call[c].scope] :
          /\ store' = [store EXCEPT ![call[c].scope] = @ \cup Fresh(c, found)]
          /\ ids' \in {ids, [ids EXCEPT ![c] = Fresh(c, found) \cup held]}

Wipe(c) ==
    /\ call[c].op = "clear"
    /\ \E left \in SUBSET store[HomeScope[c]] :
          store' = [store EXCEPT ![HomeScope[c]] = left]
    /\ ids' = ids

Leave(c) ==
    /\ call[c].op # "add"
    /\ UNCHANGED <<ids, store>>

Apply(c) ==
    /\ phase[c] = "pending"
    /\ phase' = [phase EXCEPT ![c] = "applied"]
    /\ Insert(c) \/ Wipe(c) \/ Leave(c)
    /\ UNCHANGED <<call, result>>

Return(c) ==
    /\ phase[c] # "idle"
    /\ phase' = [phase EXCEPT ![c] = "idle"]
    /\ \E ok \in BOOLEAN :
          /\ ok => phase[c] = "applied"
          /\ result' = [result EXCEPT ![c] = [ok |-> ok, ids |-> IF ok THEN ids[c] ELSE {}]]
    /\ ids' = [ids EXCEPT ![c] = {}]
    /\ UNCHANGED <<call, store>>

Next == \E c \in Callers : Start(c) \/ Apply(c) \/ Return(c)

Spec == Init /\ [][Next]_vars

=============================================================================
