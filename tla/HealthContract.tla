--------------------------- MODULE HealthContract ---------------------------
(***************************************************************************)
(* What whoever evaluates a memory backend may rely on (memory/base.py, the*)
(* contract of BackendHealth), with no servers, workers or scopes.         *)
(*   - An operation counts when its call returns: at least once, and more  *)
(*     than once only in the call that makes the backend unhealthy.        *)
(*   - healthy is lost with the first error that is counted, with a        *)
(*     message, never without one, and not found again while the object    *)
(*     lives; a message, once there, stays, and no count goes back.        *)
(*   - An add of substantive text that returns nothing is loud: it counts  *)
(*     an error and leaves the backend unhealthy, or raises the soft       *)
(*     signal.                                                             *)
(* base.py:56-58 asks for the error in every case; that is this contract   *)
(* for a backend without a soft signal.  The soft signal is the exception  *)
(* the invariants in tests/test_honest_mem_invariants.py make for an       *)
(* extractor that found nothing and complained of nothing.  Two more rules *)
(* of base.py and of those tests are not here, for the backends do not     *)
(* keep them: that n_memories is never a stand-in for an unknown count,    *)
(* and that errors come with a last_error even when the object never       *)
(* started.                                                                *)
(***************************************************************************)
EXTENDS BackendHealth

CONSTANTS
    Backends,  \* backend objects
    Counts     \* what a call may add to the adds and searches

VARIABLES
    on,     \* the objects that exist
    busy,   \* those in a call
    calls,  \* calls each has begun since it was made
    health, \* its BackendHealth
    soft,   \* its soft signals: empty adds nobody complained of
    empty   \* its last call, an add of substantive text, has returned nothing

vars == <<on, busy, calls, health, soft, empty>>

\* __init__ has found the store, or says why not.
Started == {[FreshHealth EXCEPT !.healthy = ok, !.error_message = ~ok] : ok \in BOOLEAN}

Init ==
    /\ on \subseteq Backends
    /\ busy = {}
    /\ calls = [b \in Backends |-> 0]
    /\ health \in [Backends -> Started \cup {FreshHealth}]
    /\ \A b \in Backends : b \in on <=> health[b] \in Started
    /\ soft = [b \in Backends |-> 0]
    /\ empty = [b \in Backends |-> FALSE]

Open(b) ==
    /\ b \notin on
    /\ on' = on \cup {b}
    /\ \E h \in Started : health' = [health EXCEPT ![b] = h]
    /\ UNCHANGED <<busy, calls, soft, empty>>

\* The object goes with its process, in the middle of a call or not.
Close(b) ==
    /\ b \in on
    /\ on' = on \ {b}
    /\ busy' = busy \ {b}
    /\ calls' = [calls EXCEPT ![b] = 0]
    /\ health' = [health EXCEPT ![b] = FreshHealth]
    /\ soft' = [soft EXCEPT ![b] = 0]
    /\ empty' = [empty EXCEPT ![b] = FALSE]

Begin(b) ==
    /\ b \in on
    /\ b \notin busy
    /\ busy' = busy \cup {b}
    /\ calls' = [calls EXCEPT ![b] = @ + 1]
    /\ empty' = [empty EXCEPT ![b] = FALSE]
    /\ UNCHANGED <<on, health, soft>>

\* A record h may become g.
Honest(h, g) ==
    /\ g \in Health
    /\ g.healthy <=> h.healthy /\ g.n_errors = h.n_errors
    /\ h.healthy /\ ~g.healthy => g.last_error /\ g.error_message
    /\ h.last_error => g.last_error
    /\ h.error_message => g.error_message
    /\ h.n_silent_extraction_failures <= g.n_silent_extraction_failures
    /\ g.n_silent_extraction_failures - h.n_silent_extraction_failures
          <= g.n_errors - h.n_errors

\* The record of b, and no other, changes honestly and counts n operations.
Reports(b, n) ==
    /\ Honest(health[b], health'[b])
    /\ health' = [health EXCEPT ![b] = health'[b]]
    /\ health'[b].n_adds >= health[b].n_adds
    /\ health'[b].n_searches >= health[b].n_searches
    /\ health'[b].n_adds + health'[b].n_searches = health[b].n_adds + health[b].n_searches + n

LosesHealth(b) == health[b].healthy /\ ~health'[b].healthy

\* The record or the soft signal of b shows that something is wrong.
Loud(b) ==
    \/ health'[b].n_errors > health[b].n_errors /\ ~health'[b].healthy
    \/ soft'[b] > soft[b]

\* A call returns, the one in progress or one of a single step.
Return(b) ==
    /\ b \in on
    /\ busy' = busy \ {b}
    /\ calls' = IF b \in busy THEN calls ELSE [calls EXCEPT ![b] = @ + 1]
    /\ \E n \in Counts : Reports(b, n) /\ (n > 1 => LosesHealth(b))
    /\ \E n \in {0, 1} : soft' = [soft EXCEPT ![b] = @ + n]
    /\ \E e \in BOOLEAN : empty' = [empty EXCEPT ![b] = e] /\ (e => Loud(b))
    /\ UNCHANGED on

\* inspect and clear look at the store: no call, and no error.
Look(b) ==
    /\ b \in on
    /\ b \notin busy
    /\ Reports(b, 0)
    /\ health'[b].n_errors = health[b].n_errors
    /\ UNCHANGED <<on, busy, calls, soft, empty>>

Next == \E b \in Backends : Open(b) \/ Close(b) \/ Begin(b) \/ Return(b) \/ Look(b)

Spec == Init /\ [][Next]_vars

=============================================================================
