---------------------------- MODULE Mem0Backend ----------------------------
(***************************************************************************)
(* Mem0Backend (memory/mem0_backend.py) used in-process, with the LLM      *)
(* provider it registers in mem0 (memory/claude_cli_llm.py), over the      *)
(* lives of several processes that open the same store one after another.  *)
(*                                                                         *)
(* An add asks the LLM: ClaudeCliLLM.generate_response runs `claude -p`,   *)
(* and once more when the answer is not JSON.  mem0 swallows whatever goes *)
(* wrong there and only logs it, so add() listens to mem0's logger to tell *)
(* "nothing to extract" from "the extraction failed".                      *)
(*                                                                         *)
(* mem0, qdrant and the claude CLI are external: each action picks among   *)
(* the answers the code is prepared for.                                   *)
(***************************************************************************)
EXTENDS Mem0Ops, FiniteSets

CONSTANTS
    Scopes,    \* scope dictionaries
    Home,      \* the scope the backend is constructed with
    UserIds,   \* mem0's user_ids
    UserId,    \* _scope_to_user_id: a hash of some keys; scopes may meet in it
    Facts,     \* what the extractor can find in a conversation
    MaxOpens,  \* bound: processes that open the backend
    MaxCalls   \* bound: calls in the life of one process

ASSUME BackendAssumption ==
    /\ Home \in Scopes
    /\ UserId \in [Scopes -> UserIds]
    /\ IsFiniteSet(Facts)
    /\ {MaxOpens, MaxCalls} \subseteq Nat

VARIABLES
    pc,       \* where the process is
    add,      \* the add in progress
    health,   \* the backend's BackendHealth
    soft,     \* extra["n_zero_extract_on_substantive"]
    store,    \* facts mem0 holds, by user_id; survives the process
    empty,    \* the last call, a substantive add, has returned [] (history)
    metered,  \* _TOTAL_CALLS, the meter of CLI runs in this process
    answered, \* CLI runs that returned an answer with its cost (history)
    calls,    \* calls made in this process (history)
    opens     \* processes so far (bound)

vars == <<pc, add, health, soft, empty, store, metered, answered, calls, opens>>

PC == {"closed", "idle", "ask", "retry", "write"}

\* found is what the LLM's answer holds; logged says whether mem0 put one of
\* the silent-failure signals on its logger.
Add == [scope: Scopes, substantive: BOOLEAN, found: SUBSET Facts, logged: BOOLEAN]

NoAdd == [scope |-> Home, substantive |-> FALSE, found |-> {}, logged |-> FALSE]

TypeOK ==
    /\ pc \in PC
    /\ add \in Add
    /\ health \in Health
    /\ soft \in Nat
    /\ empty \in BOOLEAN
    /\ store \in [UserIds -> SUBSET Facts]
    /\ metered \in Nat
    /\ answered \in Nat
    /\ calls \in Nat
    /\ opens \in 0..MaxOpens

Init ==
    /\ pc = "closed"
    /\ add = NoAdd
    /\ health = FreshHealth
    /\ soft = 0
    /\ empty = FALSE
    /\ store = [u \in UserIds |-> {}]
    /\ metered = 0
    /\ answered = 0
    /\ calls = 0
    /\ opens = 0

-----------------------------------------------------------------------------
(* The life of the process.                                                *)

Open ==
    /\ pc = "closed"
    /\ opens < MaxOpens
    /\ opens' = opens + 1
    /\ pc' = "idle"
    /\ \E opened \in BOOLEAN : health' = Mem0Init(opened)
    /\ UNCHANGED <<add, soft, empty, store, metered, answered, calls>>

\* The process ends, in the middle of a call or not.  Only the store survives.
Exit ==
    /\ pc # "closed"
    /\ pc' = "closed"
    /\ add' = NoAdd
    /\ health' = FreshHealth
    /\ soft' = 0
    /\ empty' = FALSE
    /\ metered' = 0
    /\ answered' = 0
    /\ calls' = 0
    /\ UNCHANGED <<store, opens>>

\* A call that begins and ends in this step.
Calls == pc = "idle" /\ calls < MaxCalls /\ calls' = calls + 1

-----------------------------------------------------------------------------
(* add                                                                     *)

AddRefused ==
    /\ Calls
    /\ ~health.healthy
    /\ health' = AddUnavailable(health)
    /\ empty' \in BOOLEAN
    /\ UNCHANGED <<pc, add, soft, store, metered, answered, opens>>

\* Mutant: the early return forgets to record the operation.
AddEmptyUnrecorded ==
    /\ Calls
    /\ health.healthy
    /\ empty' = FALSE
    /\ UNCHANGED <<pc, add, health, soft, store, metered, answered, opens>>

\* No turn has any text.
AddEmpty ==
    /\ Calls
    /\ health.healthy
    /\ health' = AddNoMessages(health)
    /\ empty' = FALSE
    /\ UNCHANGED <<pc, add, soft, store, metered, answered, opens>>

\* The messages go to mem0, which formats the extraction prompt.
AddBegins ==
    /\ Calls
    /\ health.healthy
    /\ pc' = "ask"
    /\ \E s \in Scopes, sub \in BOOLEAN :
          add' = [NoAdd EXCEPT !.scope = s, !.substantive = sub]
    /\ empty' = FALSE
    /\ UNCHANGED <<health, soft, store, metered, answered, opens>>

(***************************************************************************)
(* ClaudeCliLLM.generate_response.                                         *)
(***************************************************************************)

\* _run_claude_cli raises: no binary, a timeout, a non-zero exit, or output
\* that is not the CLI's JSON envelope.  The meter has not moved, not
\* even for a first answer that made it ask again, and mem0 logs "LLM
\* extraction failed".
CliRaises ==
    /\ pc \in {"ask", "retry"}
    /\ pc' = "write"
    /\ add' = [add EXCEPT !.logged = TRUE]
    /\ UNCHANGED <<health, soft, empty, store, metered, answered, calls, opens>>

\* The CLI answered with JSON (fences and prose around it are stripped).
\* Every run of this generate_response is metered.  mem0 logs an answer whose
\* shape it does not expect, and finds nothing in it.
CliAnswers ==
    /\ pc \in {"ask", "retry"}
    /\ pc' = "write"
    /\ answered' = answered + 1
    /\ metered' = metered + (IF pc = "retry" THEN 2 ELSE 1)
    /\ \/ \E found \in SUBSET Facts :
             add' = [add EXCEPT !.found = found]
       \/ add' = [add EXCEPT !.logged = TRUE]
    /\ UNCHANGED <<health, soft, empty, store, calls, opens>>

\* The first answer is not JSON: ask again, before anything is metered.
CliBabbles ==
    /\ pc = "ask"
    /\ pc' = "retry"
    /\ answered' = answered + 1
    /\ UNCHANGED <<add, health, soft, empty, store, metered, calls, opens>>

\* Mutant: the retry is retried.
CliBabblesOn ==
    /\ pc = "retry"
    /\ answered < 2 * MaxCalls + 1
    /\ answered' = answered + 1
    /\ UNCHANGED <<pc, add, health, soft, empty, store, metered, calls, opens>>

\* So is the second: generate_response answers '{"memory": []}' in its place
\* and logs that on its own logger, where add() does not listen.
CliBabblesAgain ==
    /\ pc = "retry"
    /\ pc' = "write"
    /\ answered' = answered + 1
    /\ metered' = metered + 2
    /\ UNCHANGED <<add, health, soft, empty, store, calls, opens>>

(***************************************************************************)
(* mem0 writes, and add() judges what it gets back.                        *)
(***************************************************************************)

Uid == UserId[add.scope]

New == add.found \ store[Uid]

\* The ids mem0 may return, named by their facts: of every new memory, and of
\* any older one it has updated or kept (events ADD, UPDATE, NONE).
Answers == {New \cup named : named \in SUBSET (IF add.found = {} THEN {} ELSE store[Uid])}

Write(facts) == store' = [store EXCEPT ![Uid] = @ \cup facts]

Returns(ids) ==
    /\ pc' = "idle"
    /\ add' = NoAdd
    /\ empty' = (ids = {} /\ add.substantive)
    /\ UNCHANGED <<metered, answered, calls, opens>>

SilentFailure(ids) == ids = {} /\ add.substantive /\ add.logged

\* Mutant: the soft signal is only counted when something was found.
SignalQuietly(ids) == IF ids = {} /\ add.substantive /\ add.found # {} THEN soft + 1 ELSE soft

\* No id on substantive input, and nobody complained: a soft signal.
Signal(ids) == IF ids = {} /\ add.substantive THEN soft + 1 ELSE soft

AddReports ==
    /\ pc = "write"
    /\ Write(New)
    /\ \E ids \in Answers, known \in BOOLEAN :
          /\ ~SilentFailure(ids)
          /\ health' = AddSucceeds(health, Cardinality(store'[Uid]), known)
          /\ soft' = Signal(ids)
          /\ Returns(ids)

\* The judgement is about the ids: New is empty here.
AddFlagsSilentFailure ==
    /\ pc = "write"
    /\ {} \in Answers
    /\ SilentFailure({})
    /\ health' = AddSilentlyFails(health)
    /\ UNCHANGED <<soft, store>>
    /\ Returns({})

\* mem0 raises, and has stored some of the facts or none.
AddDies ==
    /\ pc = "write"
    /\ \E written \in SUBSET New : Write(written)
    /\ health' = AddRaises(health)
    /\ UNCHANGED soft
    /\ Returns({})

\* mem0 has stored them all and add cannot read its answer, or the count that
\* follows: then the soft signal has been raised already.
AddStumbles ==
    /\ pc = "write"
    /\ Write(New)
    /\ health' = AddMalformed(health)
    /\ \/ UNCHANGED soft
       \/ \E ids \in Answers : ~SilentFailure(ids) /\ soft' = Signal(ids)
    /\ Returns({})

-----------------------------------------------------------------------------
(* search, inspect, clear                                                  *)

Search ==
    /\ Calls
    /\ health' \in IF health.healthy
                   THEN {SearchSucceeds(health), SearchRaises(health),
                         SearchMalformed(health)}
                   ELSE {SearchUnavailable(health)}
    /\ empty' = FALSE
    /\ UNCHANGED <<pc, add, soft, store, metered, answered, opens>>

\* inspect recounts the home scope; it is not an operation that is counted.
Inspect ==
    /\ pc = "idle"
    /\ \E known \in BOOLEAN :
          health' = Inspected(health, Cardinality(store[UserId[Home]]), known)
    /\ UNCHANGED <<pc, add, soft, empty, store, metered, answered, calls, opens>>

\* delete_all empties the home scope, and whatever scope shares its user_id, or
\* fails and leaves what it leaves; an unhealthy backend does nothing.
Clear ==
    /\ pc = "idle"
    /\ health.healthy
    /\ \E left \in SUBSET store[UserId[Home]], deleted \in BOOLEAN :
          /\ deleted => left = {}
          /\ store' = [store EXCEPT ![UserId[Home]] = left]
          /\ health' = Cleared(health, deleted)
    /\ UNCHANGED <<pc, add, soft, empty, metered, answered, calls, opens>>

Next ==
    \/ Open \/ Exit
    \/ AddRefused \/ AddEmpty \/ AddBegins
    \/ CliRaises \/ CliAnswers \/ CliBabbles \/ CliBabblesAgain
    \/ AddReports \/ AddFlagsSilentFailure \/ AddDies \/ AddStumbles
    \/ Search \/ Inspect \/ Clear

Spec == Init /\ [][Next]_vars

-----------------------------------------------------------------------------
(* Properties.                                                             *)

(***************************************************************************)
(* A healthy backend has had no error, an unhealthy one says why, and a    *)
(* silent extraction failure is never counted without making the backend   *)
(* unhealthy (memory/base.py, the contract of BackendHealth).              *)
(***************************************************************************)
HealthIsHonest ==
    pc # "closed" =>
        /\ health.healthy => health.n_errors = 0
        /\ ~health.healthy => health.error_message
        /\ health.n_silent_extraction_failures > 0 => ~health.healthy

(***************************************************************************)
(* Every add and search is counted, by whichever of their many returns     *)
(* they leave, and none twice but the one that made the backend unhealthy. *)
(***************************************************************************)
InProgress == IF pc \in {"ask", "retry", "write"} THEN 1 ELSE 0

EveryCallCounted ==
    LET counted == health.n_adds + health.n_searches + InProgress
    IN  calls <= counted /\ counted <= (IF health.healthy THEN calls ELSE calls + 1)

(***************************************************************************)
(* An add pays for at most two answers of the CLI, whatever they are, and  *)
(* the meter never claims an answer that was not given.                    *)
(***************************************************************************)
SpendBounded == metered <= answered /\ answered <= 2 * calls

(***************************************************************************)
(* The point of listening to mem0's logger: an add of substantive input    *)
(* that returns nothing leaves a trace.  When mem0 complained, it is an    *)
(* error and the backend is no longer healthy; otherwise at least the soft *)
(* signal.                                                                 *)
(***************************************************************************)
EmptyHandedLeavesTrace ==
    [][pc = "write" /\ pc' = "idle" /\ empty'
          => \/ health'.n_errors > health.n_errors /\ ~health'.healthy
             \/ ~add.logged /\ soft' > soft]_vars

(***************************************************************************)
(* The backend honors the contract of HealthContract.  A call that mem0    *)
(* answers in a shape the backend cannot read is counted twice.            *)
(***************************************************************************)
Contract == INSTANCE HealthContract WITH
               Backends <- {"mem0"},
               Counts   <- {1, 2},
               on       <- {b \in {"mem0"} : pc # "closed"},
               busy     <- {b \in {"mem0"} : pc \in {"ask", "retry", "write"}},
               calls    <- [b \in {"mem0"} |-> calls],
               health   <- [b \in {"mem0"} |-> health],
               soft     <- [b \in {"mem0"} |-> soft],
               empty    <- [b \in {"mem0"} |-> empty]

HonorsContract == Contract!Spec

=============================================================================
