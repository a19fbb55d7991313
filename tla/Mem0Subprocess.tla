--------------------------- MODULE Mem0Subprocess ---------------------------
(***************************************************************************)
(* Mem0SubprocessBackend (memory/mem0_subprocess.py) and the worker it     *)
(* spawns for every call (memory/_mem0_subprocess_worker.py).              *)
(*                                                                         *)
(* Each caller is a process with its own wrapper object.  A call blocks in *)
(* subprocess.run until the worker has exited or the wrapper's timeout     *)
(* kills it, so a caller has at most one worker.  The worker takes a       *)
(* global flock by polling, opens the qdrant folder (which qdrant itself   *)
(* locks), runs one operation of a fresh Mem0Backend, prints a JSON reply  *)
(* and exits.  The operating system drops both locks when it dies.         *)
(*                                                                         *)
(* Outsiders are processes that open a Mem0Backend directly (the injection *)
(* retriever, the smoke scripts): they take the folder, not the flock.     *)
(*                                                                         *)
(* Time is counted in ticks no shorter than the 0.1 s of the polling loop. *)
(***************************************************************************)
EXTENDS Mem0Ops, FiniteSets

CONSTANTS
    Callers,     \* processes that hold a Mem0SubprocessBackend
    Outsiders,   \* processes that use Mem0Backend in-process
    None,        \* nobody holds the lock
    Facts,       \* what the extractor can find in a conversation
    Scopes,      \* scopes, told apart by the mem0 user_id they hash to
    HomeScope,   \* the scope each wrapper was constructed with
    Ops,         \* the methods the callers use
    MaxCalls,    \* bound: calls a caller makes
    LockTimeout, \* _GLOBAL_LOCK_TIMEOUT_S
    CallTimeout, \* DEFAULT_TIMEOUT_S of the wrapper
    MaxImport,   \* start-up of a worker that does not overstay
    MaxHold      \* time such a worker keeps the flock

ASSUME ProcessAssumption ==
    /\ None \notin Callers
    /\ None \notin Outsiders
    /\ Callers \cap Outsiders = {}

ASSUME ParameterAssumption ==
    /\ IsFiniteSet(Facts)
    /\ Ops \subseteq {"add", "search", "inspect", "clear"}
    /\ HomeScope \in [Callers -> Scopes]
    /\ {MaxCalls, LockTimeout, CallTimeout, MaxImport, MaxHold} \subseteq Nat

VARIABLES
    pc,      \* where each caller's call is
    call,    \* the call's operation, target scope and serial number
    worker,  \* the worker's Mem0Backend and its answer
    age,     \* ticks since subprocess.run
    since,   \* age at which the worker began to poll, or got the flock
    lock,    \* owner of ~/.mem0/.phd_mem0_subprocess_lock
    folder,  \* owner of the qdrant folder
    store,   \* memories durably stored, by scope
    health,  \* the wrapper's BackendHealth
    result,  \* what the caller's last call returned, until its next
    overstayed  \* a start-up or a hold has lasted longer than it should (history)

vars == <<pc, call, worker, age, since, lock, folder, store, health, result,
          overstayed>>

PC == {"idle", "import", "poll", "init", "op", "commit", "reply", "exited"}

\* The flock is held from the moment it is acquired until the process dies.
Critical == {"init", "op", "commit", "reply"}

\* The qdrant folder is open once Mem0Backend.__init__ has succeeded.
Opened == {"op", "commit", "reply"}

MemoryId == [fact: Facts, by: Callers, n: Nat]
Call     == [op: Ops \cup {"none"}, scope: Scopes, n: Nat]
Worker   == [h: Health, ids: SUBSET MemoryId, done: BOOLEAN,
             reply: {"none", "rc1", "garbled", "unhealthy", "ok"}]
Result   == [ok: BOOLEAN, ids: SUBSET MemoryId]

NoResult == [ok |-> TRUE, ids |-> {}]
NoWorker == [h |-> FreshHealth, ids |-> {}, done |-> FALSE, reply |-> "none"]

\* The records the call's worker inserts for a set of facts.
Records(c, found) ==
    {[fact |-> f, by |-> c, n |-> call[c].n] : f \in found}

FactsIn(s) == {m.fact : m \in store[s]}

TypeOK ==
    /\ pc \in [Callers -> PC]
    /\ call \in [Callers -> Call]
    /\ worker \in [Callers -> Worker]
    /\ age \in [Callers -> Nat]
    /\ since \in [Callers -> Nat]
    /\ lock \in Callers \cup {None}
    /\ folder \in Callers \cup Outsiders \cup {None}
    /\ store \in [Scopes -> SUBSET MemoryId]
    /\ health \in [Callers -> Health]
    /\ result \in [Callers -> Result]
    /\ overstayed \in BOOLEAN

Init ==
    /\ pc = [c \in Callers |-> "idle"]
    /\ call = [c \in Callers |-> [op |-> "none", scope |-> HomeScope[c], n |-> 0]]
    /\ worker = [c \in Callers |-> NoWorker]
    /\ age = [c \in Callers |-> 0]
    /\ since = [c \in Callers |-> 0]
    /\ lock = None
    /\ folder = None
    /\ store = [s \in Scopes |-> {}]
    /\ health = [c \in Callers |-> [FreshHealth EXCEPT !.healthy = TRUE]]
    /\ result = [c \in Callers |-> NoResult]
    /\ overstayed = FALSE

-----------------------------------------------------------------------------
(* The worker.                                                             *)

Goto(c, label) == pc' = [pc EXCEPT ![c] = label]

\* Mutant: a child of the worker inherits the lock file and survives it.
KeepFlock(c) == lock' = lock /\ folder' = IF folder = c THEN None ELSE folder

\* Mutant: qdrant leaves a lock file of its own behind.
KeepFolder(c) == lock' = (IF lock = c THEN None ELSE lock) /\ folder' = folder

\* The process dies: its file locks go with it.
ReleaseLocks(c) ==
    /\ lock' = IF lock = c THEN None ELSE lock
    /\ folder' = IF folder = c THEN None ELSE folder

Exit(c, reply) ==
    /\ Goto(c, "exited")
    /\ worker' = [worker EXCEPT ![c].reply = reply]
    /\ ReleaseLocks(c)
    /\ UNCHANGED <<call, age, since, store, health, result, overstayed>>

\* subprocess.run starts the worker; add and search may override the scope.
Spawn(c, op, s) ==
    /\ pc[c] = "idle"
    /\ call[c].n < MaxCalls
    /\ op \in {"inspect", "clear"} => s = HomeScope[c]
    /\ Goto(c, "import")
    /\ call' = [call EXCEPT ![c] = [op |-> op, scope |-> s, n |-> @.n + 1]]
    /\ worker' = [worker EXCEPT ![c] = NoWorker]
    /\ age' = [age EXCEPT ![c] = 0]
    /\ since' = [since EXCEPT ![c] = 0]
    /\ result' = [result EXCEPT ![c] = NoResult]
    /\ UNCHANGED <<lock, folder, store, health, overstayed>>

ImportSucceeds(c) ==
    /\ pc[c] = "import"
    /\ Goto(c, "poll")
    /\ since' = [since EXCEPT ![c] = age[c]]
    /\ UNCHANGED <<call, worker, age, lock, folder, store, health, result, overstayed>>

\* Bad stdin, or mem0 cannot be imported: return code 1.
ImportFails(c) == pc[c] = "import" /\ Exit(c, "rc1")

\* Mutant: the flock call is not checked.
AcquireUnchecked(c) ==
    /\ pc[c] = "poll"
    /\ lock' = c
    /\ Goto(c, "init")
    /\ since' = [since EXCEPT ![c] = age[c]]
    /\ UNCHANGED <<call, worker, age, folder, store, health, result, overstayed>>

Acquire(c) ==
    /\ pc[c] = "poll"
    /\ lock = None
    /\ lock' = c
    /\ Goto(c, "init")
    /\ since' = [since EXCEPT ![c] = age[c]]
    /\ UNCHANGED <<call, worker, age, folder, store, health, result, overstayed>>

\* Mutant: the deadline is computed one polling interval short.
GiveUpEarly(c) ==
    /\ pc[c] = "poll"
    /\ lock # None
    /\ age[c] - since[c] + 1 >= LockTimeout
    /\ Exit(c, "rc1")

\* The flock is busy and the deadline has passed: TimeoutError, return code 1.
GiveUp(c) ==
    /\ pc[c] = "poll"
    /\ lock # None
    /\ age[c] - since[c] >= LockTimeout
    /\ Exit(c, "rc1")

InitSucceeds(c) ==
    /\ pc[c] = "init"
    /\ folder = None
    /\ folder' = c
    /\ Goto(c, "op")
    /\ worker' = [worker EXCEPT ![c].h = Mem0Init(TRUE)]
    /\ UNCHANGED <<call, age, since, lock, store, health, result, overstayed>>

\* The folder is taken: the backend is unhealthy, which is still rc 0.
InitConflicts(c) ==
    /\ pc[c] = "init"
    /\ folder # None
    /\ Exit(c, "unhealthy")

\* Any other failure: of from_config (unhealthy) or before it (return code 1).
InitFails(c) ==
    /\ pc[c] = "init"
    /\ \E reply \in {"unhealthy", "rc1"} : Exit(c, reply)

\* The turns do not validate, or the method raises before it does anything.
OpRaises(c) == pc[c] = "op" /\ Exit(c, "rc1")

WorkerDid(c, h, ids, done) ==
    worker' = [worker EXCEPT ![c] = [@ EXCEPT !.h = h, !.ids = ids, !.done = done]]

Size(s) == Cardinality(store[s])

\* Mutant: the scope override is forgotten when mem0 looks for duplicates.
AddExtractsFromHome(c) ==
    /\ pc[c] = "op"
    /\ call[c].op = "add"
    /\ \E found \in SUBSET Facts :
          WorkerDid(c, worker[c].h, Records(c, found \ FactsIn(HomeScope[c])), FALSE)
    /\ Goto(c, "commit")
    /\ UNCHANGED <<call, age, since, lock, folder, store, health, result, overstayed>>

\* Mem0Backend.add up to the point where mem0 writes: mem0 reads the store,
\* drops what it holds already and chooses the records to insert.
AddExtracts(c) ==
    /\ pc[c] = "op"
    /\ call[c].op = "add"
    /\ \E found \in SUBSET Facts :
          WorkerDid(c, worker[c].h, Records(c, found \ FactsIn(call[c].scope)), FALSE)
    /\ Goto(c, "commit")
    /\ UNCHANGED <<call, age, since, lock, folder, store, health, result, overstayed>>

\* The ways add returns without writing anything.
AddWritesNothing(c) ==
    /\ pc[c] = "op"
    /\ call[c].op = "add"
    /\ \E h \in {AddNoMessages(worker[c].h), AddRaises(worker[c].h),
                 AddSilentlyFails(worker[c].h)} :
          WorkerDid(c, h, {}, TRUE)
    /\ Goto(c, "reply")
    /\ UNCHANGED <<call, age, since, lock, folder, store, health, result, overstayed>>

\* mem0 inserts the records and add reports their ids, with those of whatever
\* older memories mem0's events name; or mem0 raises, or answers in a shape add
\* cannot read, after it stored some of them, and add reports none.
AddCommits(c) ==
    /\ pc[c] = "commit"
    /\ \E written \in SUBSET worker[c].ids :
          /\ store' = [store EXCEPT ![call[c].scope] = @ \cup written]
          /\ \/ /\ written = worker[c].ids
                /\ \E named \in SUBSET store[call[c].scope], known \in BOOLEAN :
                      WorkerDid(c, AddSucceeds(worker[c].h,
                                               Cardinality(store'[call[c].scope]), known),
                                written \cup named, TRUE)
             \/ \E h \in {AddRaises(worker[c].h), AddMalformed(worker[c].h)} :
                   WorkerDid(c, h, {}, TRUE)
    /\ Goto(c, "reply")
    /\ UNCHANGED <<call, age, since, lock, folder, health, result, overstayed>>

RunSearch(c) ==
    /\ pc[c] = "op"
    /\ call[c].op = "search"
    /\ \E h \in {SearchSucceeds(worker[c].h), SearchRaises(worker[c].h),
                 SearchMalformed(worker[c].h)} :
          WorkerDid(c, h, {}, TRUE)
    /\ Goto(c, "reply")
    /\ UNCHANGED <<call, age, since, lock, folder, store, health, result, overstayed>>

RunInspect(c) ==
    /\ pc[c] = "op"
    /\ call[c].op = "inspect"
    /\ WorkerDid(c, worker[c].h, {}, TRUE)
    /\ Goto(c, "reply")
    /\ UNCHANGED <<call, age, since, lock, folder, store, health, result, overstayed>>

\* delete_all on the wrapper's own scope takes one memory after another.  When
\* it fails, or the wrapper kills the worker in the middle (this step and
\* Kill), some are gone and some are left.  The failure is swallowed.
RunClear(c) ==
    /\ pc[c] = "op"
    /\ call[c].op = "clear"
    /\ \E left \in SUBSET store[HomeScope[c]], deleted \in BOOLEAN :
          /\ deleted => left = {}
          /\ store' = [store EXCEPT ![HomeScope[c]] = left]
          /\ WorkerDid(c, Cleared(worker[c].h, deleted), {}, TRUE)
    /\ Goto(c, "reply")
    /\ UNCHANGED <<call, age, since, lock, folder, health, result, overstayed>>

\* All operations but clear end with inspect(), which recounts the home scope.
\* The reply is printed and the process exits.  Stray output of a library on
\* stdout makes it unreadable, and what json cannot encode makes it an error.
PrintReply(c) ==
    /\ pc[c] = "reply"
    /\ Goto(c, "exited")
    /\ ReleaseLocks(c)
    /\ \E known \in BOOLEAN, reply \in {"ok", "garbled", "rc1"} :
          worker' = [worker EXCEPT
                        ![c].reply = reply,
                        ![c].h = IF call[c].op = "clear" THEN @
                                 ELSE Inspected(@, Size(HomeScope[c]), known)]
    /\ UNCHANGED <<call, age, since, store, health, result, overstayed>>

-----------------------------------------------------------------------------
(* The wrapper.                                                            *)

\* What add, search, inspect and clear do with the answer of _call_worker.
AfterCall(h, op, w, ok) ==
    CASE op = "add" /\ ok ->
            [h EXCEPT !.n_memories = w.h.n_memories,
                      !.error_message = @ \/ w.h.error_message,
                      !.n_adds = @ + 1]
      [] op = "search" ->
            [h EXCEPT !.n_searches = @ + 1,
                      !.n_memories = IF ok THEN w.h.n_memories ELSE @]
      [] op = "inspect" /\ ok -> [h EXCEPT !.n_memories = w.h.n_memories]
      [] op = "clear" -> [h EXCEPT !.n_memories = 0]
      [] OTHER -> h

Return(c, h, ok) ==
    /\ Goto(c, "idle")
    /\ health' = [health EXCEPT ![c] = AfterCall(h, call[c].op, worker[c], ok)]
    /\ result' = [result EXCEPT
                    ![c] = [ok |-> ok, ids |-> IF ok THEN worker[c].ids ELSE {}]]
    /\ worker' = [worker EXCEPT ![c] = NoWorker]
    /\ age' = [age EXCEPT ![c] = 0]
    /\ since' = [since EXCEPT ![c] = 0]
    /\ UNCHANGED <<call, store, overstayed>>

\* A non-zero return code and an unreadable reply are recorded; a structured
\* ok:False reply is handed on without being recorded.
Recorded(c) == worker[c].reply \in {"rc1", "garbled"}

\* Mutant: return code 0 is taken for success.
CollectTrusting(c) ==
    /\ pc[c] = "exited"
    /\ Return(c, IF Recorded(c) THEN RecordError(health[c], FALSE) ELSE health[c],
              worker[c].reply # "rc1")
    /\ UNCHANGED <<lock, folder, overstayed>>

Collect(c) ==
    /\ pc[c] = "exited"
    /\ Return(c, IF Recorded(c) THEN RecordError(health[c], FALSE) ELSE health[c],
              worker[c].reply = "ok")
    /\ UNCHANGED <<lock, folder, overstayed>>

\* Mutant: the timeout is not enforced on a worker that has the lock.
KillOutsideCritical(c) ==
    /\ pc[c] \notin Critical \cup {"idle"}
    /\ age[c] >= CallTimeout
    /\ Return(c, RecordError(health[c], FALSE), FALSE)
    /\ ReleaseLocks(c)

\* TimeoutExpired: subprocess.run kills the worker, wherever it is.
Kill(c) ==
    /\ pc[c] # "idle"
    /\ age[c] >= CallTimeout
    /\ Return(c, RecordError(health[c], FALSE), FALSE)
    /\ ReleaseLocks(c)

-----------------------------------------------------------------------------
(* The environment: outsiders and time.                                    *)

OutsiderOpens(d) ==
    /\ folder = None
    /\ folder' = d
    /\ UNCHANGED <<pc, call, worker, age, since, lock, store, health, result, overstayed>>

OutsiderCloses(d) ==
    /\ folder = d
    /\ folder' = None
    /\ UNCHANGED <<pc, call, worker, age, since, lock, store, health, result, overstayed>>

\* A worker that takes longer than it should to start up, or keeps the flock
\* longer: the claude CLI may take any time, and hang.
Overstays(c) ==
    \/ pc[c] = "import" /\ age[c] >= MaxImport
    \/ pc[c] \in Critical /\ age[c] - since[c] >= MaxHold

\* Timeouts fire within a tick, a dead worker's answer is collected within a
\* tick, and a waiting worker polls at least once a tick.
Tick ==
    /\ \E c \in Callers : pc[c] # "idle"
    /\ \A c \in Callers :
          /\ pc[c] # "exited"
          /\ pc[c] # "idle" => age[c] < CallTimeout
          /\ pc[c] = "poll" => lock # None /\ age[c] - since[c] < LockTimeout
    /\ age' = [c \in Callers |-> IF pc[c] = "idle" THEN 0 ELSE age[c] + 1]
    /\ overstayed' = (overstayed \/ \E c \in Callers : Overstays(c))
    /\ UNCHANGED <<pc, call, worker, since, lock, folder, store, health, result>>

WorkerStep(c) ==
    \/ ImportSucceeds(c) \/ ImportFails(c)
    \/ Acquire(c) \/ GiveUp(c)
    \/ InitSucceeds(c) \/ InitConflicts(c) \/ InitFails(c) \/ OpRaises(c)
    \/ AddExtracts(c) \/ AddWritesNothing(c) \/ AddCommits(c)
    \/ RunSearch(c) \/ RunInspect(c) \/ RunClear(c)
    \/ PrintReply(c)

WrapperStep(c) ==
    \/ \E op \in Ops, s \in Scopes : Spawn(c, op, s)
    \/ Collect(c)
    \/ Kill(c)

Next ==
    \/ \E c \in Callers : WorkerStep(c) \/ WrapperStep(c)
    \/ \E d \in Outsiders : OutsiderOpens(d) \/ OutsiderCloses(d)
    \/ Tick

Spec == Init /\ [][Next]_vars

\* Time passes, subprocess.run returns when the worker has died and enforces
\* its timeout when it has not, and the polling loop runs.
\* Nothing is assumed of the operation itself: mem0, qdrant or the claude CLI
\* may hang for ever.
Fairness ==
    /\ WF_vars(Tick)
    /\ \A c \in Callers :
          /\ WF_vars(Collect(c) \/ Kill(c))
          /\ WF_vars(Acquire(c) \/ GiveUp(c))

FairSpec == Spec /\ Fairness

-----------------------------------------------------------------------------
(* Properties.                                                             *)

(***************************************************************************)
(* The flock does what _mem0_subprocess_worker.py:92-95 takes it for: no   *)
(* two workers are between acquiring it and their death, whatever workers  *)
(* were killed in between.                                                 *)
(***************************************************************************)
OneWorkerAtATime ==
    \A c, d \in Callers : pc[c] \in Critical /\ pc[d] \in Critical => c = d

(***************************************************************************)
(* Neither lock outlives the process that took it, so a worker killed in   *)
(* the middle of an operation never blocks the next one.  Together with    *)
(* the type invariant this is the inductive invariant of the proof.        *)
(***************************************************************************)
LocksFollowLife ==
    /\ \A c \in Callers : lock = c <=> pc[c] \in Critical
    /\ \A c \in Callers : folder = c <=> pc[c] \in Opened

(***************************************************************************)
(* The reason the worker is serialised at all: one worker never finds the  *)
(* qdrant folder taken by another.  Only a process that bypasses the       *)
(* wrapper makes a worker start up unhealthy.                              *)
(***************************************************************************)
NoMutualConflict == [][\A c \in Callers : InitConflicts(c) => folder \in Outsiders]_vars

(***************************************************************************)
(* mem0 decides what to insert from a read it made earlier.  No fact is    *)
(* stored twice in a scope, although callers share the scope, clear it     *)
(* under each other and repeat an add whose first attempt was killed.      *)
(***************************************************************************)
NoDuplicateFacts ==
    \A s \in Scopes : \A m1, m2 \in store[s] : m1.fact = m2.fact => m1 = m2

(***************************************************************************)
(* A failed call is remembered: the wrapper is healthy exactly while it    *)
(* has counted no error, and has a last_error from the first one on        *)
(* (test_honest_mem_invariants.py, invariant 3).                           *)
(***************************************************************************)
ErrorsRemembered ==
    \A c \in Callers :
        /\ health[c].healthy <=> health[c].n_errors = 0
        /\ health[c].n_errors > 0 => health[c].last_error

(***************************************************************************)
(* Every call returns to its caller, even when the operation inside the    *)
(* worker hangs while it holds the flock: its own wrapper kills it, and    *)
(* the callers polling behind it time out or get the lock.                 *)
(***************************************************************************)
EveryCallReturns == \A c \in Callers : pc[c] # "idle" ~> pc[c] = "idle"

(***************************************************************************)
(* The timeouts leave room for the parallelism the wrapper was written     *)
(* for: while each of N callers makes one call and none has overstayed     *)
(* MaxImport or MaxHold, with (N - 1) * MaxHold short of the lock timeout, *)
(* nobody times out on the lock and nobody is killed.                      *)
(***************************************************************************)
WithinBudget ==
    LET others == Cardinality(Callers) - 1 IN
    /\ MaxCalls = 1
    /\ others * MaxHold < LockTimeout
    /\ MaxImport + (others + 1) * MaxHold < CallTimeout

NobodyTimesOut ==
    [][WithinBudget /\ ~overstayed => \A c \in Callers : ~GiveUp(c) /\ ~Kill(c)]_vars

(***************************************************************************)
(* The protocol implements the atomic, at-most-once store.  A call has     *)
(* taken effect when its worker has finished the operation.                *)
(***************************************************************************)
Phase(c) == IF pc[c] = "idle" THEN "idle"
            ELSE IF worker[c].done THEN "applied" ELSE "pending"

AMO == INSTANCE AtMostOnceStore WITH
          phase <- [c \in Callers |-> Phase(c)],
          ids   <- [c \in Callers |-> IF worker[c].done THEN worker[c].ids ELSE {}]

AtMostOnce == AMO!Spec

-----------------------------------------------------------------------------
(* What the code says of itself and does not do.                           *)

Returns(c) == pc[c] # "idle" /\ pc'[c] = "idle"

(***************************************************************************)
(* mem0_subprocess.py:81-83: the wrapper starts out healthy and lets each  *)
(* operation surface its own error if the subprocess fails; base.py:56-58: *)
(* an add whose extraction failed silently is counted as an error.  So a   *)
(* call that failed has been counted, whether the worker says that it      *)
(* failed (ok is false) or that its backend has counted an error.          *)
(***************************************************************************)
FailureSurfaces ==
    [][\A c \in Callers :
          Returns(c) /\ (~result'[c].ok \/ worker[c].h.n_errors > 0)
             => health'[c].n_errors > health[c].n_errors]_vars

=============================================================================
