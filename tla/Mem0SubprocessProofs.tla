------------------------ MODULE Mem0SubprocessProofs ------------------------
(***************************************************************************)
(* Proofs about Mem0Subprocess for any number of callers, facts, scopes    *)
(* and any values of the timeouts: its types, its locks, its store and its *)
(* health; the atomic store it implements; and the room its timeouts       *)
(* leave.                                                                  *)
(***************************************************************************)
EXTENDS Mem0Subprocess, FiniteSetTheorems, TLAPS

(***************************************************************************)
(* The health helpers return health records.                               *)
(***************************************************************************)
LEMMA HealthOps ==
    ASSUME NEW h \in Health, NEW b \in BOOLEAN, NEW n \in Nat, NEW k
    PROVE  /\ FreshHealth \in Health
           /\ RecordError(h, b) \in Health
           /\ RecordOp(h, k, b) \in Health
           /\ Counted(h, n, b) \in Health
           /\ Mem0Init(b) \in Health
           /\ Inspected(h, n, b) \in Health
           /\ Cleared(h, b) \in Health
<1>1. FreshHealth \in Health
  BY DEF Health, FreshHealth
<1>2. RecordError(h, b) \in Health
  <2>1. /\ h.n_errors + 1 \in Nat
        /\ h.n_silent_extraction_failures \in Nat
        /\ h.n_silent_extraction_failures + 1 \in Nat
    BY DEF Health
  <2>2. CASE b
    BY <2>1, <2>2 DEF Health, RecordError
  <2>3. CASE ~b
    BY <2>1, <2>3 DEF Health, RecordError
  <2>4. QED
    BY <2>2, <2>3
<1>3. RecordOp(h, k, b) \in Health
  <2> DEFINE s == IF k = "search" THEN h.n_searches + 1 ELSE h.n_searches
             a == IF k = "add" THEN h.n_adds + 1 ELSE h.n_adds
             e == IF b THEN h.n_errors + 1 ELSE h.n_errors
  <2>1. s \in Nat /\ a \in Nat /\ e \in Nat
    BY DEF Health
  <2>2. RecordOp(h, k, b) = [h EXCEPT !.n_searches = s, !.n_adds = a, !.n_errors = e]
    BY DEF RecordOp, Health
  <2> HIDE DEF s, a, e
  <2>3. QED
    BY <2>1, <2>2 DEF Health
<1>4. Counted(h, n, b) \in Health
  BY DEF Health, Counted
<1>5. Mem0Init(b) \in Health
  BY <1>1 DEF Health, Mem0Init
<1>6. Cleared(h, b) \in Health
  BY DEF Health, Cleared
<1>7. QED
  BY <1>1, <1>2, <1>3, <1>4, <1>5, <1>6 DEF Inspected

(* What add and search make of a health record is a health record. *)
LEMMA AddSearchOps ==
    ASSUME NEW h \in Health, NEW n \in Nat, NEW b \in BOOLEAN
    PROVE  /\ AddNoMessages(h) \in Health
           /\ AddRaises(h) \in Health
           /\ AddMalformed(h) \in Health
           /\ AddSilentlyFails(h) \in Health
           /\ AddSucceeds(h, n, b) \in Health
           /\ SearchSucceeds(h) \in Health
           /\ SearchRaises(h) \in Health
           /\ SearchMalformed(h) \in Health
  BY HealthOps DEF AddNoMessages, AddRaises, AddMalformed, AddSilentlyFails,
                   AddSucceeds, SearchSucceeds, SearchRaises, SearchMalformed

(* What the wrapper makes of an answer is a health record. *)
LEMMA AfterCallType ==
    ASSUME NEW h \in Health, NEW w \in Worker, NEW op, NEW ok \in BOOLEAN
    PROVE  AfterCall(h, op, w, ok) \in Health
<1>1. /\ w.h.n_memories \in Nat
      /\ (h.error_message \/ w.h.error_message) \in BOOLEAN
      /\ h.n_adds + 1 \in Nat
      /\ h.n_searches + 1 \in Nat
      /\ h.n_memories \in Nat
  BY DEF Health, Worker
<1>2. [h EXCEPT !.n_memories = w.h.n_memories,
                !.error_message = @ \/ w.h.error_message,
                !.n_adds = @ + 1] \in Health
  BY <1>1 DEF Health
<1>3. ASSUME NEW n \in Nat
      PROVE  /\ [h EXCEPT !.n_memories = n] \in Health
             /\ [h EXCEPT !.n_searches = @ + 1, !.n_memories = n] \in Health
  BY <1>1 DEF Health
<1>4. [h EXCEPT !.n_searches = @ + 1,
                !.n_memories = IF ok THEN w.h.n_memories ELSE @] \in Health
  BY <1>1, <1>3 DEF Health
<1>5. QED
  BY <1>1, <1>2, <1>3, <1>4 DEF AfterCall

(***************************************************************************)
(* An add inserts finitely many records.                                   *)
(***************************************************************************)
LEMMA FiniteRecords ==
    ASSUME NEW found, IsFiniteSet(found), NEW c
    PROVE  IsFiniteSet(Records(c, found))
<1> DEFINE g == [f \in found |-> [fact |-> f, by |-> c, n |-> call[c].n]]
<1>1. g \in Surjection(found, Records(c, found))
  BY DEF Surjection, Records
<1>2. QED
  BY <1>1, FS_Surjection

(* The values a caller has when no worker runs are of the right type. *)
LEMMA NoWorkerType == NoWorker \in Worker /\ NoResult \in Result
<1>1. FreshHealth \in Health
  BY DEF FreshHealth, Health
<1>2. NoWorker \in Worker
  BY <1>1 DEF NoWorker, Worker
<1>3. NoResult \in Result
  BY DEF NoResult, Result
<1>4. QED
  BY <1>2, <1>3

Finite ==
    /\ \A s \in Scopes : IsFiniteSet(store[s])
    /\ \A c \in Callers : IsFiniteSet(worker[c].ids)

TypeInv == TypeOK /\ Finite

(* The type invariant holds before the first call. *)
LEMMA TypeInit == Init => TypeInv
<1> SUFFICES ASSUME Init PROVE TypeInv
  OBVIOUS
<1>1. NoWorker \in Worker /\ NoResult \in Result
  BY NoWorkerType
<1>2. [FreshHealth EXCEPT !.healthy = TRUE] \in Health
  BY DEF FreshHealth, Health
<1>3. TypeOK
  BY <1>1, <1>2, ParameterAssumption DEF Init, TypeOK, PC, Call
<1>4. Finite
  BY FS_EmptySet DEF Init, Finite, NoWorker
<1>5. QED
  BY <1>3, <1>4 DEF TypeInv

-----------------------------------------------------------------------------
(* Type correctness, one lemma per kind of step.                           *)

(* Dropping the locks of a process leaves both owners well typed. *)
LEMMA ReleaseLocksType ==
    ASSUME TypeOK, NEW c \in Callers, ReleaseLocks(c)
    PROVE  /\ lock' \in Callers \cup {None}
           /\ folder' \in Callers \cup Outsiders \cup {None}
  BY DEF TypeOK, ReleaseLocks

(* A worker that exits, whatever its reply, keeps the type invariant. *)
LEMMA ExitType ==
    ASSUME TypeInv, NEW c \in Callers, NEW reply, Exit(c, reply),
           reply \in {"rc1", "unhealthy"}
    PROVE  TypeInv'
<1>1. worker' \in [Callers -> Worker] /\ worker'[c].ids = worker[c].ids
  BY DEF TypeInv, TypeOK, Exit, Worker
<1>2. TypeOK'
  BY <1>1, ReleaseLocksType DEF TypeInv, TypeOK, Exit, Goto, PC
<1>3. Finite'
  BY <1>1 DEF TypeInv, TypeOK, Finite, Exit
<1>4. QED
  BY <1>2, <1>3 DEF TypeInv

(* So does recording what the operation in a worker did. *)
LEMMA WorkerDidType ==
    ASSUME TypeInv, NEW c \in Callers, NEW h \in Health,
           NEW ids \in SUBSET MemoryId, IsFiniteSet(ids), NEW done \in BOOLEAN,
           WorkerDid(c, h, ids, done)
    PROVE  /\ worker' \in [Callers -> Worker]
           /\ \A d \in Callers : IsFiniteSet(worker'[d].ids)
<1>1. [worker[c] EXCEPT !.h = h, !.ids = ids, !.done = done] \in Worker
  BY DEF TypeInv, TypeOK, Worker
<1>2. worker'[c].ids = ids
  BY DEF TypeInv, TypeOK, WorkerDid, Worker
<1>3. \A d \in Callers : d # c => worker'[d] = worker[d]
  BY DEF TypeInv, TypeOK, WorkerDid
<1>4. QED
  BY <1>1, <1>2, <1>3 DEF TypeInv, TypeOK, Finite, WorkerDid

(* So does handing the answer of a call to its caller. *)
LEMMA ReturnType ==
    ASSUME TypeInv, NEW c \in Callers, NEW h \in Health, NEW ok \in BOOLEAN,
           Return(c, h, ok)
    PROVE  /\ pc' \in [Callers -> PC]
           /\ worker' \in [Callers -> Worker]
           /\ age' \in [Callers -> Nat]
           /\ since' \in [Callers -> Nat]
           /\ health' \in [Callers -> Health]
           /\ result' \in [Callers -> Result]
           /\ Finite'
<1>1. worker[c] \in Worker /\ NoWorker \in Worker
  BY NoWorkerType DEF TypeInv, TypeOK
<1>2. AfterCall(h, call[c].op, worker[c], ok) \in Health
  BY <1>1, AfterCallType
<1>3. [ok |-> ok, ids |-> IF ok THEN worker[c].ids ELSE {}] \in Result
  BY <1>1 DEF Worker, Result
<1>4. Finite'
  BY FS_EmptySet DEF TypeInv, TypeOK, Finite, Return, NoWorker
<1>5. QED
  BY <1>1, <1>2, <1>3, <1>4 DEF TypeInv, TypeOK, Return, Goto, PC

(* Every step keeps the type invariant. *)
LEMMA TypeStep == TypeInv /\ [Next]_vars => TypeInv'
<1> SUFFICES ASSUME TypeInv, [Next]_vars PROVE TypeInv'
  OBVIOUS
<1> USE DEF Goto
<1>1. ASSUME NEW c \in Callers, NEW op \in Ops, NEW s \in Scopes, Spawn(c, op, s)
      PROVE  TypeInv'
  <2>1. [op |-> op, scope |-> s, n |-> call[c].n + 1] \in Call
    BY DEF TypeInv, TypeOK, Call
  <2>2. TypeOK'
    BY <1>1, <2>1, NoWorkerType DEF TypeInv, TypeOK, Spawn, PC
  <2>3. Finite'
    BY <1>1, FS_EmptySet DEF TypeInv, TypeOK, Finite, Spawn, NoWorker
  <2>4. QED
    BY <2>2, <2>3 DEF TypeInv
<1>2. ASSUME NEW c \in Callers, ImportSucceeds(c) PROVE TypeInv'
  BY <1>2 DEF TypeInv, TypeOK, Finite, ImportSucceeds, PC
<1>3. ASSUME NEW c \in Callers, ImportFails(c) PROVE TypeInv'
  BY <1>3, ExitType DEF ImportFails
<1>4. ASSUME NEW c \in Callers, Acquire(c) PROVE TypeInv'
  BY <1>4 DEF TypeInv, TypeOK, Finite, Acquire, PC
<1>5. ASSUME NEW c \in Callers, GiveUp(c) PROVE TypeInv'
  BY <1>5, ExitType DEF GiveUp
<1>6. ASSUME NEW c \in Callers, InitSucceeds(c) PROVE TypeInv'
  <2> DEFINE h == Mem0Init(TRUE)
  <2>1. h \in Health
    BY DEF Mem0Init, FreshHealth, Health
  <2>2. worker' = [worker EXCEPT ![c].h = h]
    BY <1>6 DEF InitSucceeds
  <2> HIDE DEF h
  <2>3. worker' \in [Callers -> Worker] /\ worker'[c].ids = worker[c].ids
    BY <2>1, <2>2 DEF TypeInv, TypeOK, Worker
  <2>4. TypeOK'
    BY <1>6, <2>3 DEF TypeInv, TypeOK, InitSucceeds, PC
  <2>5. Finite'
    BY <1>6, <2>2, <2>3 DEF TypeInv, TypeOK, Finite, InitSucceeds
  <2>6. QED
    BY <2>4, <2>5 DEF TypeInv
<1>7. ASSUME NEW c \in Callers, InitConflicts(c) PROVE TypeInv'
  BY <1>7, ExitType DEF InitConflicts
<1>8. ASSUME NEW c \in Callers, InitFails(c) PROVE TypeInv'
  BY <1>8, ExitType DEF InitFails
<1>9. ASSUME NEW c \in Callers, AddExtracts(c) PROVE TypeInv'
  <2>1. PICK found \in SUBSET Facts :
           WorkerDid(c, worker[c].h, Records(c, found \ FactsIn(call[c].scope)), FALSE)
    BY <1>9 DEF AddExtracts
  <2> DEFINE ids == Records(c, found \ FactsIn(call[c].scope))
  <2>2. IsFiniteSet(ids)
    <3>1. IsFiniteSet(found \ FactsIn(call[c].scope))
      BY FS_Subset, ParameterAssumption
    <3>2. QED
      BY <3>1, FiniteRecords
  <2>3. ids \in SUBSET MemoryId /\ worker[c].h \in Health
    BY DEF TypeInv, TypeOK, MemoryId, Call, Worker, Records
  <2> HIDE DEF ids
  <2>4. /\ worker' \in [Callers -> Worker]
        /\ \A d \in Callers : IsFiniteSet(worker'[d].ids)
    BY <2>1, <2>2, <2>3, WorkerDidType DEF ids
  <2>5. QED
    BY <1>9, <2>4 DEF TypeInv, TypeOK, Finite, AddExtracts, PC
<1>10. ASSUME NEW c \in Callers, AddWritesNothing(c) PROVE TypeInv'
  <2>1. PICK h \in {AddNoMessages(worker[c].h), AddRaises(worker[c].h),
                     AddSilentlyFails(worker[c].h)} : WorkerDid(c, h, {}, TRUE)
    BY <1>10 DEF AddWritesNothing
  <2>2. h \in Health
    BY AddSearchOps DEF TypeInv, TypeOK, Worker
  <2>3. /\ worker' \in [Callers -> Worker]
        /\ \A d \in Callers : IsFiniteSet(worker'[d].ids)
    BY <2>1, <2>2, WorkerDidType, FS_EmptySet
  <2>4. QED
    BY <1>10, <2>3 DEF TypeInv, TypeOK, Finite, AddWritesNothing, PC
<1>11. ASSUME NEW c \in Callers, AddCommits(c) PROVE TypeInv'
  <2>1. worker[c].ids \in SUBSET MemoryId /\ call[c].scope \in Scopes
    BY DEF TypeInv, TypeOK, Worker, Call
  <2>2. PICK written \in SUBSET worker[c].ids :
           /\ store' = [store EXCEPT ![call[c].scope] = @ \cup written]
           /\ \/ /\ written = worker[c].ids
                 /\ \E named \in SUBSET store[call[c].scope], known \in BOOLEAN :
                       WorkerDid(c, AddSucceeds(worker[c].h,
                                                Cardinality(store'[call[c].scope]), known),
                                 written \cup named, TRUE)
              \/ \E h \in {AddRaises(worker[c].h), AddMalformed(worker[c].h)} :
                    WorkerDid(c, h, {}, TRUE)
    BY <1>11 DEF AddCommits
  <2>3. IsFiniteSet(written)
    BY <2>2, FS_Subset DEF TypeInv, Finite
  <2>4. store' \in [Scopes -> SUBSET MemoryId]
    BY <2>1, <2>2 DEF TypeInv, TypeOK
  <2>5. \A s \in Scopes : IsFiniteSet(store'[s])
    BY <2>1, <2>2, <2>3, FS_Union DEF TypeInv, TypeOK, Finite
  <2>6. Cardinality(store'[call[c].scope]) \in Nat
    BY <2>1, <2>5, FS_CardinalityType
  <2> DEFINE Mine == worker[c].ids \cup store[call[c].scope]
  <2>7. \E h \in Health, ids \in SUBSET Mine : WorkerDid(c, h, ids, TRUE)
    <3>1. worker[c].h \in Health
      BY DEF TypeInv, TypeOK, Worker
    <3>2. CASE \E h \in {AddRaises(worker[c].h), AddMalformed(worker[c].h)} :
                 WorkerDid(c, h, {}, TRUE)
      BY <3>1, <3>2, AddSearchOps
    <3>3. CASE \E named \in SUBSET store[call[c].scope], known \in BOOLEAN :
                 WorkerDid(c, AddSucceeds(worker[c].h,
                                          Cardinality(store'[call[c].scope]), known),
                           written \cup named, TRUE)
      BY <2>2, <2>6, <3>1, <3>3, AddSearchOps
    <3>4. QED
      BY <2>2, <3>2, <3>3
  <2>8. PICK h \in Health, ids \in SUBSET Mine : WorkerDid(c, h, ids, TRUE)
    BY <2>7
  <2>9. ids \in SUBSET MemoryId /\ IsFiniteSet(ids)
    <3>1. Mine \in SUBSET MemoryId
      BY <2>1 DEF TypeInv, TypeOK
    <3>2. IsFiniteSet(Mine)
      BY <2>1, FS_Union DEF TypeInv, Finite
    <3>3. QED
      BY <3>1, <3>2, FS_Subset
  <2>10. /\ worker' \in [Callers -> Worker]
         /\ \A d \in Callers : IsFiniteSet(worker'[d].ids)
    BY <2>8, <2>9, WorkerDidType
  <2>11. QED
    BY <1>11, <2>4, <2>5, <2>10 DEF TypeInv, TypeOK, Finite, AddCommits, PC
<1>12. ASSUME NEW c \in Callers, RunSearch(c) PROVE TypeInv'
  <2>1. PICK h \in {SearchSucceeds(worker[c].h), SearchRaises(worker[c].h),
                   SearchMalformed(worker[c].h)} :
           WorkerDid(c, h, {}, TRUE)
    BY <1>12 DEF RunSearch
  <2>2. h \in Health
    BY AddSearchOps DEF TypeInv, TypeOK, Worker
  <2>3. /\ worker' \in [Callers -> Worker]
        /\ \A d \in Callers : IsFiniteSet(worker'[d].ids)
    BY <2>1, <2>2, WorkerDidType, FS_EmptySet
  <2>4. QED
    BY <1>12, <2>3 DEF TypeInv, TypeOK, Finite, RunSearch, PC
<1>13. ASSUME NEW c \in Callers, RunInspect(c) PROVE TypeInv'
  <2>1. /\ worker' \in [Callers -> Worker]
        /\ \A d \in Callers : IsFiniteSet(worker'[d].ids)
    BY <1>13, WorkerDidType, FS_EmptySet DEF RunInspect, TypeInv, TypeOK, Worker
  <2>2. QED
    BY <1>13, <2>1 DEF TypeInv, TypeOK, Finite, RunInspect, PC
<1>14. ASSUME NEW c \in Callers, RunClear(c) PROVE TypeInv'
  <2>1. PICK left \in SUBSET store[HomeScope[c]], deleted \in BOOLEAN :
           /\ store' = [store EXCEPT ![HomeScope[c]] = left]
           /\ WorkerDid(c, Cleared(worker[c].h, deleted), {}, TRUE)
    BY <1>14 DEF RunClear
  <2>2. store' \in [Scopes -> SUBSET MemoryId] /\ \A s \in Scopes : IsFiniteSet(store'[s])
    <3>1. HomeScope[c] \in Scopes
      BY ParameterAssumption
    <3>2. IsFiniteSet(left) /\ left \in SUBSET MemoryId
      BY <3>1, FS_Subset DEF TypeInv, TypeOK, Finite
    <3>3. QED
      BY <2>1, <3>2 DEF TypeInv, TypeOK, Finite
  <2>3. Cleared(worker[c].h, deleted) \in Health
    BY HealthOps DEF TypeInv, TypeOK, Worker
  <2>4. /\ worker' \in [Callers -> Worker]
        /\ \A d \in Callers : IsFiniteSet(worker'[d].ids)
    BY <2>1, <2>3, WorkerDidType, FS_EmptySet
  <2>5. QED
    BY <1>14, <2>2, <2>4 DEF TypeInv, TypeOK, Finite, RunClear, PC
<1>15. ASSUME NEW c \in Callers, PrintReply(c) PROVE TypeInv'
  <2>1. PICK known \in BOOLEAN, reply \in {"ok", "garbled", "rc1"} :
           worker' = [worker EXCEPT
                         ![c].reply = reply,
                         ![c].h = IF call[c].op = "clear" THEN @
                                  ELSE Inspected(@, Size(HomeScope[c]), known)]
    BY <1>15 DEF PrintReply
  <2>2. worker[c].h \in Health /\ Size(HomeScope[c]) \in Nat
    BY ParameterAssumption, FS_CardinalityType DEF TypeInv, TypeOK, Finite, Worker, Size
  <2>3. Inspected(worker[c].h, Size(HomeScope[c]), known) \in Health
    BY <2>2, HealthOps
  <2> DEFINE h == IF call[c].op = "clear" THEN worker[c].h
                  ELSE Inspected(worker[c].h, Size(HomeScope[c]), known)
  <2>4. h \in Health
    BY <2>2, <2>3
  <2>5. worker' = [worker EXCEPT ![c].reply = reply, ![c].h = h]
    BY <2>1 DEF TypeInv, TypeOK, Worker
  <2> HIDE DEF h
  <2>6. worker' \in [Callers -> Worker] /\ worker'[c].ids = worker[c].ids
    BY <2>4, <2>5, ZenonT(30) DEF TypeInv, TypeOK, Worker
  <2>7. \A d \in Callers : d # c => worker'[d] = worker[d]
    BY <2>5 DEF TypeInv, TypeOK
  <2>8. TypeOK'
    BY <1>15, <2>6, ReleaseLocksType DEF TypeInv, TypeOK, PrintReply, PC
  <2>9. Finite'
    BY <1>15, <2>6, <2>7 DEF TypeInv, Finite, PrintReply
  <2>10. QED
    BY <2>8, <2>9 DEF TypeInv
<1>16. ASSUME NEW c \in Callers, Collect(c) PROVE TypeInv'
  <2>1. (IF Recorded(c) THEN RecordError(health[c], FALSE) ELSE health[c]) \in Health
    BY HealthOps DEF TypeInv, TypeOK
  <2>2. QED
    BY <1>16, <2>1, ReturnType DEF TypeInv, TypeOK, Collect, Return
<1>17. ASSUME NEW c \in Callers, Kill(c) PROVE TypeInv'
  <2>1. RecordError(health[c], FALSE) \in Health
    BY HealthOps DEF TypeInv, TypeOK
  <2>2. QED
    BY <1>17, <2>1, ReturnType, ReleaseLocksType DEF TypeInv, TypeOK, Kill, Return
<1>18. ASSUME NEW d \in Outsiders, OutsiderOpens(d) PROVE TypeInv'
  BY <1>18 DEF TypeInv, TypeOK, Finite, OutsiderOpens
<1>19. ASSUME NEW d \in Outsiders, OutsiderCloses(d) PROVE TypeInv'
  BY <1>19 DEF TypeInv, TypeOK, Finite, OutsiderCloses
<1>20. CASE Tick
  BY <1>20 DEF TypeInv, TypeOK, Finite, Tick
<1>21. CASE UNCHANGED vars
  BY <1>21 DEF TypeInv, TypeOK, Finite, vars
<1>22. ASSUME NEW c \in Callers, OpRaises(c) PROVE TypeInv'
  BY <1>22, ExitType DEF OpRaises
<1>23. QED
  BY <1>1, <1>2, <1>3, <1>4, <1>5, <1>6, <1>7, <1>8, <1>9, <1>10, <1>11, <1>12,
     <1>13, <1>14, <1>15, <1>16, <1>17, <1>18, <1>19, <1>20, <1>21, <1>22
  DEF Next, WorkerStep, WrapperStep

(* Every reachable state is well typed, and every scope holds finitely many *)
(* memories, so that the counts the backends report exist.                  *)
LEMMA TypeInvariant == Spec => []TypeInv
<1>1. Init => TypeInv
  BY TypeInit
<1>2. TypeInv /\ [Next]_vars => TypeInv'
  BY TypeStep
<1>3. QED
  BY <1>1, <1>2, PTL DEF Spec

(***************************************************************************)
(* Every reachable state is well typed.                                    *)
(***************************************************************************)
THEOREM TypeCorrect == Spec => []TypeOK
<1>1. TypeInv => TypeOK
  BY DEF TypeInv
<1>2. QED
  BY <1>1, TypeInvariant, PTL

-----------------------------------------------------------------------------
(* Mutual exclusion.                                                       *)

IInv == TypeInv /\ LocksFollowLife

(* Every step keeps the locks with the life of their owners. *)
LEMMA LocksStep == IInv /\ [Next]_vars => LocksFollowLife'
<1> SUFFICES ASSUME IInv, [Next]_vars PROVE LocksFollowLife'
  OBVIOUS
<1> USE ProcessAssumption DEF IInv, TypeInv, TypeOK, LocksFollowLife,
        Goto, Critical, Opened
<1>1. ASSUME NEW c \in Callers, NEW reply, Exit(c, reply) PROVE LocksFollowLife'
  BY <1>1 DEF Exit, ReleaseLocks
<1>2. ASSUME NEW c \in Callers, NEW op \in Ops, NEW s \in Scopes, Spawn(c, op, s)
      PROVE  LocksFollowLife'
  BY <1>2 DEF Spawn
<1>3. ASSUME NEW c \in Callers, ImportSucceeds(c) PROVE LocksFollowLife'
  BY <1>3 DEF ImportSucceeds
<1>4. ASSUME NEW c \in Callers, ImportFails(c) PROVE LocksFollowLife'
  BY <1>1, <1>4 DEF ImportFails
<1>5. ASSUME NEW c \in Callers, Acquire(c) PROVE LocksFollowLife'
  BY <1>5 DEF Acquire
<1>6. ASSUME NEW c \in Callers, GiveUp(c) PROVE LocksFollowLife'
  BY <1>1, <1>6 DEF GiveUp
<1>7. ASSUME NEW c \in Callers, InitSucceeds(c) PROVE LocksFollowLife'
  BY <1>7 DEF InitSucceeds
<1>8. ASSUME NEW c \in Callers, InitConflicts(c) PROVE LocksFollowLife'
  BY <1>1, <1>8 DEF InitConflicts
<1>9. ASSUME NEW c \in Callers, InitFails(c) PROVE LocksFollowLife'
  BY <1>1, <1>9 DEF InitFails
<1>10. ASSUME NEW c \in Callers, AddExtracts(c) PROVE LocksFollowLife'
  BY <1>10 DEF AddExtracts
<1>11. ASSUME NEW c \in Callers, AddWritesNothing(c) PROVE LocksFollowLife'
  BY <1>11 DEF AddWritesNothing
<1>12. ASSUME NEW c \in Callers, AddCommits(c) PROVE LocksFollowLife'
  BY <1>12 DEF AddCommits
<1>13. ASSUME NEW c \in Callers, RunSearch(c) PROVE LocksFollowLife'
  BY <1>13 DEF RunSearch
<1>14. ASSUME NEW c \in Callers, RunInspect(c) PROVE LocksFollowLife'
  BY <1>14 DEF RunInspect
<1>15. ASSUME NEW c \in Callers, RunClear(c) PROVE LocksFollowLife'
  BY <1>15 DEF RunClear
<1>16. ASSUME NEW c \in Callers, PrintReply(c) PROVE LocksFollowLife'
  BY <1>16 DEF PrintReply, ReleaseLocks
<1>17. ASSUME NEW c \in Callers, Collect(c) PROVE LocksFollowLife'
  BY <1>17 DEF Collect, Return
<1>18. ASSUME NEW c \in Callers, Kill(c) PROVE LocksFollowLife'
  BY <1>18 DEF Kill, Return, ReleaseLocks
<1>19. ASSUME NEW d \in Outsiders, OutsiderOpens(d) PROVE LocksFollowLife'
  BY <1>19 DEF OutsiderOpens
<1>20. ASSUME NEW d \in Outsiders, OutsiderCloses(d) PROVE LocksFollowLife'
  BY <1>20 DEF OutsiderCloses
<1>21. CASE Tick
  BY <1>21 DEF Tick
<1>22. CASE UNCHANGED vars
  BY <1>22 DEF vars
<1>23. ASSUME NEW c \in Callers, OpRaises(c) PROVE LocksFollowLife'
  BY <1>1, <1>23 DEF OpRaises
<1>24. QED
  BY <1>2, <1>3, <1>4, <1>5, <1>6, <1>7, <1>8, <1>9, <1>10, <1>11, <1>12, <1>13,
     <1>14, <1>15, <1>16, <1>17, <1>18, <1>19, <1>20, <1>21, <1>22, <1>23
  DEF Next, WorkerStep, WrapperStep

(***************************************************************************)
(* Whatever workers are killed, and whenever, the two locks belong to      *)
(* exactly the workers that are alive and between acquiring and exiting.   *)
(***************************************************************************)
THEOREM LocksNeverLeak == Spec => []LocksFollowLife
<1>1. Init => IInv
  BY TypeInit, ProcessAssumption DEF IInv, Init, LocksFollowLife, Critical, Opened
<1>2. IInv /\ [Next]_vars => IInv'
  BY TypeStep, LocksStep DEF IInv
<1>3. IInv => LocksFollowLife
  BY DEF IInv
<1>4. QED
  BY <1>1, <1>2, <1>3, PTL DEF Spec

(***************************************************************************)
(* No two workers are ever inside the section the flock protects.          *)
(***************************************************************************)
THEOREM MutualExclusion == Spec => []OneWorkerAtATime
<1>1. LocksFollowLife => OneWorkerAtATime
  BY DEF LocksFollowLife, OneWorkerAtATime
<1>2. QED
  BY <1>1, LocksNeverLeak, PTL

(***************************************************************************)
(* A worker that finds the qdrant folder taken lost it to a process that   *)
(* does not go through the wrapper.                                        *)
(***************************************************************************)
THEOREM OnlyOutsidersConflict == Spec => NoMutualConflict
<1> DEFINE A == \A c \in Callers : InitConflicts(c) => folder \in Outsiders
<1>1. TypeInv /\ LocksFollowLife => A
  <2> SUFFICES ASSUME TypeInv, LocksFollowLife, NEW c \in Callers, InitConflicts(c)
               PROVE  folder \in Outsiders
    OBVIOUS
  <2>1. lock = c /\ folder # None
    BY DEF InitConflicts, LocksFollowLife, Critical
  <2>2. ASSUME folder \in Callers PROVE FALSE
    BY <2>1, <2>2, ProcessAssumption DEF LocksFollowLife, Opened, Critical, InitConflicts
  <2>3. QED
    BY <2>1, <2>2 DEF TypeInv, TypeOK
<1>2. TypeInv /\ LocksFollowLife => [A]_vars
  BY <1>1
<1>3. QED
  BY <1>2, TypeInvariant, LocksNeverLeak, PTL DEF NoMutualConflict

-----------------------------------------------------------------------------
(* The store.                                                              *)

(* What a worker is about to insert was chosen for its call, and none of it *)
(* is in the store yet.                                                     *)
ChosenIsNew ==
    \A c \in Callers : pc[c] = "commit" =>
        \A m \in worker[c].ids :
            /\ m.by = c
            /\ m.n = call[c].n
            /\ m.fact \notin FactsIn(call[c].scope)

StoreInv == IInv /\ NoDuplicateFacts /\ ChosenIsNew

(* A step that leaves the store, the call and the records of every worker at *)
(* its commit alone, and takes no worker there, changes nothing of this.     *)
LEMMA StoreUntouched ==
    ASSUME StoreInv, store' = store,
           \A c \in Callers :
               pc'[c] = "commit" =>
                   pc[c] = "commit" /\ worker'[c] = worker[c] /\ call'[c] = call[c]
    PROVE  NoDuplicateFacts' /\ ChosenIsNew'
BY DEF StoreInv, NoDuplicateFacts, ChosenIsNew, FactsIn

(* A worker that has the flock is the only one at its commit. *)
LEMMA OnlyOneCommits ==
    ASSUME IInv, NEW c \in Callers, pc[c] \in Critical, NEW d \in Callers, pc[d] = "commit"
    PROVE  c = d
BY DEF IInv, LocksFollowLife, Critical

(* The worker drops what the scope holds already. *)
LEMMA ExtractStep ==
    ASSUME StoreInv, NEW c \in Callers, AddExtracts(c)
    PROVE  NoDuplicateFacts' /\ ChosenIsNew'
<1> USE DEF StoreInv, IInv, TypeInv, TypeOK
<1>1. store' = store /\ call' = call /\ pc[c] = "op" /\ pc' = [pc EXCEPT ![c] = "commit"]
  BY DEF AddExtracts, Goto
<1>2. PICK found \in SUBSET Facts :
        WorkerDid(c, worker[c].h, Records(c, found \ FactsIn(call[c].scope)), FALSE)
  BY DEF AddExtracts
<1>3. worker'[c].ids = Records(c, found \ FactsIn(call[c].scope))
  BY <1>2 DEF WorkerDid, Worker
<1>4. \A m \in worker'[c].ids :
         m.by = c /\ m.n = call[c].n /\ m.fact \notin FactsIn(call[c].scope)
  BY <1>3 DEF Records
<1>5. \A d \in Callers : pc'[d] = "commit" => d = c
  BY <1>1, OnlyOneCommits DEF Critical
<1>6. QED
  BY <1>1, <1>4, <1>5 DEF NoDuplicateFacts, ChosenIsNew, FactsIn

(* What it then stores duplicates nothing. *)
LEMMA CommitStep ==
    ASSUME StoreInv, NEW c \in Callers, AddCommits(c)
    PROVE  NoDuplicateFacts' /\ ChosenIsNew'
<1> USE DEF StoreInv, IInv, TypeInv, TypeOK
<1>1. pc[c] = "commit" /\ pc' = [pc EXCEPT ![c] = "reply"]
  BY DEF AddCommits, Goto
<1>2. PICK written \in SUBSET worker[c].ids :
        store' = [store EXCEPT ![call[c].scope] = @ \cup written]
  BY DEF AddCommits
<1>3. call[c].scope \in Scopes
  BY DEF Call
<1>4. \A m \in written : m.by = c /\ m.n = call[c].n /\ m.fact \notin FactsIn(call[c].scope)
  BY <1>1, <1>2 DEF ChosenIsNew
<1>5. \A m \in written : m \in MemoryId
  BY <1>2 DEF Worker
<1>6. \A m1, m2 \in written : m1.fact = m2.fact => m1 = m2
  BY <1>4, <1>5 DEF MemoryId
<1>7. ASSUME NEW s \in Scopes, NEW m1 \in store'[s], NEW m2 \in store'[s], m1.fact = m2.fact
      PROVE  m1 = m2
  <2>1. CASE s # call[c].scope
    BY <1>2, <1>7, <2>1 DEF NoDuplicateFacts
  <2>2. CASE s = call[c].scope
    <3>1. m1 \in store[s] \cup written /\ m2 \in store[s] \cup written
      BY <1>2, <1>3, <1>7, <2>2
    <3>2. \A m \in written : \A old \in store[s] : old.fact # m.fact
      BY <1>4, <2>2 DEF FactsIn
    <3>3. QED
      BY <1>6, <1>7, <3>1, <3>2 DEF NoDuplicateFacts
  <2>3. QED
    BY <2>1, <2>2
<1>8. \A d \in Callers : pc'[d] # "commit"
  BY <1>1, OnlyOneCommits DEF Critical
<1>9. QED
  BY <1>7, <1>8 DEF NoDuplicateFacts, ChosenIsNew

(* Clearing takes away, and nobody is at its commit meanwhile. *)
LEMMA ClearStep ==
    ASSUME StoreInv, NEW c \in Callers, RunClear(c)
    PROVE  NoDuplicateFacts' /\ ChosenIsNew'
<1> USE DEF StoreInv, IInv, TypeInv, TypeOK
<1>1. pc[c] = "op" /\ pc' = [pc EXCEPT ![c] = "reply"]
  BY DEF RunClear, Goto
<1>2. \A s \in Scopes : store'[s] \subseteq store[s]
  BY DEF RunClear
<1>3. \A d \in Callers : pc'[d] # "commit"
  BY <1>1, OnlyOneCommits DEF Critical
<1>4. QED
  BY <1>2, <1>3 DEF NoDuplicateFacts, ChosenIsNew

(* Every step keeps the store free of duplicates. *)
LEMMA StoreStep == StoreInv /\ [Next]_vars => NoDuplicateFacts' /\ ChosenIsNew'
<1> SUFFICES ASSUME StoreInv, [Next]_vars PROVE NoDuplicateFacts' /\ ChosenIsNew'
  OBVIOUS
<1> DEFINE Elsewhere ==
      /\ store' = store
      /\ \A c \in Callers :
            pc'[c] = "commit" =>
                pc[c] = "commit" /\ worker'[c] = worker[c] /\ call'[c] = call[c]
<1> USE DEF StoreInv, IInv, TypeInv, TypeOK, Goto
<1>1. ASSUME NEW c \in Callers, NEW reply, Exit(c, reply) PROVE Elsewhere
  BY <1>1 DEF Exit
<1>2. ASSUME NEW c \in Callers, NEW op \in Ops, NEW s \in Scopes, Spawn(c, op, s)
      PROVE  Elsewhere
  BY <1>2 DEF Spawn
<1>3. ASSUME NEW c \in Callers,
             ImportFails(c) \/ GiveUp(c) \/ InitConflicts(c) \/ InitFails(c) \/ OpRaises(c)
      PROVE  Elsewhere
  BY <1>1, <1>3 DEF ImportFails, GiveUp, InitConflicts, InitFails, OpRaises
<1>4. ASSUME NEW c \in Callers, ImportSucceeds(c) PROVE Elsewhere
  BY <1>4 DEF ImportSucceeds
<1>5. ASSUME NEW c \in Callers, Acquire(c) PROVE Elsewhere
  BY <1>5 DEF Acquire
<1>6. ASSUME NEW c \in Callers, InitSucceeds(c) PROVE Elsewhere
  BY <1>6 DEF InitSucceeds
<1>7. ASSUME NEW c \in Callers, AddWritesNothing(c) PROVE Elsewhere
  BY <1>7 DEF AddWritesNothing, WorkerDid
<1>8. ASSUME NEW c \in Callers, RunSearch(c) PROVE Elsewhere
  BY <1>8 DEF RunSearch, WorkerDid
<1>9. ASSUME NEW c \in Callers, RunInspect(c) PROVE Elsewhere
  BY <1>9 DEF RunInspect, WorkerDid
<1>10. ASSUME NEW c \in Callers, PrintReply(c) PROVE Elsewhere
  BY <1>10 DEF PrintReply
<1>11. ASSUME NEW c \in Callers, Collect(c) PROVE Elsewhere
  BY <1>11 DEF Collect, Return
<1>12. ASSUME NEW c \in Callers, Kill(c) PROVE Elsewhere
  BY <1>12 DEF Kill, Return
<1>13. ASSUME NEW d \in Outsiders, OutsiderOpens(d) \/ OutsiderCloses(d) PROVE Elsewhere
  BY <1>13 DEF OutsiderOpens, OutsiderCloses
<1>14. CASE Tick
  BY <1>14, StoreUntouched DEF Tick
<1>15. CASE UNCHANGED vars
  BY <1>15, StoreUntouched DEF vars
<1>16. QED
  BY <1>2, <1>3, <1>4, <1>5, <1>6, <1>7, <1>8, <1>9, <1>10, <1>11, <1>12, <1>13,
     <1>14, <1>15, StoreUntouched, ExtractStep, CommitStep, ClearStep
  DEF Next, WorkerStep, WrapperStep

(* A store free of duplicates, and commits that keep it so, at all times.    *)
LEMMA StoreInvariant == Spec => [](NoDuplicateFacts /\ ChosenIsNew)
<1>1. Init => NoDuplicateFacts /\ ChosenIsNew
  BY DEF Init, NoDuplicateFacts, ChosenIsNew
<1>2. IInv /\ NoDuplicateFacts /\ ChosenIsNew /\ [Next]_vars
        => NoDuplicateFacts' /\ ChosenIsNew'
  BY StoreStep DEF StoreInv
<1>3. TypeInv /\ LocksFollowLife => IInv
  BY DEF IInv
<1>4. QED
  BY <1>1, <1>2, <1>3, TypeInvariant, LocksNeverLeak, PTL DEF Spec

(***************************************************************************)
(* No fact is ever stored twice in a scope, whoever shares, clears or is   *)
(* killed and tried again.                                                 *)
(***************************************************************************)
THEOREM NoFactTwice == Spec => []NoDuplicateFacts
BY StoreInvariant, PTL

-----------------------------------------------------------------------------
(* The wrapper's health.                                                   *)

(* Recording an error marks the record; what the methods do afterwards with *)
(* the worker's answer touches none of the marks.                           *)
LEMMA MarksKept ==
    ASSUME NEW h \in Health, NEW op, NEW w \in Worker, NEW ok \in BOOLEAN
    PROVE  /\ AfterCall(h, op, w, ok).healthy = h.healthy
           /\ AfterCall(h, op, w, ok).n_errors = h.n_errors
           /\ AfterCall(h, op, w, ok).last_error = h.last_error
<1>1. CASE op = "add"
  BY <1>1 DEF AfterCall, Health
<1>2. CASE op = "search"
  BY <1>2 DEF AfterCall, Health
<1>3. CASE op = "inspect"
  BY <1>3 DEF AfterCall, Health
<1>4. CASE op = "clear"
  BY <1>4 DEF AfterCall, Health
<1>5. CASE op \notin {"add", "search", "inspect", "clear"}
  BY <1>5 DEF AfterCall
<1>6. QED
  BY <1>1, <1>2, <1>3, <1>4, <1>5

(* Returning from a call with the health it had, or with an error recorded.  *)
LEMMA ReturnRemembers ==
    ASSUME TypeInv, ErrorsRemembered, NEW c \in Callers, NEW ok \in BOOLEAN, NEW h,
           h \in {health[c], RecordError(health[c], FALSE)}, Return(c, h, ok)
    PROVE  ErrorsRemembered'
<1> USE DEF TypeInv, TypeOK
<1>1. health[c] \in Health /\ worker[c] \in Worker
  OBVIOUS
<1>2. h \in Health
  BY <1>1, HealthOps
<1>3. (h.healthy <=> h.n_errors = 0) /\ (h.n_errors > 0 => h.last_error)
  <2>1. CASE h = health[c]
    BY <2>1 DEF ErrorsRemembered
  <2>2. CASE h = RecordError(health[c], FALSE)
    <3>1. health[c].n_errors \in Nat
      BY <1>1 DEF Health
    <3>2. h.healthy = FALSE /\ h.n_errors = health[c].n_errors + 1 /\ h.last_error = TRUE
      BY <1>1, <2>2 DEF RecordError, Health
    <3>3. QED
      BY <3>1, <3>2
  <2>3. QED
    BY <2>1, <2>2
<1>4. health' = [health EXCEPT ![c] = AfterCall(h, call[c].op, worker[c], ok)]
  BY DEF Return
<1>5. /\ health'[c].healthy = h.healthy
      /\ health'[c].n_errors = h.n_errors
      /\ health'[c].last_error = h.last_error
  BY <1>1, <1>2, <1>4, MarksKept
<1>6. \A d \in Callers : d # c => health'[d] = health[d]
  BY <1>4
<1>7. QED
  BY <1>3, <1>5, <1>6 DEF ErrorsRemembered

(* Only the end of a call changes the wrapper's health. *)
LEMMA RememberStep == TypeInv /\ ErrorsRemembered /\ [Next]_vars => ErrorsRemembered'
<1> SUFFICES ASSUME TypeInv, ErrorsRemembered, [Next]_vars PROVE ErrorsRemembered'
  OBVIOUS
<1>1. CASE health' = health
  BY <1>1 DEF ErrorsRemembered
<1>2. ASSUME NEW c \in Callers, Collect(c) PROVE ErrorsRemembered'
  BY <1>2, ReturnRemembers DEF Collect
<1>3. ASSUME NEW c \in Callers, Kill(c) PROVE ErrorsRemembered'
  BY <1>3, ReturnRemembers DEF Kill
<1>4. ASSUME NEW c \in Callers, WorkerStep(c) PROVE health' = health
  BY <1>4 DEF WorkerStep, ImportSucceeds, ImportFails, Acquire, GiveUp, InitSucceeds,
     InitConflicts, InitFails, OpRaises, AddExtracts, AddWritesNothing, AddCommits,
     RunSearch, RunInspect, RunClear, PrintReply, Exit
<1>5. ASSUME NEW c \in Callers, NEW op \in Ops, NEW s \in Scopes, Spawn(c, op, s)
      PROVE  health' = health
  BY <1>5 DEF Spawn
<1>6. ASSUME NEW d \in Outsiders, OutsiderOpens(d) \/ OutsiderCloses(d)
      PROVE  health' = health
  BY <1>6 DEF OutsiderOpens, OutsiderCloses
<1>7. Tick \/ UNCHANGED vars => health' = health
  BY DEF Tick, vars
<1>8. QED
  BY <1>1, <1>2, <1>3, <1>4, <1>5, <1>6, <1>7 DEF Next, WrapperStep

(***************************************************************************)
(* A wrapper is healthy exactly as long as it has recorded no error, and   *)
(* has a last_error from the first one on: no later success wipes it out.  *)
(***************************************************************************)
THEOREM ErrorsNeverForgotten == Spec => []ErrorsRemembered
<1>1. Init => ErrorsRemembered
  BY DEF Init, ErrorsRemembered, FreshHealth
<1>2. QED
  BY <1>1, RememberStep, TypeInvariant, PTL DEF Spec

-----------------------------------------------------------------------------
(* The atomic store.  A call has taken effect (is "applied") when its      *)
(* worker has finished the operation; from then on the flags of the worker *)
(* tell the wrapper the truth, which is what PhaseInv says.                *)

Ids(c)   == IF worker[c].done THEN worker[c].ids ELSE {}
PhaseBar == [c \in Callers |-> Phase(c)]
IdsBar   == [c \in Callers |-> Ids(c)]

\* Where the worker is says whether it has done its operation, and it answers
\* ok only if it has.
PhaseInv ==
    \A c \in Callers :
        /\ pc[c] \in {"idle", "import", "poll", "init", "op"} =>
              worker[c].ids = {} /\ ~worker[c].done
        /\ pc[c] = "commit" => ~worker[c].done /\ call[c].op = "add"
        /\ pc[c] = "reply" => worker[c].done
        /\ worker[c].reply = "ok" => worker[c].done

-----------------------------------------------------------------------------
(* The invariant.                                                          *)

(* Every step keeps the flags of the worker true. *)
LEMMA PhaseStep == TypeOK /\ PhaseInv /\ [Next]_vars => PhaseInv'
<1> SUFFICES ASSUME TypeOK, PhaseInv, [Next]_vars PROVE PhaseInv'
  OBVIOUS
<1> USE DEF TypeOK, PhaseInv, Goto
<1>1. ASSUME NEW c \in Callers, NEW reply \in {"rc1", "unhealthy"}, Exit(c, reply)
      PROVE  PhaseInv'
  BY <1>1 DEF Exit, Worker
<1>2. ASSUME NEW c \in Callers, NEW op \in Ops, NEW s \in Scopes, Spawn(c, op, s)
      PROVE  PhaseInv'
  BY <1>2 DEF Spawn, NoWorker
<1>3. ASSUME NEW c \in Callers,
             ImportFails(c) \/ GiveUp(c) \/ InitConflicts(c) \/ InitFails(c) \/ OpRaises(c)
      PROVE  PhaseInv'
  BY <1>1, <1>3 DEF ImportFails, GiveUp, InitConflicts, InitFails, OpRaises
<1>4. ASSUME NEW c \in Callers, ImportSucceeds(c) PROVE PhaseInv'
  BY <1>4 DEF ImportSucceeds
<1>5. ASSUME NEW c \in Callers, Acquire(c) PROVE PhaseInv'
  BY <1>5 DEF Acquire
<1>6. ASSUME NEW c \in Callers, InitSucceeds(c) PROVE PhaseInv'
  BY <1>6 DEF InitSucceeds, Worker
<1>7. ASSUME NEW c \in Callers, NEW h, NEW ids, NEW done \in BOOLEAN, NEW l \in {"commit", "reply"},
             WorkerDid(c, h, ids, done), pc' = [pc EXCEPT ![c] = l], done <=> l = "reply",
             pc[c] \in {"op", "commit"}, call' = call, l = "commit" => call[c].op = "add"
      PROVE  PhaseInv'
  <2>1. \A d \in Callers : d # c => worker'[d] = worker[d] /\ pc'[d] = pc[d]
    BY <1>7 DEF WorkerDid
  <2>2. worker'[c].done = done /\ worker'[c].reply = worker[c].reply /\ pc'[c] = l
    BY <1>7 DEF WorkerDid, Worker
  <2>3. worker[c].reply # "ok"
    BY <1>7
  <2>4. QED
    BY <1>7, <2>1, <2>2, <2>3
<1>8. ASSUME NEW c \in Callers,
             AddExtracts(c) \/ AddWritesNothing(c) \/ AddCommits(c) \/ RunSearch(c)
                \/ RunInspect(c) \/ RunClear(c)
      PROVE  PhaseInv'
  BY <1>7, <1>8 DEF AddExtracts, AddWritesNothing, AddCommits, RunSearch, RunInspect, RunClear
<1>9. ASSUME NEW c \in Callers, PrintReply(c) PROVE PhaseInv'
  <2>1. PICK reply, h :
           worker' = [worker EXCEPT ![c].reply = reply, ![c].h = h]
    BY <1>9 DEF PrintReply
  <2>2. worker'[c].done = worker[c].done
    BY <2>1 DEF Worker
  <2>3. \A d \in Callers : d # c => worker'[d] = worker[d] /\ pc'[d] = pc[d]
    BY <1>9, <2>1 DEF PrintReply
  <2>4. pc[c] = "reply" /\ pc'[c] = "exited" /\ call' = call
    BY <1>9 DEF PrintReply
  <2>5. QED
    BY <2>2, <2>3, <2>4
<1>10. ASSUME NEW c \in Callers, NEW h, NEW ok, Return(c, h, ok) PROVE PhaseInv'
  BY <1>10 DEF Return, NoWorker
<1>11. ASSUME NEW c \in Callers, Collect(c) \/ Kill(c) PROVE PhaseInv'
  BY <1>10, <1>11 DEF Collect, Kill
<1>12. ASSUME NEW d \in Outsiders, OutsiderOpens(d) \/ OutsiderCloses(d) PROVE PhaseInv'
  BY <1>12 DEF OutsiderOpens, OutsiderCloses
<1>13. CASE Tick \/ UNCHANGED vars
  BY <1>13 DEF Tick, vars
<1>14. QED
  BY <1>2, <1>3, <1>4, <1>5, <1>6, <1>8, <1>9, <1>11, <1>12, <1>13
  DEF Next, WorkerStep, WrapperStep

(* The worker's flags are true in every reachable state. *)
LEMMA PhaseInvariant == Spec => []PhaseInv
<1>1. Init => PhaseInv
  BY DEF Init, PhaseInv, NoWorker
<1>2. TypeInv => TypeOK
  BY DEF TypeInv
<1>3. QED
  BY <1>1, <1>2, PhaseStep, TypeInvariant, PTL DEF Spec

-----------------------------------------------------------------------------
(* The steps.                                                              *)

RefinementInv == TypeInv /\ ChosenIsNew /\ PhaseInv

(* A step of one caller changes the abstract state of that caller only. *)
LEMMA OneCaller ==
    ASSUME TypeOK, NEW c \in Callers,
           \A d \in Callers : d # c => worker'[d] = worker[d] /\ pc'[d] = pc[d]
    PROVE  /\ PhaseBar' = [PhaseBar EXCEPT ![c] = Phase(c)']
           /\ IdsBar' = [IdsBar EXCEPT ![c] = Ids(c)']
BY DEF PhaseBar, IdsBar, Phase, Ids

(* Starting the worker starts the call. *)
LEMMA SpawnRefines ==
    ASSUME RefinementInv, NEW c \in Callers, NEW op \in Ops, NEW s \in Scopes, Spawn(c, op, s)
    PROVE  AMO!Next
<1> USE DEF RefinementInv, TypeInv, TypeOK
<1>1. \A d \in Callers : d # c => worker'[d] = worker[d] /\ pc'[d] = pc[d]
  BY DEF Spawn, Goto
<1>2. Phase(c) = "idle" /\ Phase(c)' = "pending" /\ Ids(c) = {} /\ Ids(c)' = {}
  BY DEF Spawn, Goto, Phase, Ids, NoWorker, PhaseInv
<1>3. PhaseBar' = [PhaseBar EXCEPT ![c] = "pending"] /\ IdsBar' = IdsBar
  BY <1>1, <1>2, OneCaller DEF IdsBar
<1>4. /\ call' = [call EXCEPT ![c] = [op |-> op, scope |-> s, n |-> @.n + 1]]
      /\ result' = [result EXCEPT ![c] = NoResult]
      /\ store' = store
  BY DEF Spawn
<1>5. PhaseBar[c] = "idle"
  BY <1>2 DEF PhaseBar
<1>6. AMO!Start(c)
  BY <1>3, <1>4, <1>5 DEF AMO!Start, AMO!NoResult, NoResult, PhaseBar, IdsBar, Ids
<1>7. QED
  BY <1>6 DEF AMO!Next

(* A worker that finishes its operation applies the call: what it adds to   *)
(* the store are records of the call for facts that are new to the scope.   *)
LEMMA DidApplies ==
    ASSUME RefinementInv, NEW c \in Callers, pc[c] \in {"op", "commit"},
           NEW h, NEW ids, WorkerDid(c, h, ids, TRUE), pc' = [pc EXCEPT ![c] = "reply"]
    PROVE  /\ PhaseBar[c] = "pending"
           /\ PhaseBar' = [PhaseBar EXCEPT ![c] = "applied"]
           /\ IdsBar' = [IdsBar EXCEPT ![c] = ids]
           /\ IdsBar[c] = {}
<1> USE DEF RefinementInv, TypeInv, TypeOK
<1>1. \A d \in Callers : d # c => worker'[d] = worker[d] /\ pc'[d] = pc[d]
  BY DEF WorkerDid
<1>2. worker'[c].done = TRUE /\ worker'[c].ids = ids /\ pc'[c] = "reply"
  BY DEF WorkerDid, Worker
<1>3. Phase(c) = "pending" /\ Ids(c) = {}
  BY DEF Phase, Ids, PhaseInv
<1>4. Phase(c)' = "applied" /\ Ids(c)' = ids
  BY <1>2 DEF Phase, Ids
<1>5. QED
  BY <1>1, <1>3, <1>4, OneCaller DEF PhaseBar, IdsBar

(* What an add commits is a record of this call for each fact it wrote, all *)
(* of them new to the scope: the insertion of the abstract store.           *)
LEMMA CommitRefines ==
    ASSUME RefinementInv, NEW c \in Callers, AddCommits(c)
    PROVE  AMO!Next
<1> USE DEF RefinementInv, TypeInv, TypeOK
<1>1. /\ pc[c] = "commit"
      /\ pc' = [pc EXCEPT ![c] = "reply"]
      /\ call' = call
      /\ result' = result
      /\ call[c].op = "add"
  BY DEF AddCommits, Goto, PhaseInv
<1>2. \E written \in SUBSET worker[c].ids, named \in SUBSET store[call[c].scope] : \E h, ids :
        /\ ids \in {written \cup named, {}}
        /\ store' = [store EXCEPT ![call[c].scope] = @ \cup written]
        /\ WorkerDid(c, h, ids, TRUE)
  <2>1. PICK written \in SUBSET worker[c].ids :
           /\ store' = [store EXCEPT ![call[c].scope] = @ \cup written]
           /\ \/ \E named \in SUBSET store[call[c].scope] : \E h : WorkerDid(c, h, written \cup named, TRUE)
              \/ \E h : WorkerDid(c, h, {}, TRUE)
    BY DEF AddCommits
  <2>2. {} \in SUBSET store[call[c].scope]
    OBVIOUS
  <2>3. QED
    BY <2>1, <2>2
<1>. PICK written \in SUBSET worker[c].ids, named \in SUBSET store[call[c].scope] :
        \E h, ids : /\ ids \in {written \cup named, {}}
                   /\ store' = [store EXCEPT ![call[c].scope] = @ \cup written]
                   /\ WorkerDid(c, h, ids, TRUE)
  BY <1>2
<1>2a. PICK h, ids :
        /\ ids \in {written \cup named, {}}
        /\ store' = [store EXCEPT ![call[c].scope] = @ \cup written]
        /\ WorkerDid(c, h, ids, TRUE)
  OBVIOUS
<1> DEFINE found == {m.fact : m \in written}
<1>3. \A m \in written : m \in MemoryId /\ m.by = c /\ m.n = call[c].n
                           /\ m.fact \notin FactsIn(call[c].scope)
  BY <1>1, <1>2a DEF ChosenIsNew, Worker
<1>4. found \subseteq Facts
  BY <1>3 DEF MemoryId
<1>5. \A m \in written : m = [fact |-> m.fact, by |-> c, n |-> call[c].n]
  BY <1>3 DEF MemoryId
<1>6. AMO!Fresh(c, found) = written
  BY <1>3, <1>5 DEF AMO!Fresh, FactsIn
<1>7. /\ PhaseBar[c] = "pending"
      /\ PhaseBar' = [PhaseBar EXCEPT ![c] = "applied"]
      /\ IdsBar' = [IdsBar EXCEPT ![c] = ids]
      /\ IdsBar[c] = {}
  BY <1>1, <1>2a, DidApplies
<1> HIDE DEF found
<1>8. IdsBar' \in {IdsBar, [IdsBar EXCEPT ![c] = written \cup named]}
  <2>1. CASE ids = written \cup named
    BY <1>7, <2>1
  <2>2. CASE ids = {}
    BY <1>7, <2>2 DEF IdsBar
  <2>3. QED
    BY <1>2a, <2>1, <2>2
<1>9. AMO!Insert(c)
  BY <1>1, <1>2a, <1>4, <1>6, <1>8 DEF AMO!Insert, IdsBar, Ids
<1>10. AMO!Apply(c)
  BY <1>1, <1>7, <1>9 DEF AMO!Apply, PhaseBar
<1>11. QED
  BY <1>10 DEF AMO!Next

(* The ways an operation ends without adding: nothing is found, the scope   *)
(* is cleared or some of it, or nothing changes.                            *)
LEMMA OperationRefines ==
    ASSUME RefinementInv, NEW c \in Callers,
           AddWritesNothing(c) \/ RunSearch(c) \/ RunInspect(c) \/ RunClear(c)
    PROVE  AMO!Next
<1> USE DEF RefinementInv, TypeInv, TypeOK
<1>1. PICK h : WorkerDid(c, h, {}, TRUE)
  BY DEF AddWritesNothing, RunSearch, RunInspect, RunClear
<1>2. /\ pc[c] = "op"
      /\ pc' = [pc EXCEPT ![c] = "reply"]
      /\ call' = call
      /\ result' = result
  BY DEF AddWritesNothing, RunSearch, RunInspect, RunClear, Goto
<1>3. /\ PhaseBar[c] = "pending"
      /\ PhaseBar' = [PhaseBar EXCEPT ![c] = "applied"]
      /\ IdsBar' = [IdsBar EXCEPT ![c] = {}]
      /\ IdsBar[c] = {}
  BY <1>1, <1>2, DidApplies
<1>4. IdsBar' = IdsBar
  BY <1>3 DEF IdsBar
<1>5. call[c].scope \in Scopes
  BY DEF Call
<1>6. ASSUME AddWritesNothing(c) PROVE AMO!Insert(c)
  <2>1. AMO!Fresh(c, {}) = {}
    BY DEF AMO!Fresh
  <2>2. store' = [store EXCEPT ![call[c].scope] = @ \cup {}]
    BY <1>5, <1>6 DEF AddWritesNothing
  <2>3. call[c].op = "add"
    BY <1>6 DEF AddWritesNothing
  <2>4. QED
    BY <1>4, <2>1, <2>2, <2>3 DEF AMO!Insert, IdsBar, Ids
<1>7. ASSUME RunClear(c) PROVE AMO!Wipe(c)
  BY <1>4, <1>7 DEF RunClear, AMO!Wipe, IdsBar, Ids
<1>8. ASSUME RunSearch(c) \/ RunInspect(c) PROVE AMO!Leave(c)
  BY <1>4, <1>8 DEF RunSearch, RunInspect, AMO!Leave, IdsBar, Ids
<1>9. AMO!Insert(c) \/ AMO!Wipe(c) \/ AMO!Leave(c)
  BY <1>6, <1>7, <1>8
<1>10. AMO!Apply(c)
  BY <1>2, <1>3, <1>9 DEF AMO!Apply, PhaseBar
<1>11. QED
  BY <1>10 DEF AMO!Next

(* The wrapper returns: with the ids only if the worker has finished.       *)
LEMMA ReturnRefines ==
    ASSUME RefinementInv, NEW c \in Callers, Collect(c) \/ Kill(c)
    PROVE  AMO!Next
<1> USE DEF RefinementInv, TypeInv, TypeOK
<1>1. \E h : \E ok \in BOOLEAN : Return(c, h, ok) /\ (ok => worker[c].reply = "ok")
  <2>1. CASE Collect(c)
    BY <2>1 DEF Collect
  <2>2. CASE Kill(c)
    BY <2>2 DEF Kill
  <2>3. QED
    BY <2>1, <2>2
<1>2. PICK h : \E ok \in BOOLEAN : Return(c, h, ok) /\ (ok => worker[c].reply = "ok")
  BY <1>1
<1>3. PICK ok \in BOOLEAN : Return(c, h, ok) /\ (ok => worker[c].reply = "ok")
  BY <1>2
<1>4. pc[c] # "idle"
  BY DEF Collect, Kill
<1>5. \A d \in Callers : d # c => worker'[d] = worker[d] /\ pc'[d] = pc[d]
  BY <1>3 DEF Return, Goto
<1>6. Phase(c) # "idle" /\ Phase(c)' = "idle" /\ Ids(c)' = {}
  BY <1>3, <1>4 DEF Return, Goto, Phase, Ids, NoWorker
<1>7. PhaseBar' = [PhaseBar EXCEPT ![c] = "idle"] /\ IdsBar' = [IdsBar EXCEPT ![c] = {}]
  BY <1>5, <1>6, OneCaller
<1>8. ok => worker[c].done
  BY <1>3 DEF PhaseInv
<1>9. ok => Phase(c) = "applied" /\ Ids(c) = worker[c].ids
  BY <1>4, <1>8 DEF Phase, Ids
<1>10. /\ result' = [result EXCEPT
                      ![c] = [ok |-> ok, ids |-> IF ok THEN worker[c].ids ELSE {}]]
       /\ call' = call
       /\ store' = store
  BY <1>3 DEF Return
<1>11. /\ PhaseBar[c] # "idle"
       /\ ok => PhaseBar[c] = "applied"
       /\ result' = [result EXCEPT ![c] = [ok |-> ok, ids |-> IF ok THEN IdsBar[c] ELSE {}]]
  BY <1>6, <1>9, <1>10 DEF PhaseBar, IdsBar
<1>12. AMO!Return(c)
  BY <1>7, <1>10, <1>11 DEF AMO!Return, PhaseBar, IdsBar, Ids
<1>13. QED
  BY <1>12 DEF AMO!Next

(* Starting up, waiting for the locks, dying early, choosing what to store, *)
(* printing the reply and the passage of time are invisible.                *)
LEMMA InvisibleStutters ==
    ASSUME TypeOK, PhaseInv,
           call' = call, store' = store, result' = result,
           \A d \in Callers :
              /\ pc'[d] = "idle" <=> pc[d] = "idle"
              /\ worker'[d].done = worker[d].done
              /\ worker[d].done => worker'[d].ids = worker[d].ids
    PROVE  UNCHANGED AMO!vars
<1>1. \A d \in Callers : Phase(d)' = Phase(d) /\ Ids(d)' = Ids(d)
  BY DEF Phase, Ids
<1>2. PhaseBar' = PhaseBar /\ IdsBar' = IdsBar
  BY <1>1 DEF PhaseBar, IdsBar
<1>3. QED
  BY <1>2 DEF AMO!vars, PhaseBar, IdsBar, Ids

(* Every step is a step of the atomic store, or invisible.                  *)
LEMMA RefinementStep == RefinementInv /\ [Next]_vars => [AMO!Next]_(AMO!vars)
<1> SUFFICES ASSUME RefinementInv, [Next]_vars PROVE AMO!Next \/ UNCHANGED AMO!vars
  OBVIOUS
<1> DEFINE Invisible ==
      /\ call' = call /\ store' = store /\ result' = result
      /\ \A d \in Callers :
            /\ pc'[d] = "idle" <=> pc[d] = "idle"
            /\ worker'[d].done = worker[d].done
            /\ worker[d].done => worker'[d].ids = worker[d].ids
<1> USE DEF RefinementInv, TypeInv, TypeOK, Goto
<1>1. ASSUME NEW c \in Callers, NEW reply, pc[c] # "idle", Exit(c, reply) PROVE Invisible
  BY <1>1 DEF Exit, Worker
<1>2. ASSUME NEW c \in Callers,
             ImportFails(c) \/ GiveUp(c) \/ InitConflicts(c) \/ InitFails(c) \/ OpRaises(c)
      PROVE  Invisible
  BY <1>1, <1>2 DEF ImportFails, GiveUp, InitConflicts, InitFails, OpRaises
<1>3. ASSUME NEW c \in Callers, ImportSucceeds(c) \/ Acquire(c) PROVE Invisible
  BY <1>3 DEF ImportSucceeds, Acquire
<1>4. ASSUME NEW c \in Callers, InitSucceeds(c) PROVE Invisible
  BY <1>4 DEF InitSucceeds, Worker
<1>5. ASSUME NEW c \in Callers, AddExtracts(c) PROVE Invisible
  <2>1. pc[c] = "op" /\ pc' = [pc EXCEPT ![c] = "commit"] /\ UNCHANGED <<call, store, result>>
    BY <1>5 DEF AddExtracts
  <2>2. PICK h, ids : WorkerDid(c, h, ids, FALSE)
    BY <1>5 DEF AddExtracts
  <2>3. ~worker[c].done /\ ~worker'[c].done
    BY <2>1, <2>2 DEF WorkerDid, Worker, PhaseInv
  <2>4. \A d \in Callers : d # c => worker'[d] = worker[d]
    BY <2>2 DEF WorkerDid
  <2>5. worker[c].done \in BOOLEAN /\ worker'[c].done = FALSE
    BY <2>2 DEF WorkerDid, Worker
  <2>6. QED
    BY <2>1, <2>3, <2>4, <2>5
<1>6. ASSUME NEW c \in Callers, PrintReply(c) PROVE Invisible
  <2>1. PICK reply, h : worker' = [worker EXCEPT ![c].reply = reply, ![c].h = h]
    BY <1>6 DEF PrintReply
  <2>2. \A d \in Callers : worker'[d].done = worker[d].done /\ worker'[d].ids = worker[d].ids
    BY <2>1 DEF Worker
  <2>3. QED
    BY <1>6, <2>2 DEF PrintReply
<1>7. ASSUME NEW d \in Outsiders, OutsiderOpens(d) \/ OutsiderCloses(d) PROVE Invisible
  BY <1>7 DEF OutsiderOpens, OutsiderCloses
<1>8. CASE Tick \/ UNCHANGED vars
  BY <1>8, InvisibleStutters DEF Tick, vars
<1>9. QED
  BY <1>2, <1>3, <1>4, <1>5, <1>6, <1>7, <1>8, InvisibleStutters, SpawnRefines,
     CommitRefines, OperationRefines, ReturnRefines
  DEF Next, WorkerStep, WrapperStep

(***************************************************************************)
(* With its workers, locks, timeouts and kills the protocol is an atomic   *)
(* store to its callers: a call takes effect at most once and before it    *)
(* returns, and an ok add reports only what its scope then holds.          *)
(***************************************************************************)
THEOREM Implements == Spec => AtMostOnce
<1>1. Init => AMO!Init
  BY ParameterAssumption DEF Init, AMO!Init, Phase, NoWorker, NoResult, AMO!NoResult
<1>2. RefinementInv /\ [Next]_vars => [AMO!Next]_(AMO!vars)
  BY RefinementStep
<1>3. TypeInv /\ ChosenIsNew /\ PhaseInv => RefinementInv
  BY DEF RefinementInv
<1>4. QED
  BY <1>1, <1>2, <1>3, TypeInvariant, StoreInvariant, PhaseInvariant, PTL
  DEF Spec, AtMostOnce, AMO!Spec

-----------------------------------------------------------------------------
(* The budget of the timeouts.                                             *)

\* How many ticks a caller's only call has kept the flock, or may be taken to
\* have kept it when it is over: nobody has the flock for longer.
Turn(d) ==
    IF call[d].n = 0 \/ pc[d] \in {"import", "poll"} THEN 0
    ELSE IF pc[d] \in Critical THEN age[d] - since[d]
    ELSE MaxHold

\* The ticks of all the others, told apart: their number is the sum of turns.
Turns(c) == {p \in (Callers \ {c}) \X (1..MaxHold) : p[2] <= Turn(p[1])}

Others == (Cardinality(Callers) - 1) * MaxHold

\* A caller waits no longer than the others have had their turns.
OnTime(c) ==
    /\ pc[c] # "idle" => call[c].n = 1
    /\ pc[c] = "import" => age[c] <= MaxImport
    /\ pc[c] = "poll" => /\ since[c] <= MaxImport
                         /\ since[c] <= age[c]
                         /\ age[c] - since[c] <= Cardinality(Turns(c))
    /\ pc[c] \in Critical => /\ since[c] <= age[c]
                             /\ since[c] <= MaxImport + Others
                             /\ age[c] - since[c] <= MaxHold
    /\ pc[c] = "exited" => age[c] <= MaxImport + Others + MaxHold

BudgetInv == WithinBudget /\ ~overstayed => \A c \in Callers : OnTime(c)

(* Turns are numbers, and those of the others fit into their share. *)
LEMMA TurnsBounded ==
    ASSUME IsFiniteSet(Callers), NEW c \in Callers
    PROVE  /\ IsFiniteSet(Turns(c))
           /\ Cardinality(Turns(c)) \in Nat
           /\ Others \in Nat
           /\ Cardinality(Turns(c)) <= Others
<1> DEFINE rest == Callers \ {c}
           ticks == 1..MaxHold
<1>1. MaxHold \in Nat
  BY ParameterAssumption
<1>2. IsFiniteSet(rest) /\ Cardinality(rest) = Cardinality(Callers) - 1 /\ Cardinality(rest) \in Nat
  BY FS_RemoveElement, FS_CardinalityType
<1>3. IsFiniteSet(ticks) /\ Cardinality(ticks) = MaxHold
  <2>1. IsFiniteSet(ticks) /\ Cardinality(ticks) = IF 1 > MaxHold THEN 0 ELSE MaxHold - 1 + 1
    BY <1>1, FS_Interval
  <2>2. QED
    BY <1>1, <2>1
<1> HIDE DEF rest, ticks
<1>4. /\ IsFiniteSet(rest \X ticks)
      /\ Cardinality(rest \X ticks) = Cardinality(rest) * Cardinality(ticks)
  BY <1>2, <1>3, FS_Product
<1>5. Cardinality(rest \X ticks) = Others
  BY <1>2, <1>3, <1>4 DEF Others
<1>6. Turns(c) \in SUBSET (rest \X ticks)
  BY DEF Turns, rest, ticks
<1>7. IsFiniteSet(Turns(c)) /\ Cardinality(Turns(c)) <= Cardinality(rest \X ticks)
  BY <1>4, <1>6, FS_Subset
<1>8. QED
  BY <1>4, <1>5, <1>7, FS_CardinalityType

LEMMA TurnType ==
    ASSUME TypeOK, NEW d \in Callers
    PROVE  Turn(d) \in Int
<1>1. age[d] \in Nat /\ since[d] \in Nat /\ MaxHold \in Nat
  BY ParameterAssumption DEF TypeOK
<1>2. QED
  BY <1>1 DEF Turn

(* When no turn gets shorter, the ticks of the others do not get fewer. *)
LEMMA TurnsGrow ==
    ASSUME IsFiniteSet(Callers), TypeOK, TypeOK', NEW c \in Callers,
           \A d \in Callers : Turn(d) <= Turn(d)'
    PROVE  /\ Turns(c) \subseteq Turns(c)'
           /\ Cardinality(Turns(c)) <= Cardinality(Turns(c)')
           /\ Cardinality(Turns(c)') \in Nat
<1>1. ASSUME NEW p \in (Callers \ {c}) \X (1..MaxHold), p[2] <= Turn(p[1])
      PROVE  p[2] <= Turn(p[1])'
  <2>1. p[1] \in Callers /\ p[2] \in Int
    OBVIOUS
  <2>2. PICK d \in Callers : d = p[1]
    BY <2>1
  <2>3. Turn(d) \in Int /\ Turn(d)' \in Int /\ Turn(d) <= Turn(d)'
    <3>1. Turn(d) \in Int
      BY TurnType
    <3>2. age'[d] \in Nat /\ since'[d] \in Nat /\ MaxHold \in Nat
      BY ParameterAssumption DEF TypeOK
    <3>3. Turn(d)' \in Int
      BY <3>2 DEF Turn
    <3>4. QED
      BY <3>1, <3>3
  <2>4. p[2] <= Turn(d)
    BY <1>1, <2>2
  <2>5. p[2] <= Turn(d)'
    BY <2>1, <2>3, <2>4
  <2>6. QED
    BY <2>2, <2>5 DEF Turn
<1>2. Turns(c) \subseteq Turns(c)'
  BY <1>1 DEF Turns
<1>3. IsFiniteSet(Turns(c)') /\ Cardinality(Turns(c)') \in Nat
  <2>1. IsFiniteSet(Callers \ {c}) /\ IsFiniteSet(1..MaxHold)
    BY ParameterAssumption, FS_RemoveElement, FS_Interval
  <2>2. IsFiniteSet((Callers \ {c}) \X (1..MaxHold))
    BY <2>1, FS_Product
  <2>3. Turns(c)' \subseteq (Callers \ {c}) \X (1..MaxHold)
    BY DEF Turns
  <2>4. QED
    BY <2>2, <2>3, FS_Subset, FS_CardinalityType
<1>4. Cardinality(Turns(c)) <= Cardinality(Turns(c)')
  BY <1>2, <1>3, FS_Subset
<1>5. QED
  BY <1>2, <1>3, <1>4

\* What a step of a caller or its worker does to the place and the clocks of
\* the call.
Moves(c) ==
    \/ /\ pc[c] = "idle" /\ pc'[c] = "import"
       /\ call[c].n = 0 /\ call'[c].n = 1 /\ age'[c] = 0
    \/ /\ pc[c] = "import" /\ pc'[c] = "poll"
       /\ call'[c].n = call[c].n /\ age'[c] = age[c] /\ since'[c] = age[c]
    \/ /\ pc[c] = "poll" /\ pc'[c] = "init"
       /\ call'[c].n = call[c].n /\ age'[c] = age[c] /\ since'[c] = age[c]
    \/ /\ pc[c] \in Critical /\ pc'[c] \in Critical
       /\ call'[c].n = call[c].n /\ age'[c] = age[c] /\ since'[c] = since[c]
    \/ /\ pc[c] \in {"import", "poll"} \cup Critical /\ pc'[c] = "exited"
       /\ call'[c].n = call[c].n /\ age'[c] = age[c]
    \/ pc[c] # "idle" /\ pc'[c] = "idle" /\ call'[c].n = call[c].n

LEMMA CallerMoves ==
    ASSUME TypeOK, MaxCalls = 1, NEW c \in Callers, WorkerStep(c) \/ WrapperStep(c)
    PROVE  /\ Moves(c)
           /\ \A d \in Callers \ {c} : /\ pc'[d] = pc[d] /\ call'[d].n = call[d].n
                                       /\ age'[d] = age[d] /\ since'[d] = since[d]
<1> USE DEF TypeOK, Goto, Moves, Critical
<1>1. ASSUME NEW reply, Exit(c, reply), pc[c] \in {"import", "poll"} \cup Critical PROVE Moves(c)
  BY <1>1 DEF Exit
<1>2. CASE ImportSucceeds(c)
  BY <1>2 DEF ImportSucceeds
<1>3. CASE ImportFails(c) \/ GiveUp(c) \/ InitConflicts(c) \/ InitFails(c) \/ OpRaises(c)
  BY <1>3 DEF ImportFails, GiveUp, InitConflicts, InitFails, OpRaises, Exit
<1>4. CASE Acquire(c)
  BY <1>4 DEF Acquire
<1>5. CASE InitSucceeds(c)
  BY <1>5 DEF InitSucceeds
<1>6. CASE AddExtracts(c) \/ AddWritesNothing(c) \/ AddCommits(c)
  BY <1>6 DEF AddExtracts, AddWritesNothing, AddCommits
<1>7. CASE RunSearch(c) \/ RunInspect(c) \/ RunClear(c)
  BY <1>7 DEF RunSearch, RunInspect, RunClear
<1>8. CASE PrintReply(c)
  BY <1>8 DEF PrintReply
<1>9. ASSUME NEW op \in Ops, NEW s \in Scopes, Spawn(c, op, s)
      PROVE  /\ Moves(c)
             /\ \A d \in Callers \ {c} : /\ pc'[d] = pc[d] /\ call'[d].n = call[d].n
                                         /\ age'[d] = age[d] /\ since'[d] = since[d]
  <2>1. call[c].n \in Nat /\ call[c].n < 1
    BY <1>9 DEF Spawn, Call
  <2>2. call[c].n = 0 /\ call'[c].n = call[c].n + 1
    BY <1>9, <2>1 DEF Spawn
  <2>3. QED
    BY <1>9, <2>2 DEF Spawn
<1>10. CASE Collect(c)
  BY <1>10 DEF Collect, Return
<1>11. CASE Kill(c)
  BY <1>11 DEF Kill, Return
<1>12. QED
  BY <1>2, <1>3, <1>4, <1>5, <1>6, <1>7, <1>8, <1>9, <1>10, <1>11 DEF WorkerStep, WrapperStep

(* No step shortens a turn. *)
LEMMA MovesLengthen ==
    ASSUME TypeOK, TypeOK', NEW c \in Callers, OnTime(c), Moves(c)
    PROVE  Turn(c) <= Turn(c)'
<1>1. /\ age[c] \in Nat /\ since[c] \in Nat /\ MaxHold \in Nat
      /\ age'[c] \in Nat /\ since'[c] \in Nat
  BY ParameterAssumption DEF TypeOK
<1>2. QED
  BY <1>1 DEF Turn, Moves, OnTime, Critical

(* A caller that moves stays on time. *)
LEMMA MovesOnTime ==
    ASSUME IsFiniteSet(Callers), TypeOK, TypeOK', NEW c \in Callers, OnTime(c), Moves(c)
    PROVE  OnTime(c)'
<1>1. /\ age[c] \in Nat /\ since[c] \in Nat /\ {MaxHold, MaxImport} \subseteq Nat
      /\ age'[c] \in Nat /\ since'[c] \in Nat
  BY ParameterAssumption DEF TypeOK
<1> DEFINE n == Cardinality(Turns(c))
           m == Cardinality(Turns(c)')
<1>2. n \in Nat /\ Others \in Nat /\ n <= Others
  BY TurnsBounded
<1>3. m \in Nat
  <2>1. IsFiniteSet(Callers \ {c}) /\ IsFiniteSet(1..MaxHold)
    BY ParameterAssumption, FS_RemoveElement, FS_Interval
  <2>2. IsFiniteSet((Callers \ {c}) \X (1..MaxHold))
    BY <2>1, FS_Product
  <2>3. Turns(c)' \subseteq (Callers \ {c}) \X (1..MaxHold)
    BY DEF Turns
  <2>4. QED
    BY <2>2, <2>3, FS_Subset, FS_CardinalityType
<1>4. OnTime(c)' = (
        /\ pc'[c] # "idle" => call'[c].n = 1
        /\ pc'[c] = "import" => age'[c] <= MaxImport
        /\ pc'[c] = "poll" => /\ since'[c] <= MaxImport
                              /\ since'[c] <= age'[c]
                              /\ age'[c] - since'[c] <= m
        /\ pc'[c] \in Critical => /\ since'[c] <= age'[c]
                                  /\ since'[c] <= MaxImport + Others
                                  /\ age'[c] - since'[c] <= MaxHold
        /\ pc'[c] = "exited" => age'[c] <= MaxImport + Others + MaxHold)
  BY DEF OnTime, Others
<1>5. /\ pc[c] # "idle" => call[c].n = 1
      /\ pc[c] = "import" => age[c] <= MaxImport
      /\ pc[c] = "poll" => /\ since[c] <= MaxImport
                           /\ since[c] <= age[c]
                           /\ age[c] - since[c] <= n
      /\ pc[c] \in Critical => /\ since[c] <= age[c]
                               /\ since[c] <= MaxImport + Others
                               /\ age[c] - since[c] <= MaxHold
  BY DEF OnTime
<1> HIDE DEF n, m
<1>6. QED
  BY <1>1, <1>2, <1>3, <1>4, <1>5 DEF Moves, Critical

(* Neither a caller's step nor a tick makes anyone late. *)
LEMMA CallersOnTime ==
    ASSUME IsFiniteSet(Callers), TypeOK, TypeOK', MaxCalls = 1,
           \A d \in Callers : OnTime(d),
           NEW c \in Callers, WorkerStep(c) \/ WrapperStep(c)
    PROVE  \A d \in Callers : OnTime(d)'
<1>1. /\ Moves(c)
      /\ \A d \in Callers \ {c} : /\ pc'[d] = pc[d] /\ call'[d].n = call[d].n
                                  /\ age'[d] = age[d] /\ since'[d] = since[d]
  BY CallerMoves
<1>2. ASSUME NEW d \in Callers PROVE Turn(d) <= Turn(d)'
  <2>1. CASE d = c
    BY <1>1, <2>1, MovesLengthen
  <2>2. CASE d # c
    <3>1. Turn(d)' = Turn(d)
      BY <1>1, <2>2 DEF Turn
    <3>2. Turn(d) \in Int
      BY TurnType
    <3>3. QED
      BY <3>1, <3>2
  <2>3. QED
    BY <2>1, <2>2
<1>3. ASSUME NEW d \in Callers, d # c PROVE OnTime(d)'
  <2>1. /\ Cardinality(Turns(d)) <= Cardinality(Turns(d)')
        /\ Cardinality(Turns(d)') \in Nat
    BY <1>2, TurnsGrow
  <2>2. Cardinality(Turns(d)) \in Nat
    BY TurnsBounded
  <2> DEFINE n == Cardinality(Turns(d))
             m == Cardinality(Turns(d)')
  <2>3. OnTime(d)' = (
          /\ pc'[d] # "idle" => call'[d].n = 1
          /\ pc'[d] = "import" => age'[d] <= MaxImport
          /\ pc'[d] = "poll" => /\ since'[d] <= MaxImport
                                /\ since'[d] <= age'[d]
                                /\ age'[d] - since'[d] <= m
          /\ pc'[d] \in Critical => /\ since'[d] <= age'[d]
                                    /\ since'[d] <= MaxImport + Others
                                    /\ age'[d] - since'[d] <= MaxHold
          /\ pc'[d] = "exited" => age'[d] <= MaxImport + Others + MaxHold)
    BY DEF OnTime, Others
  <2>4. OnTime(d) = (
          /\ pc[d] # "idle" => call[d].n = 1
          /\ pc[d] = "import" => age[d] <= MaxImport
          /\ pc[d] = "poll" => /\ since[d] <= MaxImport
                               /\ since[d] <= age[d]
                               /\ age[d] - since[d] <= n
          /\ pc[d] \in Critical => /\ since[d] <= age[d]
                                   /\ since[d] <= MaxImport + Others
                                   /\ age[d] - since[d] <= MaxHold
          /\ pc[d] = "exited" => age[d] <= MaxImport + Others + MaxHold)
    BY DEF OnTime
  <2>5. OnTime(d) /\ age[d] \in Nat /\ since[d] \in Nat
    BY DEF TypeOK
  <2> HIDE DEF n, m
  <2>6. n \in Nat /\ m \in Nat /\ n <= m
    BY <2>1, <2>2 DEF n, m
  <2>7. age[d] - since[d] <= n => age[d] - since[d] <= m
    BY <2>5, <2>6
  <2>8. QED
    BY <1>1, <1>3, <2>3, <2>4, <2>5, <2>7
<1>4. OnTime(c)'
  BY <1>1, MovesOnTime
<1>5. QED
  BY <1>3, <1>4

LEMMA TickOnTime ==
    ASSUME IsFiniteSet(Callers), TypeOK, TypeOK', LocksFollowLife,
           \A d \in Callers : OnTime(d), Tick, \A d \in Callers : ~Overstays(d)
    PROVE  \A d \in Callers : OnTime(d)'
<1>1. {MaxHold, MaxImport} \subseteq Nat
  BY ParameterAssumption
<1>2. ASSUME NEW d \in Callers
      PROVE  /\ age[d] \in Nat /\ since[d] \in Nat
             /\ age'[d] = (IF pc[d] = "idle" THEN 0 ELSE age[d] + 1)
             /\ pc'[d] = pc[d] /\ call'[d] = call[d] /\ since'[d] = since[d]
             /\ pc[d] # "exited"
             /\ pc[d] = "import" => age[d] < MaxImport
             /\ pc[d] = "poll" => lock # None
             /\ pc[d] \in Critical => age[d] - since[d] < MaxHold
  <2>1. age[d] \in Nat /\ since[d] \in Nat
    BY DEF TypeOK
  <2>2. ~Overstays(d)
    OBVIOUS
  <2>3. /\ pc[d] = "import" => age[d] < MaxImport
        /\ pc[d] \in Critical => age[d] - since[d] < MaxHold
    BY <1>1, <2>1, <2>2 DEF Overstays
  <2>4. QED
    BY <2>1, <2>3 DEF Tick, TypeOK
<1>3. ASSUME NEW d \in Callers
      PROVE  /\ Turn(d) <= Turn(d)'
             /\ pc[d] \in Critical => /\ Turn(d) = age[d] - since[d]
                                      /\ Turn(d)' = age[d] - since[d] + 1
  <2>1. pc[d] \in Critical => pc[d] \notin {"import", "poll", "idle"}
    BY DEF Critical
  <2>2. call[d].n = 1 \/ pc[d] = "idle"
    BY DEF OnTime
  <2>3. CASE pc[d] \in Critical
    BY <1>1, <1>2, <2>1, <2>2, <2>3 DEF Turn
  <2>4. CASE pc[d] \notin Critical
    BY <1>1, <1>2, <2>4 DEF Turn
  <2>5. QED
    BY <2>3, <2>4
<1>4. ASSUME NEW d \in Callers, pc[d] = "poll"
      PROVE  Cardinality(Turns(d)) + 1 <= Cardinality(Turns(d)')
  <2>1. PICK h \in Callers : h = lock /\ pc[h] \in Critical
    BY <1>2, <1>4 DEF TypeOK, LocksFollowLife
  <2>2. h # d
    BY <1>4, <2>1 DEF Critical
  <2> DEFINE t == Turn(h) + 1
             p == <<h, t>>
  <2>3. /\ Turn(h) = age[h] - since[h] /\ Turn(h)' = age[h] - since[h] + 1
        /\ since[h] <= age[h] /\ age[h] - since[h] < MaxHold
        /\ age[h] \in Nat /\ since[h] \in Nat
    BY <1>2, <1>3, <2>1 DEF OnTime
  <2>4. t \in 1..MaxHold /\ t = Turn(h)' /\ ~(t <= Turn(h)) /\ t <= t
    BY <1>1, <2>3
  <2> HIDE DEF t
  <2>5. p \in (Callers \ {d}) \X (1..MaxHold) /\ p[1] = h /\ p[2] = t
    BY <2>2, <2>4
  <2>6. p \notin Turns(d)
    BY <2>4, <2>5 DEF Turns
  <2>7. p \in Turns(d)'
    <3>1. Turns(d)' = {q \in (Callers \ {d}) \X (1..MaxHold) : q[2] <= Turn(q[1])'}
      BY DEF Turns
    <3>2. p[2] <= Turn(p[1])'
      BY <2>4, <2>5 DEF Turn
    <3>3. QED
      BY <2>5, <3>1, <3>2
  <2>8. Turns(d) \subseteq Turns(d)'
    BY <1>3, TurnsGrow
  <2>9. IsFiniteSet(Turns(d)) /\ IsFiniteSet(Turns(d)')
    <3>1. IsFiniteSet(Callers \ {d}) /\ IsFiniteSet(1..MaxHold)
      BY <1>1, FS_RemoveElement, FS_Interval
    <3>2. IsFiniteSet((Callers \ {d}) \X (1..MaxHold))
      BY <3>1, FS_Product
    <3>3. Turns(d)' \subseteq (Callers \ {d}) \X (1..MaxHold)
      BY DEF Turns
    <3>4. QED
      BY <3>2, <3>3, FS_Subset, TurnsBounded
  <2>10. Cardinality(Turns(d) \cup {p}) = Cardinality(Turns(d)) + 1
    BY <2>6, <2>9, FS_AddElement
  <2>11. Turns(d) \cup {p} \subseteq Turns(d)'
    BY <2>7, <2>8
  <2>12. Cardinality(Turns(d) \cup {p}) <= Cardinality(Turns(d)')
    BY <2>9, <2>11, FS_Subset
  <2>13. QED
    BY <2>10, <2>12
<1>5. ASSUME NEW d \in Callers PROVE OnTime(d)'
  <2> DEFINE n == Cardinality(Turns(d))
             m == Cardinality(Turns(d)')
  <2>1. n \in Nat /\ m \in Nat
    BY <1>3, TurnsBounded, TurnsGrow
  <2>2. OnTime(d)' = (
          /\ pc'[d] # "idle" => call'[d].n = 1
          /\ pc'[d] = "import" => age'[d] <= MaxImport
          /\ pc'[d] = "poll" => /\ since'[d] <= MaxImport
                                /\ since'[d] <= age'[d]
                                /\ age'[d] - since'[d] <= m
          /\ pc'[d] \in Critical => /\ since'[d] <= age'[d]
                                    /\ since'[d] <= MaxImport + Others
                                    /\ age'[d] - since'[d] <= MaxHold
          /\ pc'[d] = "exited" => age'[d] <= MaxImport + Others + MaxHold)
    BY DEF OnTime, Others
  <2>3. /\ pc[d] # "idle" => call[d].n = 1
        /\ pc[d] = "poll" => /\ since[d] <= MaxImport
                             /\ since[d] <= age[d]
                             /\ age[d] - since[d] <= n
        /\ pc[d] \in Critical => /\ since[d] <= age[d]
                                 /\ since[d] <= MaxImport + Others
    BY DEF OnTime
  <2>4. pc[d] = "poll" => n + 1 <= m
    BY <1>4
  <2> HIDE DEF n, m
  <2>5. pc[d] = "idle" => pc[d] \notin Critical
    BY DEF Critical
  <2>6. /\ age'[d] <= MaxImport \/ pc[d] # "import"
        /\ pc[d] # "poll" \/ age'[d] - since'[d] <= m
        /\ pc[d] # "poll" \/ since'[d] <= age'[d]
        /\ pc[d] \notin Critical \/ (since'[d] <= age'[d] /\ age'[d] - since'[d] <= MaxHold)
    <3>1. CASE pc[d] = "idle"
      BY <1>1, <1>2, <2>5, <3>1
    <3>2. CASE pc[d] # "idle"
      <4>1. age'[d] = age[d] + 1 /\ since'[d] = since[d] /\ age[d] \in Nat /\ since[d] \in Nat
        BY <1>2, <3>2
      <4>2. pc[d] = "import" => age[d] < MaxImport
        BY <1>2
      <4>3. pc[d] \in Critical => age[d] - since[d] < MaxHold
        BY <1>2
      <4>4. QED
        BY <1>1, <2>1, <2>3, <2>4, <4>1, <4>2, <4>3
    <3>3. QED
      BY <3>1, <3>2
  <2>7. QED
    BY <1>2, <2>2, <2>3, <2>6
<1>6. QED
  BY <1>5

LEMMA BudgetStep ==
    ASSUME IsFiniteSet(Callers), TypeOK, TypeOK', LocksFollowLife, BudgetInv, [Next]_vars
    PROVE  BudgetInv'
<1>0. UNCHANGED overstayed \/ Tick
  BY DEF Next, WorkerStep, WrapperStep, ImportSucceeds, ImportFails, Acquire, GiveUp,
         InitSucceeds, InitConflicts, InitFails, OpRaises, AddExtracts, AddWritesNothing,
         AddCommits, RunSearch, RunInspect, RunClear, PrintReply, Exit, Spawn, Collect,
         Kill, Return, OutsiderOpens, OutsiderCloses, vars
<1>a. overstayed => overstayed'
  BY <1>0 DEF Tick
<1> SUFFICES ASSUME WithinBudget, ~overstayed, ~overstayed'
             PROVE  \A d \in Callers : OnTime(d)'
  BY <1>a DEF BudgetInv, WithinBudget
<1>1. MaxCalls = 1 /\ \A d \in Callers : OnTime(d)
  BY DEF BudgetInv, WithinBudget
<1>2. ASSUME NEW c \in Callers, WorkerStep(c) \/ WrapperStep(c)
      PROVE  \A d \in Callers : OnTime(d)'
  BY <1>1, <1>2, CallersOnTime
<1>3. CASE Tick
  <2>1. \A d \in Callers : ~Overstays(d)
    BY <1>3 DEF Tick
  <2>2. QED
    BY <1>1, <1>3, <2>1, TickOnTime
<1>4. ASSUME UNCHANGED <<pc, call, age, since>>
      PROVE  \A d \in Callers : OnTime(d)'
  <2>1. ASSUME NEW d \in Callers PROVE OnTime(d)'
    <3>1. OnTime(d)
      BY <1>1
    <3>2. QED
      BY <1>4, <3>1 DEF OnTime, Turns, Turn, Others
  <2>2. QED
    BY <2>1
<1>5. ASSUME NEW d \in Outsiders, OutsiderOpens(d) \/ OutsiderCloses(d)
      PROVE  UNCHANGED <<pc, call, age, since>>
  BY <1>5 DEF OutsiderOpens, OutsiderCloses
<1>6. QED
  BY <1>2, <1>3, <1>4, <1>5 DEF Next, vars

LEMMA BudgetInit == ASSUME Init PROVE BudgetInv
<1>1. ASSUME NEW d \in Callers PROVE OnTime(d)
  BY DEF Init, OnTime, Critical
<1>2. QED
  BY <1>1 DEF BudgetInv

(* A caller on time has neither waited nor lived too long. *)
LEMMA OnTimeNotLate ==
    ASSUME IsFiniteSet(Callers), TypeOK, WithinBudget, NEW c \in Callers, OnTime(c)
    PROVE  /\ pc[c] = "poll" => age[c] - since[c] < LockTimeout
           /\ pc[c] # "idle" => age[c] < CallTimeout
<1>1. /\ {MaxHold, MaxImport, LockTimeout, CallTimeout} \subseteq Nat
      /\ age[c] \in Nat /\ since[c] \in Nat
  BY ParameterAssumption DEF TypeOK
<1> DEFINE n == Cardinality(Turns(c))
           k == Cardinality(Callers) - 1
<1>2. n \in Nat /\ Others \in Nat /\ n <= Others
  BY TurnsBounded
<1>3. Others < LockTimeout
  BY DEF WithinBudget, Others
<1>4. MaxImport + Others + MaxHold < CallTimeout
  <2>1. k \in Int
    BY FS_CardinalityType
  <2>2. MaxImport + (k + 1) * MaxHold < CallTimeout
    BY DEF WithinBudget
  <2>3. Others = k * MaxHold
    BY DEF Others
  <2> HIDE DEF k
  <2>4. (k + 1) * MaxHold = k * MaxHold + MaxHold
    BY <1>1, <2>1
  <2>5. QED
    BY <1>1, <1>2, <2>2, <2>3, <2>4
<1>5. /\ pc[c] = "import" => age[c] <= MaxImport
      /\ pc[c] = "poll" => /\ since[c] <= MaxImport
                           /\ age[c] - since[c] <= n
      /\ pc[c] \in Critical => /\ since[c] <= MaxImport + Others
                               /\ age[c] - since[c] <= MaxHold
      /\ pc[c] = "exited" => age[c] <= MaxImport + Others + MaxHold
  BY DEF OnTime
<1>6. pc[c] \in {"idle", "import", "poll", "exited"} \cup Critical
  BY DEF TypeOK, PC, Critical
<1> HIDE DEF n
<1>7. QED
  BY <1>1, <1>2, <1>3, <1>4, <1>5, <1>6

(***************************************************************************)
(* N callers with one call each, when N - 1 holds are shorter than the     *)
(* lock timeout, and N of them with the start-up shorter than the call     *)
(* timeout: until a worker has the flock longer than MaxHold or starts up  *)
(* longer than MaxImport, nobody times out on the lock and nobody is       *)
(* killed.                                                                 *)
(***************************************************************************)
THEOREM TimeoutsLeaveRoom == ASSUME IsFiniteSet(Callers) PROVE Spec => NobodyTimesOut
<1> DEFINE A == WithinBudget /\ ~overstayed => \A c \in Callers : ~GiveUp(c) /\ ~Kill(c)
<1>1. Init => BudgetInv
  BY BudgetInit
<1>2. TypeOK /\ TypeOK' /\ LocksFollowLife /\ BudgetInv /\ [Next]_vars => BudgetInv'
  BY BudgetStep
<1>3. TypeOK /\ BudgetInv => A
  <2> SUFFICES ASSUME TypeOK, BudgetInv, WithinBudget, ~overstayed, NEW c \in Callers
               PROVE  ~GiveUp(c) /\ ~Kill(c)
    OBVIOUS
  <2>1. /\ pc[c] = "poll" => age[c] - since[c] < LockTimeout
        /\ pc[c] # "idle" => age[c] < CallTimeout
    BY OnTimeNotLate DEF BudgetInv
  <2>2. /\ age[c] \in Int /\ age[c] - since[c] \in Int
        /\ LockTimeout \in Int /\ CallTimeout \in Int
    BY ParameterAssumption DEF TypeOK
  <2>3. GiveUp(c) => pc[c] = "poll" /\ age[c] - since[c] >= LockTimeout
    BY DEF GiveUp
  <2>4. Kill(c) => pc[c] # "idle" /\ age[c] >= CallTimeout
    BY DEF Kill
  <2>5. QED
    BY <2>1, <2>2, <2>3, <2>4
<1>4. Spec => [][A]_vars
  BY <1>1, <1>2, <1>3, TypeCorrect, LocksNeverLeak, PTL DEF Spec
<1>5. QED
  BY <1>4 DEF NobodyTimesOut

=============================================================================
