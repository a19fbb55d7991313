------------------------- MODULE Mem0BackendProofs -------------------------
(***************************************************************************)
(* Proofs about Mem0Backend, for any scopes, any finite set of facts and   *)
(* any bounds on processes and calls.                                      *)
(***************************************************************************)
EXTENDS Mem0Backend, FiniteSetTheorems, TLAPS

(***************************************************************************)
(* The health record.                                                      *)
(***************************************************************************)

\* What HealthIsHonest says of the record of an open backend.
Honest(h) ==
    /\ h.healthy => h.n_errors = 0
    /\ ~h.healthy => h.error_message
    /\ h.n_silent_extraction_failures > 0 => ~h.healthy

Ops(h) == h.n_adds + h.n_searches

(* A new record is a health record; it is honest when the backend opened, *)
(* and when it did not.                                                   *)
LEMMA FreshRecords ==
    ASSUME NEW opened \in BOOLEAN, NEW h, h = Mem0Init(opened)
    PROVE  /\ FreshHealth \in Health
           /\ Ops(FreshHealth) = 0
           /\ h \in Health
           /\ Honest(h)
           /\ Ops(h) = 0
<1>1. FreshHealth \in Health /\ Ops(FreshHealth) = 0
  BY DEF FreshHealth, Health, Ops
<1>2. CASE opened
  <2>1. h = [FreshHealth EXCEPT !.healthy = TRUE]
    BY <1>2 DEF Mem0Init
  <2>2. h \in Health
    BY <1>1, <2>1 DEF Health
  <2>3. /\ h.n_adds = 0 /\ h.n_searches = 0 /\ h.n_errors = 0
        /\ h.n_silent_extraction_failures = 0
        /\ h.healthy
    BY <2>1 DEF FreshHealth
  <2>4. QED
    BY <1>1, <2>2, <2>3 DEF Honest, Ops
<1>3. CASE ~opened
  <2>1. h = [FreshHealth EXCEPT !.error_message = TRUE]
    BY <1>3 DEF Mem0Init
  <2>2. h \in Health
    BY <1>1, <2>1 DEF Health
  <2>3. /\ h.n_adds = 0 /\ h.n_searches = 0 /\ h.n_errors = 0
        /\ h.n_silent_extraction_failures = 0
        /\ h.error_message
    BY <2>1 DEF FreshHealth
  <2>4. QED
    BY <1>1, <2>2, <2>3 DEF Honest, Ops
<1>4. QED
  BY <1>1, <1>2, <1>3

(* An operation that is recorded is counted; one that went well leaves the *)
(* record honest, one that was refused leaves that of an unhealthy backend  *)
(* honest.                                                                 *)
LEMMA RecordOpFacts ==
    ASSUME NEW h \in Health, NEW k \in {"add", "search"}
    PROVE  /\ RecordOp(h, k, FALSE) \in Health
           /\ Ops(RecordOp(h, k, FALSE)) = Ops(h) + 1
           /\ RecordOp(h, k, FALSE).n_errors = h.n_errors
           /\ RecordOp(h, k, FALSE).healthy = h.healthy
           /\ RecordOp(h, k, TRUE).healthy = h.healthy
           /\ Honest(h) => Honest(RecordOp(h, k, FALSE))
           /\ RecordOp(h, k, TRUE) \in Health
           /\ Ops(RecordOp(h, k, TRUE)) = Ops(h) + 1
           /\ RecordOp(h, k, TRUE).n_errors = h.n_errors + 1
           /\ Honest(h) /\ ~h.healthy => Honest(RecordOp(h, k, TRUE))
<1> DEFINE s == IF k = "search" THEN h.n_searches + 1 ELSE h.n_searches
           a == IF k = "add" THEN h.n_adds + 1 ELSE h.n_adds
           n == h.n_errors + 1
<1>1. /\ s \in Nat /\ a \in Nat /\ n \in Nat
      /\ a + s = Ops(h) + 1
  BY DEF Health, Ops
<1>2. /\ RecordOp(h, k, FALSE) = [h EXCEPT !.n_searches = s, !.n_adds = a]
      /\ RecordOp(h, k, TRUE) = [h EXCEPT !.n_searches = s, !.n_adds = a, !.n_errors = n]
  BY DEF RecordOp, Health
<1> HIDE DEF s, a
<1>3. QED
  BY <1>1, <1>2 DEF Health, Ops, Honest

(* An error that is recorded leaves the backend unhealthy, with a reason. *)
LEMMA RecordErrorFacts ==
    ASSUME NEW h \in Health, NEW silent \in BOOLEAN
    PROVE  /\ RecordError(h, silent) \in Health
           /\ Honest(RecordError(h, silent))
           /\ RecordError(h, silent).n_errors = h.n_errors + 1
           /\ ~RecordError(h, silent).healthy
           /\ Ops(RecordError(h, silent)) = Ops(h)
<1> DEFINE f == IF silent THEN h.n_silent_extraction_failures + 1
                          ELSE h.n_silent_extraction_failures
<1>1. f \in Nat /\ h.n_errors + 1 \in Nat
  BY DEF Health
<1>2. RecordError(h, silent) =
        [h EXCEPT !.n_errors = h.n_errors + 1, !.last_error = TRUE, !.error_message = TRUE,
                  !.n_silent_extraction_failures = f, !.healthy = FALSE]
  BY DEF RecordError, Health
<1> HIDE DEF f
<1>3. QED
  BY <1>1, <1>2 DEF Health, Honest, Ops

(* A count changes neither the health nor the counters of calls and errors. *)
LEMMA CountedFacts ==
    ASSUME NEW h \in Health, Honest(h), NEW n \in Nat, NEW known \in BOOLEAN
    PROVE  /\ Counted(h, n, known) \in Health
           /\ Inspected(h, n, known) \in Health
           /\ Cleared(h, known) \in Health
           /\ Honest(Counted(h, n, known))
           /\ Honest(Inspected(h, n, known))
           /\ Honest(Cleared(h, known))
           /\ Counted(h, n, known).healthy = h.healthy
           /\ Inspected(h, n, known).healthy = h.healthy
           /\ Cleared(h, known).healthy = h.healthy
           /\ Ops(Counted(h, n, known)) = Ops(h)
           /\ Ops(Inspected(h, n, known)) = Ops(h)
           /\ Ops(Cleared(h, known)) = Ops(h)
<1>1. /\ Counted(h, n, known) \in Health
      /\ Honest(Counted(h, n, known))
      /\ Ops(Counted(h, n, known)) = Ops(h)
      /\ Counted(h, n, known).healthy = h.healthy
  BY DEF Health, Counted, Honest, Ops
<1>2. /\ Cleared(h, known) \in Health
      /\ Honest(Cleared(h, known))
      /\ Ops(Cleared(h, known)) = Ops(h)
      /\ Cleared(h, known).healthy = h.healthy
  BY DEF Health, Cleared, Honest, Ops
<1>3. QED
  BY <1>1, <1>2 DEF Inspected

\* What the return of a call makes of the record g of a backend: it counts the
\* call, twice at most and then only to lose the health, and leaves an honest
\* record.
Reported(g, h) ==
    /\ h \in Health
    /\ Honest(h)
    /\ h.healthy => g.healthy
    /\ \/ Ops(h) = Ops(g) + 1
       \/ Ops(h) = Ops(g) + 2 /\ g.healthy /\ ~h.healthy

\* An error was counted and the health is lost.
Flagged(g, h) == h.n_errors > g.n_errors /\ ~h.healthy

(* A record that has counted the call still has when an error is added. *)
LEMMA ErrorReported ==
    ASSUME NEW h \in Health, NEW k \in Health, k.n_errors >= h.n_errors,
           Ops(k) = Ops(h) + 1 \/ (Ops(k) = Ops(h) + 2 /\ h.healthy),
           NEW silent \in BOOLEAN, NEW g, g = RecordError(k, silent)
    PROVE  Reported(h, g) /\ Flagged(h, g)
<1>1. g \in Health /\ Honest(g) /\ g.n_errors = k.n_errors + 1 /\ Ops(g) = Ops(k) /\ ~g.healthy
  BY RecordErrorFacts
<1>2. k.n_errors \in Int /\ h.n_errors \in Int
  BY DEF Health
<1>3. QED
  BY <1>1, <1>2 DEF Reported, Flagged

(* What recording an operation, and an error, makes of a record: all the   *)
(* ways a call can return.                                                 *)
LEMMA Outcomes ==
    ASSUME NEW h \in Health, Honest(h), NEW k \in {"add", "search"}
    PROVE  /\ Reported(h, RecordOp(h, k, FALSE))
           /\ ~h.healthy => /\ Reported(h, RecordOp(h, k, TRUE))
                            /\ Flagged(h, RecordOp(h, k, TRUE))
           /\ Reported(h, RecordError(RecordOp(h, k, TRUE), FALSE))
           /\ Flagged(h, RecordError(RecordOp(h, k, TRUE), FALSE))
           /\ Reported(h, RecordError(RecordOp(h, k, FALSE), TRUE))
           /\ Flagged(h, RecordError(RecordOp(h, k, FALSE), TRUE))
           /\ h.healthy => LET w == RecordError(RecordOp(RecordOp(h, k, FALSE), k, TRUE), FALSE)
                           IN  Reported(h, w) /\ Flagged(h, w)
<1> DEFINE good == RecordOp(h, k, FALSE)
           bad == RecordOp(h, k, TRUE)
           worse == RecordOp(good, k, TRUE)
<1>1. /\ good \in Health /\ Honest(good) /\ Ops(good) = Ops(h) + 1
      /\ good.n_errors = h.n_errors /\ good.healthy = h.healthy
  BY RecordOpFacts
<1>2. /\ bad \in Health /\ Ops(bad) = Ops(h) + 1 /\ (~h.healthy => Honest(bad))
      /\ bad.n_errors = h.n_errors + 1 /\ bad.healthy = h.healthy
  BY RecordOpFacts
<1>3. Ops(h) \in Int /\ h.n_errors \in Int
  BY DEF Health, Ops
<1>4. worse \in Health /\ Ops(worse) = Ops(good) + 1 /\ worse.n_errors = good.n_errors + 1
  BY <1>1, RecordOpFacts
<1> HIDE DEF worse
<1> HIDE DEF good, bad
<1>5. Reported(h, good) /\ (~h.healthy => Reported(h, bad) /\ Flagged(h, bad))
  BY <1>1, <1>2, <1>3 DEF Reported, Flagged
<1>6. /\ bad.n_errors >= h.n_errors /\ good.n_errors >= h.n_errors
      /\ worse.n_errors >= h.n_errors /\ Ops(worse) = Ops(h) + 2
  BY <1>1, <1>2, <1>3, <1>4
<1>7. Reported(h, RecordError(bad, FALSE)) /\ Flagged(h, RecordError(bad, FALSE))
  BY <1>2, <1>6, ErrorReported
<1>8. Reported(h, RecordError(good, TRUE)) /\ Flagged(h, RecordError(good, TRUE))
  BY <1>1, <1>6, ErrorReported
<1>9. h.healthy => Reported(h, RecordError(worse, FALSE)) /\ Flagged(h, RecordError(worse, FALSE))
  BY <1>4, <1>6, ErrorReported
<1>10. QED
  BY <1>5, <1>7, <1>8, <1>9 DEF good, bad, worse

(* Every return of add reports the call; the failing ones add an error.   *)
LEMMA AddReturns ==
    ASSUME NEW h \in Health, Honest(h), NEW n \in Nat, NEW known \in BOOLEAN
    PROVE  /\ ~h.healthy => Reported(h, AddUnavailable(h)) /\ Flagged(h, AddUnavailable(h))
           /\ Reported(h, AddNoMessages(h))
           /\ Reported(h, AddSucceeds(h, n, known))
           /\ Reported(h, AddRaises(h)) /\ Flagged(h, AddRaises(h))
           /\ Reported(h, AddSilentlyFails(h)) /\ Flagged(h, AddSilentlyFails(h))
           /\ h.healthy => Reported(h, AddMalformed(h)) /\ Flagged(h, AddMalformed(h))
<1>1. Reported(h, AddSucceeds(h, n, known))
  <2> DEFINE good == RecordOp(h, "add", FALSE)
  <2>1. good \in Health /\ Honest(good) /\ Ops(good) = Ops(h) + 1 /\ good.healthy = h.healthy
    BY RecordOpFacts
  <2> HIDE DEF good
  <2>2. Reported(h, Counted(good, n, known))
    BY <2>1, CountedFacts DEF Reported
  <2>3. QED
    BY <2>2 DEF good, AddSucceeds
<1>2. QED
  BY <1>1, Outcomes
     DEF AddUnavailable, AddNoMessages, AddRaises, AddSilentlyFails, AddMalformed

(* So does every return of search. *)
LEMMA SearchReturns ==
    ASSUME NEW h \in Health, Honest(h)
    PROVE  /\ ~h.healthy => Reported(h, SearchUnavailable(h))
           /\ Reported(h, SearchSucceeds(h))
           /\ Reported(h, SearchRaises(h))
           /\ h.healthy => Reported(h, SearchMalformed(h))
BY Outcomes DEF SearchUnavailable, SearchSucceeds, SearchRaises, SearchMalformed

-----------------------------------------------------------------------------
(* The invariant: types, finite stores, an honest record, calls counted,   *)
(* and what the add in progress has spent.                                 *)

Finite == \A u \in UserIds : IsFiniteSet(store[u])

HonestOpen == pc # "closed" => Honest(health)

\* Only a healthy backend asks the LLM.
HealthyInCall == pc \in {"ask", "retry", "write"} => health.healthy

\* EveryCallCounted as it stands is inductive with these; the spend needs to
\* know what the add in progress may still ask for.
Spend ==
    /\ metered <= answered
    /\ pc = "retry" => metered + 1 <= answered
    /\ answered + (IF pc = "ask" THEN 2 ELSE IF pc = "retry" THEN 1 ELSE 0) <= 2 * calls

NoProcess == pc = "closed" => calls = 0

IInv ==
    /\ TypeOK
    /\ Finite
    /\ HonestOpen
    /\ HealthyInCall
    /\ NoProcess
    /\ EveryCallCounted
    /\ Spend

(* The user_id of an add is one of mem0's, and so is that of the backend's *)
(* own scope.                                                              *)
LEMMA UidType == TypeOK => Uid \in UserIds /\ UserId[Home] \in UserIds
  BY BackendAssumption DEF TypeOK, Add, Uid

(* Writing what an add finds new, or some of it, keeps the store typed and *)
(* finite.                                                                 *)
LEMMA WriteFacts ==
    ASSUME IInv, NEW written \in SUBSET New, Write(written)
    PROVE  /\ store' \in [UserIds -> SUBSET Facts]
           /\ \A u \in UserIds : IsFiniteSet(store'[u])
<1>1. written \subseteq Facts /\ IsFiniteSet(written)
  BY BackendAssumption, FS_Subset DEF IInv, TypeOK, Add, New
<1>2. Uid \in UserIds /\ store \in [UserIds -> SUBSET Facts]
  BY UidType DEF IInv, TypeOK
<1>3. store' = [store EXCEPT ![Uid] = store[Uid] \cup written]
  BY DEF Write
<1>4. IsFiniteSet(store[Uid] \cup written)
  BY <1>1, <1>2, FS_Union DEF IInv, Finite
<1>5. QED
  BY <1>1, <1>2, <1>3, <1>4 DEF IInv, Finite

(* No add is in progress: an add record. *)
LEMMA NoAddType == NoAdd \in Add
  BY BackendAssumption DEF NoAdd, Add

(* The invariant holds before the first process.                           *)
LEMMA InvInit == Init => IInv
<1> SUFFICES ASSUME Init PROVE IInv
  OBVIOUS
<1>1. TypeOK
  <2>1. FreshHealth \in Health
    BY FreshRecords
  <2>2. MaxOpens \in Nat
    BY BackendAssumption
  <2>3. store \in [UserIds -> SUBSET Facts] /\ empty \in BOOLEAN
    BY DEF Init
  <2>4. QED
    BY <2>1, <2>2, <2>3, NoAddType DEF Init, TypeOK, PC
<1>2. Finite /\ HealthyInCall
  BY FS_EmptySet DEF Init, Finite, HealthyInCall
<1>3. HonestOpen /\ NoProcess /\ Spend
  BY DEF Init, HonestOpen, NoProcess, Spend
<1>4. EveryCallCounted
  BY DEF Init, EveryCallCounted, InProgress, FreshHealth
<1>5. QED
  BY <1>1, <1>2, <1>3, <1>4 DEF IInv

(* A call that begins and ends in one step and reports itself.             *)
LEMMA CallInOneStep ==
    ASSUME IInv, Calls, Reported(health, health'),
           empty' \in BOOLEAN, UNCHANGED <<pc, add, soft, store, metered, answered, opens>>
    PROVE  IInv'
<1>1. TypeOK'
  BY DEF IInv, TypeOK, Calls, Reported
<1>2. Ops(health) \in Int /\ Ops(health') \in Int
  BY DEF IInv, TypeOK, Reported, Health, Ops
<1>3. EveryCallCounted'
  BY <1>2 DEF IInv, TypeOK, EveryCallCounted, InProgress, Calls, Reported, Ops
<1>4. Spend'
  BY DEF IInv, TypeOK, Spend, Calls
<1>5. QED
  BY <1>1, <1>3, <1>4 DEF IInv, Finite, HonestOpen, HealthyInCall, NoProcess, Reported, Calls

(* An add that returns reports itself, whatever it wrote.                  *)
LEMMA AddStep ==
    ASSUME IInv, pc = "write", NEW ids, Returns(ids), Reported(health, health'), soft' \in Nat,
           NEW written \in SUBSET New, Write(written)
    PROVE  IInv'
<1>1. TypeOK'
  BY WriteFacts, NoAddType DEF IInv, TypeOK, Returns, Reported, PC
<1>2. Ops(health) \in Int /\ Ops(health') \in Int
  BY DEF IInv, TypeOK, Reported, Health, Ops
<1>3. EveryCallCounted'
  BY <1>2 DEF IInv, TypeOK, EveryCallCounted, InProgress, Returns, Reported, Ops
<1>4. Spend'
  BY DEF IInv, TypeOK, Spend, Returns
<1>5. Finite'
  BY WriteFacts DEF Finite
<1>6. QED
  BY <1>1, <1>3, <1>4, <1>5 DEF IInv, HonestOpen, HealthyInCall, NoProcess, Reported, Returns

(* A step of the CLI: the record, the store and the calls stay.            *)
LEMMA CliStep ==
    ASSUME IInv, pc \in {"ask", "retry"}, pc' \in {"retry", "write"}, add' \in Add,
           UNCHANGED <<health, soft, empty, store, calls, opens>>,
           metered' \in Nat, answered' \in Nat, Spend'
    PROVE  IInv'
<1>1. TypeOK'
  BY DEF IInv, TypeOK, PC
<1>2. EveryCallCounted'
  BY DEF IInv, EveryCallCounted, InProgress
<1>3. QED
  BY <1>1, <1>2 DEF IInv, Finite, HonestOpen, NoProcess, HealthyInCall

(* Every step keeps the invariant.                                         *)
LEMMA InvStep == IInv /\ [Next]_vars => IInv'
<1> SUFFICES ASSUME IInv, [Next]_vars PROVE IInv'
  OBVIOUS
<1> USE DEF IInv
<1>1. CASE Open
  <2>1. PICK opened \in BOOLEAN : health' = Mem0Init(opened)
    BY <1>1 DEF Open
  <2>2. health' \in Health /\ Honest(health') /\ Ops(health') = 0
    BY <2>1, FreshRecords
  <2>3. TypeOK'
    BY <1>1, <2>2, BackendAssumption DEF Open, TypeOK, PC
  <2>4. calls = 0
    BY <1>1 DEF Open, NoProcess
  <2>5. EveryCallCounted'
    BY <1>1, <2>2, <2>4 DEF Open, EveryCallCounted, InProgress, Ops
  <2>6. Spend'
    BY <1>1 DEF Open, Spend
  <2>7. QED
    BY <1>1, <2>2, <2>3, <2>4, <2>5, <2>6
       DEF Open, Finite, HonestOpen, NoProcess, HealthyInCall
<1>2. CASE Exit
  <2>1. TypeOK'
    BY <1>2, NoAddType, FreshRecords DEF Exit, TypeOK, PC
  <2>2. EveryCallCounted'
    BY <1>2 DEF Exit, EveryCallCounted, InProgress, FreshHealth
  <2>3. Spend'
    BY <1>2 DEF Exit, Spend
  <2>4. QED
    BY <1>2, <2>1, <2>2, <2>3 DEF Exit, Finite, HonestOpen, NoProcess, HealthyInCall
<1> DEFINE honest == pc # "closed" /\ Honest(health) /\ health \in Health
<1>3. pc # "closed" => honest
  BY DEF HonestOpen, TypeOK
<1>4. CASE AddRefused
  BY <1>3, <1>4, CallInOneStep, AddReturns DEF AddRefused, Calls
<1>5. CASE AddEmpty
  BY <1>3, <1>5, CallInOneStep, AddReturns DEF AddEmpty, Calls
<1>6. CASE AddBegins
  <2>1. add' \in Add /\ pc = "idle" /\ pc' = "ask" /\ calls' = calls + 1
    BY <1>6, NoAddType DEF AddBegins, Calls, Add
  <2>2. TypeOK'
    <3>1. empty' \in BOOLEAN
      BY <1>6 DEF AddBegins
    <3>2. pc' \in PC /\ calls' \in Nat
      BY <2>1 DEF TypeOK, PC
    <3>3. UNCHANGED <<health, soft, store, metered, answered, opens>>
      BY <1>6 DEF AddBegins
    <3>4. QED
      BY <2>1, <3>1, <3>2, <3>3 DEF TypeOK
  <2>3. EveryCallCounted'
    BY <1>6, <2>1 DEF AddBegins, EveryCallCounted, InProgress, TypeOK, Health
  <2>4. Spend'
    BY <1>6, <2>1 DEF AddBegins, Spend, TypeOK
  <2>5. QED
    BY <1>6, <2>1, <2>2, <2>3, <2>4 DEF AddBegins, Finite, HonestOpen, NoProcess, HealthyInCall
<1>7. CASE CliRaises
  <2>1. add' \in Add
    BY <1>7 DEF CliRaises, TypeOK, Add
  <2>2. Spend'
    BY <1>7 DEF CliRaises, Spend, TypeOK
  <2>3. QED
    BY <1>7, <2>1, <2>2, CliStep DEF CliRaises, TypeOK
<1>8. CASE CliAnswers
  <2>1. add' \in Add
    BY <1>8 DEF CliAnswers, TypeOK, Add
  <2>2. Spend' /\ metered' \in Nat /\ answered' \in Nat
    <3>1. /\ metered \in Nat /\ answered \in Nat /\ calls \in Nat
          /\ pc' = "write" /\ answered' = answered + 1 /\ calls' = calls
      BY <1>8 DEF CliAnswers, TypeOK
    <3>2. metered' \in Nat /\ metered' <= answered + 1 /\ answered + 1 <= 2 * calls
      <4>1. CASE pc = "ask"
        <5>1. metered' = metered + 1
          BY <1>8, <4>1 DEF CliAnswers
        <5>2. metered <= answered /\ answered + 2 <= 2 * calls
          BY <4>1 DEF Spend
        <5>3. QED
          BY <3>1, <5>1, <5>2
      <4>2. CASE pc = "retry"
        <5>1. metered' = metered + 2
          BY <1>8, <4>2 DEF CliAnswers
        <5>2. metered + 1 <= answered /\ answered + 1 <= 2 * calls
          BY <4>2 DEF Spend
        <5>3. QED
          BY <3>1, <5>1, <5>2
      <4>3. QED
        BY <1>8, <4>1, <4>2 DEF CliAnswers
    <3>3. answered' + 0 <= 2 * calls' /\ metered' <= answered' /\ answered' \in Nat
      BY <3>1, <3>2
    <3>4. QED
      BY <3>1, <3>2, <3>3 DEF Spend
  <2>3. QED
    BY <1>8, <2>1, <2>2, CliStep DEF CliAnswers
<1>9. CASE CliBabbles
  <2>1. Spend' /\ answered' \in Nat
    BY <1>9 DEF CliBabbles, Spend, TypeOK
  <2>2. QED
    BY <1>9, <2>1, CliStep DEF CliBabbles, TypeOK
<1>10. CASE CliBabblesAgain
  <2>1. /\ metered + 1 <= answered
        /\ answered + 1 <= 2 * calls
        /\ metered \in Nat /\ answered \in Nat
    BY <1>10 DEF CliBabblesAgain, Spend, TypeOK
  <2>2. Spend' /\ metered' \in Nat /\ answered' \in Nat
    <3>1. pc' = "write" /\ answered' = answered + 1 /\ metered' = metered + 2 /\ calls' = calls
      BY <1>10 DEF CliBabblesAgain
    <3>2. calls \in Nat
      BY DEF TypeOK
    <3>3. /\ metered' <= answered'
          /\ answered' <= 2 * calls'
          /\ metered' \in Nat /\ answered' \in Nat
      BY <2>1, <3>1, <3>2
    <3>4. answered' + 0 <= 2 * calls'
      BY <3>2, <3>3, <3>1
    <3>5. QED
      BY <3>1, <3>3, <3>4 DEF Spend
  <2>3. QED
    BY <1>10, <2>2, CliStep DEF CliBabblesAgain, TypeOK
<1>11. CASE AddReports
  <2>1. PICK ids \in Answers, known \in BOOLEAN :
           /\ health' = AddSucceeds(health, Cardinality(store'[Uid]), known)
           /\ soft' = Signal(ids)
           /\ Returns(ids)
    BY <1>11 DEF AddReports
  <2>2. Write(New) /\ pc = "write" /\ soft' \in Nat
    BY <1>11, <2>1 DEF AddReports, TypeOK, Signal
  <2>3. Cardinality(store'[Uid]) \in Nat
    BY <2>2, WriteFacts, UidType, FS_CardinalityType
  <2>4. Reported(health, health')
    BY <1>3, <2>1, <2>2, <2>3, AddReturns
  <2>5. QED
    BY <2>1, <2>2, <2>4, AddStep
<1>12. CASE AddFlagsSilentFailure
  <2>1. pc = "write" /\ Returns({}) /\ soft' \in Nat /\ Write({})
    BY <1>12, UidType DEF AddFlagsSilentFailure, Write, TypeOK
  <2>2. Reported(health, health')
    BY <1>3, <1>12, AddReturns DEF AddFlagsSilentFailure
  <2>3. QED
    BY <2>1, <2>2, AddStep
<1>13. CASE AddDies
  <2>1. PICK written \in SUBSET New : Write(written)
    BY <1>13 DEF AddDies
  <2>2. pc = "write" /\ Returns({}) /\ soft' \in Nat
    BY <1>13 DEF AddDies, TypeOK
  <2>3. Reported(health, health')
    BY <1>3, <1>13, AddReturns DEF AddDies
  <2>4. QED
    BY <2>1, <2>2, <2>3, AddStep
<1>a. CASE AddStumbles
  <2>1. pc = "write" /\ Returns({}) /\ soft' \in Nat /\ Write(New)
    BY <1>a DEF AddStumbles, TypeOK, Signal
  <2>2. Reported(health, health')
    BY <1>3, <1>a, AddReturns DEF AddStumbles, HealthyInCall
  <2>3. QED
    BY <2>1, <2>2, AddStep
<1>14. CASE Search
  <2>1. Reported(health, health')
    BY <1>3, <1>14, SearchReturns DEF Search, Calls
  <2>2. QED
    BY <1>14, <2>1, CallInOneStep DEF Search
<1>15. CASE Inspect
  <2>1. Cardinality(store[UserId[Home]]) \in Nat
    BY FS_CardinalityType, UidType DEF Finite
  <2>2. /\ health' \in Health /\ Honest(health') /\ Ops(health') = Ops(health)
        /\ health'.healthy = health.healthy
    BY <1>3, <1>15, <2>1, CountedFacts DEF Inspect
  <2>3. TypeOK'
    BY <1>15, <2>2 DEF Inspect, TypeOK
  <2>4. QED
    BY <1>15, <2>2, <2>3
       DEF Inspect, Finite, HonestOpen, HealthyInCall, NoProcess, EveryCallCounted, InProgress,
           Spend, Ops
<1>16. CASE Clear
  <2>1. PICK left \in SUBSET store[UserId[Home]], deleted \in BOOLEAN :
           /\ store' = [store EXCEPT ![UserId[Home]] = left]
           /\ health' = Cleared(health, deleted)
    BY <1>16 DEF Clear
  <2>2. store' \in [UserIds -> SUBSET Facts] /\ Finite'
    BY <2>1, UidType, FS_Subset DEF TypeOK, Finite
  <2>3. /\ health' \in Health /\ Honest(health') /\ Ops(health') = Ops(health)
        /\ health'.healthy = health.healthy
    <3>1. 0 \in Nat
      OBVIOUS
    <3>2. QED
      BY <1>3, <1>16, <2>1, <3>1, CountedFacts DEF Clear
  <2>4. TypeOK'
    BY <1>16, <2>2, <2>3 DEF Clear, TypeOK
  <2>5. QED
    BY <1>16, <2>2, <2>3, <2>4
       DEF Clear, HonestOpen, HealthyInCall, NoProcess, EveryCallCounted, InProgress, Spend, Ops
<1>17. CASE UNCHANGED vars
  BY <1>17 DEF vars, TypeOK, Finite, HonestOpen, NoProcess, EveryCallCounted, InProgress, Spend,
               HealthyInCall
<1>18. QED
  BY <1>1, <1>2, <1>4, <1>5, <1>6, <1>7, <1>8, <1>9, <1>10, <1>11, <1>12, <1>13, <1>a, <1>14,
     <1>15, <1>16, <1>17 DEF Next

(* The invariant holds throughout.                                         *)
LEMMA Invariant == Spec => []IInv
<1>1. QED
  BY InvInit, InvStep, PTL DEF Spec

-----------------------------------------------------------------------------
(* What follows.                                                           *)

(***************************************************************************)
(* The backend's variables keep their types, the health record included.   *)
(***************************************************************************)
THEOREM TypeCorrect == Spec => []TypeOK
<1>1. IInv => TypeOK
  BY DEF IInv
<1>2. QED
  BY <1>1, Invariant, PTL

(***************************************************************************)
(* A healthy backend has had no error, an unhealthy one says why, and a    *)
(* silent extraction failure never goes with a healthy record, on every    *)
(* path through add, search, inspect and clear.                            *)
(***************************************************************************)
THEOREM HealthIsAlwaysHonest == Spec => []HealthIsHonest
<1>1. IInv => HealthIsHonest
  BY DEF IInv, HonestOpen, Honest, HealthIsHonest
<1>2. QED
  BY <1>1, Invariant, PTL

(***************************************************************************)
(* No return of add or search forgets to count its call, and at most one   *)
(* in the life of a process, the one that made the backend unhealthy, is   *)
(* counted twice.                                                          *)
(***************************************************************************)
THEOREM CallsCounted == Spec => []EveryCallCounted
<1>1. IInv => EveryCallCounted
  BY DEF IInv
<1>2. QED
  BY <1>1, Invariant, PTL

(***************************************************************************)
(* n adds and searches pay for at most 2n answers of the CLI, and the      *)
(* meter claims no more than were given.                                   *)
(***************************************************************************)
THEOREM SpendIsBounded == Spec => []SpendBounded
<1>1. IInv => SpendBounded
  BY DEF IInv, TypeOK, Spend, SpendBounded
<1>2. QED
  BY <1>1, Invariant, PTL

(***************************************************************************)
(* An add of substantive input that returns no id has counted an error and *)
(* lost the health, or, if mem0 did not complain, raised the soft signal,  *)
(* whatever mem0 wrote and whatever ids its events named.                  *)
(***************************************************************************)
THEOREM NoSilentAdd == Spec => EmptyHandedLeavesTrace
<1> DEFINE Traced == pc = "write" /\ pc' = "idle" /\ empty'
                       => \/ health'.n_errors > health.n_errors /\ ~health'.healthy
                          \/ ~add.logged /\ soft' > soft
<1>1. IInv /\ [Next]_vars => [Traced]_vars
  <2> SUFFICES ASSUME IInv, [Next]_vars, pc = "write", pc' = "idle", empty'
               PROVE  \/ Flagged(health, health')
                      \/ ~add.logged /\ soft' > soft
    BY DEF Flagged
  <2>1. health \in Health /\ Honest(health) /\ health.healthy
    BY DEF IInv, TypeOK, HonestOpen, HealthyInCall
  <2>2. CASE AddReports
    <3>1. PICK ids \in Answers : ~SilentFailure(ids) /\ soft' = Signal(ids) /\ Returns(ids)
      BY <2>2 DEF AddReports
    <3>2. ids = {} /\ add.substantive
      BY <3>1 DEF Returns
    <3>3. QED
      BY <3>1, <3>2 DEF SilentFailure, Signal, IInv, TypeOK
  <2>3. CASE AddFlagsSilentFailure
    BY <2>1, <2>3, AddReturns DEF AddFlagsSilentFailure
  <2>4. CASE AddDies
    BY <2>1, <2>4, AddReturns DEF AddDies
  <2>a. CASE AddStumbles
    BY <2>1, <2>a, AddReturns DEF AddStumbles
  <2>5. QED
    BY <2>2, <2>3, <2>4, <2>a
       DEF Next, vars, Open, Exit, AddRefused, AddEmpty, AddBegins, Calls, CliRaises,
           CliAnswers, CliBabbles, CliBabblesAgain, Search, Inspect, Clear
<1>2. QED
  BY <1>1, Invariant, PTL DEF Spec, EmptyHandedLeavesTrace

-----------------------------------------------------------------------------
(* Mem0Backend implements HealthContract.                                  *)

\* The record h may become g in a call that counts n operations.
Honored(h, g, n) ==
    /\ Contract!Honest(h, g)
    /\ g.n_adds >= h.n_adds
    /\ g.n_searches >= h.n_searches
    /\ g.n_adds + g.n_searches = h.n_adds + h.n_searches + n

\* What recording one operation makes of h, with e errors.
Tallied(h, g, e) ==
    /\ g \in Health
    /\ g.n_errors = h.n_errors + e
    /\ g.n_adds >= h.n_adds
    /\ g.n_searches >= h.n_searches
    /\ g.n_adds + g.n_searches = h.n_adds + h.n_searches + 1
    /\ g.n_silent_extraction_failures = h.n_silent_extraction_failures
    /\ g.healthy = h.healthy
    /\ g.error_message = h.error_message
    /\ g.last_error = h.last_error

(* An operation that is recorded is counted, and all else stays as it was. *)
LEMMA OpRecorded ==
    ASSUME NEW h \in Health, NEW k \in {"add", "search"}
    PROVE  Tallied(h, RecordOp(h, k, FALSE), 0) /\ Tallied(h, RecordOp(h, k, TRUE), 1)
<1> DEFINE s == IF k = "search" THEN h.n_searches + 1 ELSE h.n_searches
           a == IF k = "add" THEN h.n_adds + 1 ELSE h.n_adds
           n == h.n_errors + 1
<1>1. /\ s \in Nat /\ a \in Nat /\ n \in Nat
      /\ a >= h.n_adds /\ s >= h.n_searches
      /\ a + s = h.n_adds + h.n_searches + 1
      /\ n = h.n_errors + 1 /\ h.n_errors = h.n_errors + 0
  BY DEF Health
<1>2. /\ RecordOp(h, k, FALSE) = [h EXCEPT !.n_searches = s, !.n_adds = a]
      /\ RecordOp(h, k, TRUE) = [h EXCEPT !.n_searches = s, !.n_adds = a, !.n_errors = n]
  BY DEF RecordOp, Health
<1> HIDE DEF s, a, n
<1>3. Tallied(h, RecordOp(h, k, FALSE), 0)
  BY <1>1, <1>2 DEF Health, Tallied
<1>4. Tallied(h, RecordOp(h, k, TRUE), 1)
  BY <1>1, <1>2 DEF Health, Tallied
<1>5. QED
  BY <1>3, <1>4

(* Nothing but the counts of calls and memories changes, or an unhealthy   *)
(* backend refuses: the contract is honored.                               *)
LEMMA HonoredQuietly ==
    ASSUME NEW h \in Health, NEW g \in Health, NEW n \in Nat,
           g.n_adds >= h.n_adds, g.n_searches >= h.n_searches,
           g.n_adds + g.n_searches = h.n_adds + h.n_searches + n,
           g.n_silent_extraction_failures = h.n_silent_extraction_failures,
           g.healthy = h.healthy,
           g.error_message = h.error_message,
           h.last_error => g.last_error,
           g.n_errors = h.n_errors \/ (~h.healthy /\ g.n_errors >= h.n_errors)
    PROVE  Honored(h, g, n)
BY DEF Honored, Contract!Honest, Contract!Health, Health

(* So does an operation that is recorded, with an error only when refused. *)
LEMMA HonoredWithoutFailure ==
    ASSUME NEW h \in Health, NEW g, NEW e \in {0, 1}, Tallied(h, g, e), e = 0 \/ ~h.healthy
    PROVE  Honored(h, g, 1)
<1>1. g.n_errors = h.n_errors \/ (~h.healthy /\ g.n_errors >= h.n_errors)
  BY DEF Tallied, Health
<1>2. QED
  BY <1>1, HonoredQuietly DEF Tallied

(* An error that is recorded after the call was counted honors it.         *)
LEMMA HonoredWithError ==
    ASSUME NEW h \in Health, NEW k \in Health, NEW n \in Nat, NEW silent \in BOOLEAN,
           k.n_adds >= h.n_adds, k.n_searches >= h.n_searches,
           k.n_adds + k.n_searches = h.n_adds + h.n_searches + n,
           k.n_silent_extraction_failures = h.n_silent_extraction_failures,
           k.n_errors >= h.n_errors,
           NEW g, g = RecordError(k, silent)
    PROVE  Honored(h, g, n)
<1> DEFINE f == IF silent THEN k.n_silent_extraction_failures + 1
                          ELSE k.n_silent_extraction_failures
<1>1. /\ f \in Nat /\ k.n_errors + 1 \in Nat
      /\ h.n_silent_extraction_failures <= f
      /\ f - h.n_silent_extraction_failures <= (k.n_errors + 1) - h.n_errors
      /\ k.n_errors + 1 # h.n_errors
  BY DEF Health
<1>2. g = [k EXCEPT !.n_errors = k.n_errors + 1, !.last_error = TRUE, !.error_message = TRUE,
                    !.n_silent_extraction_failures = f, !.healthy = FALSE]
  BY DEF RecordError, Health
<1> HIDE DEF f
<1>3. g \in Health
  BY <1>1, <1>2 DEF Health
<1>4. /\ g.n_errors = k.n_errors + 1 /\ g.last_error = TRUE /\ g.error_message = TRUE
      /\ g.n_silent_extraction_failures = f /\ g.healthy = FALSE
      /\ g.n_adds = k.n_adds /\ g.n_searches = k.n_searches
  BY <1>2 DEF Health
<1>5. QED
  BY <1>1, <1>3, <1>4 DEF Honored, Contract!Honest, Contract!Health, Health

\* What a count of the memories, or a clear, may make of h.
Sees(h, g) ==
    /\ g \in Health
    /\ g.n_errors = h.n_errors
    /\ g.n_adds = h.n_adds
    /\ g.n_searches = h.n_searches
    /\ g.n_silent_extraction_failures = h.n_silent_extraction_failures
    /\ g.healthy = h.healthy
    /\ g.error_message = h.error_message
    /\ h.last_error => g.last_error

(* And that is what they make of it. *)
LEMMA LooksSee ==
    ASSUME NEW h \in Health, NEW m \in Nat, NEW known \in BOOLEAN
    PROVE  \A g \in {Counted(h, m, known), Inspected(h, m, known), Cleared(h, known)} : Sees(h, g)
<1>1. Sees(h, h)
  BY DEF Sees
<1>2. ASSUME NEW i \in Nat PROVE Sees(h, [h EXCEPT !.n_memories = i])
  BY DEF Sees, Health
<1>3. Sees(h, [h EXCEPT !.n_memories = 0, !.last_error = TRUE])
  BY DEF Sees, Health
<1>4. QED
  BY <1>1, <1>2, <1>3 DEF Counted, Inspected, Cleared

(* Every return of add and search honors the contract: it counts the call, *)
(* once or, when mem0's answer cannot be read, twice.                      *)
LEMMA CallsHonored ==
    ASSUME NEW h \in Health, NEW m \in Nat, NEW known \in BOOLEAN
    PROVE  /\ ~h.healthy => /\ Honored(h, AddUnavailable(h), 1)
                            /\ Honored(h, SearchUnavailable(h), 1)
           /\ Honored(h, AddNoMessages(h), 1)
           /\ Honored(h, AddSucceeds(h, m, known), 1)
           /\ Honored(h, AddRaises(h), 1)
           /\ Honored(h, AddMalformed(h), 2)
           /\ Honored(h, AddSilentlyFails(h), 1)
           /\ Honored(h, SearchSucceeds(h), 1)
           /\ Honored(h, SearchRaises(h), 1)
           /\ Honored(h, SearchMalformed(h), 2)
<1>1. ASSUME NEW k \in {"add", "search"}
      PROVE  /\ Honored(h, RecordOp(h, k, FALSE), 1)
             /\ ~h.healthy => Honored(h, RecordOp(h, k, TRUE), 1)
             /\ Honored(h, RecordError(RecordOp(h, k, TRUE), FALSE), 1)
             /\ Honored(h, RecordError(RecordOp(h, k, FALSE), TRUE), 1)
             /\ Honored(h, RecordError(RecordOp(RecordOp(h, k, FALSE), k, TRUE), FALSE), 2)
  <2> DEFINE good == RecordOp(h, k, FALSE)
             bad == RecordOp(h, k, TRUE)
             worse == RecordOp(good, k, TRUE)
  <2>1. Tallied(h, good, 0) /\ Tallied(h, bad, 1)
    BY OpRecorded
  <2>2. Tallied(good, worse, 1)
    BY <2>1, OpRecorded DEF Tallied
  <2> HIDE DEF good, bad, worse
  <2>3. good \in Health /\ bad \in Health /\ worse \in Health
    BY <2>1, <2>2 DEF Tallied
  <2>4. Honored(h, good, 1) /\ (~h.healthy => Honored(h, bad, 1))
    BY <2>1, HonoredWithoutFailure
  <2>5. Honored(h, RecordError(bad, FALSE), 1) /\ Honored(h, RecordError(good, TRUE), 1)
    <3>1. bad.n_errors >= h.n_errors /\ good.n_errors >= h.n_errors
      BY <2>1 DEF Tallied, Health
    <3>2. QED
      BY <2>1, <2>3, <3>1, HonoredWithError DEF Tallied
  <2>6. Honored(h, RecordError(worse, FALSE), 2)
    <3>1. /\ worse.n_errors >= h.n_errors
          /\ worse.n_adds >= h.n_adds /\ worse.n_searches >= h.n_searches
          /\ worse.n_adds + worse.n_searches = h.n_adds + h.n_searches + 2
          /\ worse.n_silent_extraction_failures = h.n_silent_extraction_failures
      BY <2>1, <2>2 DEF Tallied, Health
    <3>2. QED
      BY <2>3, <3>1, HonoredWithError
  <2>7. QED
    BY <2>4, <2>5, <2>6 DEF good, bad, worse
<1>2. Honored(h, Counted(RecordOp(h, "add", FALSE), m, known), 1)
  <2> DEFINE k == RecordOp(h, "add", FALSE)
             g == Counted(k, m, known)
  <2>1. Tallied(h, k, 0)
    BY OpRecorded
  <2> HIDE DEF k
  <2>2. Sees(k, g)
    BY <2>1, LooksSee DEF Tallied
  <2> HIDE DEF g
  <2>3. /\ g \in Health /\ g.n_errors = h.n_errors
        /\ g.n_adds >= h.n_adds /\ g.n_searches >= h.n_searches
        /\ g.n_adds + g.n_searches = h.n_adds + h.n_searches + 1
        /\ g.n_silent_extraction_failures = h.n_silent_extraction_failures
        /\ g.healthy = h.healthy /\ g.error_message = h.error_message
        /\ h.last_error => g.last_error
    BY <2>1, <2>2 DEF Tallied, Sees, Health
  <2>4. Honored(h, g, 1)
    BY <2>3, HonoredQuietly
  <2>5. QED
    BY <2>4 DEF g, k
<1>3. QED
  BY <1>1, <1>2
     DEF AddUnavailable, AddNoMessages, AddSucceeds, AddRaises, AddMalformed, AddSilentlyFails,
         SearchUnavailable, SearchSucceeds, SearchRaises, SearchMalformed

(* A count of the memories, or a clear, counts no call and no error.       *)
LEMMA LooksHonored ==
    ASSUME NEW h \in Health, NEW m \in Nat, NEW known \in BOOLEAN,
           NEW g, g \in {Inspected(h, m, known), Cleared(h, known)}
    PROVE  Honored(h, g, 0) /\ g.n_errors = h.n_errors
<1>1. Sees(h, g)
  BY LooksSee
<1>2. /\ g.n_adds >= h.n_adds /\ g.n_searches >= h.n_searches
      /\ g.n_adds + g.n_searches = h.n_adds + h.n_searches + 0
  BY <1>1 DEF Sees, Health
<1>3. QED
  BY <1>1, <1>2, HonoredQuietly DEF Sees

\* The contract sees one backend.
Bar(v) == [b \in {"mem0"} |-> v]
On == {b \in {"mem0"} : pc # "closed"}
Busy == {b \in {"mem0"} : pc \in {"ask", "retry", "write"}}

(* A step that changes nothing the contract sees is a stutter.             *)
LEMMA ContractStutter ==
    ASSUME UNCHANGED <<health, calls, soft, empty>>,
           pc' = pc \/ {pc, pc'} \subseteq {"ask", "retry", "write"}
    PROVE  UNCHANGED Contract!vars
<1>1. On' = On /\ Busy' = Busy
  BY DEF On, Busy
<1>2. QED
  BY <1>1 DEF Contract!vars, On, Busy

(* A call that returns honors the contract if its record does.             *)
LEMMA ContractReturn ==
    ASSUME NEW n \in {1, 2}, Honored(health, health', n),
           n = 2 => health.healthy /\ ~health'.healthy,
           soft' = soft \/ soft' = soft + 1, soft \in Nat,
           empty' \in BOOLEAN,
           empty' => Flagged(health, health') \/ soft' > soft,
           pc' = "idle",
           \/ pc \in {"ask", "retry", "write"} /\ calls' = calls
           \/ pc = "idle" /\ calls' = calls + 1
    PROVE  Contract!Next
<1>1. /\ "mem0" \in On /\ On' = On
      /\ "mem0" \in Busy <=> pc \in {"ask", "retry", "write"}
      /\ Busy' = Busy \ {"mem0"}
  BY DEF On, Busy
<1>2. Bar(calls') = IF "mem0" \in Busy THEN Bar(calls)
                    ELSE [Bar(calls) EXCEPT !["mem0"] = Bar(calls)["mem0"] + 1]
  <2>1. CASE pc \in {"ask", "retry", "write"} /\ calls' = calls
    BY <1>1, <2>1 DEF Bar
  <2>2. CASE pc = "idle" /\ calls' = calls + 1
    BY <1>1, <2>2 DEF Bar
  <2>3. QED
    BY <2>1, <2>2
<1>3. Bar(health)["mem0"] = health /\ Bar(health') = [Bar(health) EXCEPT !["mem0"] = health']
  BY DEF Bar
<1>4. Contract!Reports("mem0", n)
  BY <1>3 DEF Contract!Reports, Honored, Bar
<1>a. n > 1 => Contract!LosesHealth("mem0")
  BY <1>3 DEF Contract!LosesHealth, Bar
<1>b. \E i \in {0, 1} : Bar(soft') = [Bar(soft) EXCEPT !["mem0"] = Bar(soft)["mem0"] + i]
  <2>1. PICK i \in {0, 1} : soft' = soft + i
    BY SMT
  <2>2. QED
    BY <2>1 DEF Bar
<1>c. Bar(empty') = [Bar(empty) EXCEPT !["mem0"] = empty']
  BY DEF Bar
<1>d. empty' => Contract!Loud("mem0")
  BY DEF Contract!Loud, Flagged, Bar
<1>5. Contract!Return("mem0")
  <2>1. \E i \in {1, 2} : Contract!Reports("mem0", i) /\ (i > 1 => Contract!LosesHealth("mem0"))
    BY <1>4, <1>a
  <2>2. \E e \in BOOLEAN : Bar(empty') = [Bar(empty) EXCEPT !["mem0"] = e] /\ (e => Contract!Loud("mem0"))
    BY <1>c, <1>d
  <2>3. QED
    BY <1>1, <1>2, <1>b, <2>1, <2>2 DEF Contract!Return, Bar, On, Busy
<1>6. QED
  BY <1>5 DEF Contract!Next

(* The record of a backend that opened, or did not, is a started one; a    *)
(* fresh one is not.                                                       *)
LEMMA InitStarts == \A opened \in BOOLEAN : Mem0Init(opened) \in Contract!Started
<1>1. /\ FreshHealth = Contract!FreshHealth /\ FreshHealth \in Health
      /\ FreshHealth.healthy = FALSE /\ FreshHealth.error_message = FALSE
  BY DEF FreshHealth, Contract!FreshHealth, Health
<1>2. /\ Mem0Init(TRUE) = [FreshHealth EXCEPT !.healthy = TRUE, !.error_message = FALSE]
      /\ Mem0Init(FALSE) = [FreshHealth EXCEPT !.healthy = FALSE, !.error_message = TRUE]
  BY <1>1 DEF Mem0Init, Health
<1>3. (~TRUE) = FALSE /\ (~FALSE) = TRUE
  OBVIOUS
<1>4. Mem0Init(TRUE) \in Contract!Started
  BY <1>1, <1>2, <1>3 DEF Contract!Started
<1>5. Mem0Init(FALSE) \in Contract!Started
  BY <1>1, <1>2, <1>3 DEF Contract!Started
<1>6. QED
  BY <1>4, <1>5

LEMMA FreshNotStarted == FreshHealth \notin Contract!Started
<1> SUFFICES ASSUME NEW ok \in BOOLEAN,
                    FreshHealth = [Contract!FreshHealth EXCEPT !.healthy = ok, !.error_message = ~ok]
             PROVE  FALSE
  BY DEF Contract!Started
<1>1. FreshHealth.healthy = ok /\ FreshHealth.error_message = ~ok
  BY DEF Contract!FreshHealth
<1>2. QED
  BY <1>1 DEF FreshHealth

(* Every step of the backend is one of the contract, or a stutter.         *)
LEMMA ContractStep == IInv /\ [Next]_vars => [Contract!Next]_(Contract!vars)
<1> SUFFICES ASSUME IInv, [Next]_vars PROVE Contract!Next \/ UNCHANGED Contract!vars
  OBVIOUS
<1>1. health \in Health /\ pc \in PC
  BY DEF IInv, TypeOK
<1>2. CASE Open
  <2>1. PICK opened \in BOOLEAN : health' = Mem0Init(opened)
    BY <1>2 DEF Open
  <2>2. health' \in Contract!Started
    BY <2>1, InitStarts
  <2>3. /\ "mem0" \notin On /\ On' = On \cup {"mem0"}
        /\ Busy' = Busy
        /\ UNCHANGED <<calls, soft, empty>>
    BY <1>2 DEF Open, On, Busy
  <2>4. Bar(health') = [Bar(health) EXCEPT !["mem0"] = health']
    BY DEF Bar
  <2>5. Contract!Open("mem0")
    BY <2>2, <2>3, <2>4 DEF Contract!Open, Bar, On, Busy
  <2>6. QED
    BY <2>5 DEF Contract!Next
<1>3. CASE Exit
  <2>1. /\ "mem0" \in On /\ On' = On \ {"mem0"}
        /\ Busy' = Busy \ {"mem0"}
        /\ calls' = 0 /\ health' = FreshHealth /\ soft' = 0 /\ empty' = FALSE
    BY <1>3 DEF Exit, On, Busy
  <2>2. /\ Bar(calls') = [Bar(calls) EXCEPT !["mem0"] = 0]
        /\ Bar(health') = [Bar(health) EXCEPT !["mem0"] = FreshHealth]
        /\ Bar(soft') = [Bar(soft) EXCEPT !["mem0"] = 0]
        /\ Bar(empty') = [Bar(empty) EXCEPT !["mem0"] = FALSE]
    BY <2>1 DEF Bar
  <2>3. FreshHealth = Contract!FreshHealth
    BY DEF FreshHealth, Contract!FreshHealth
  <2>4. Contract!Close("mem0")
    BY <2>1, <2>2, <2>3 DEF Contract!Close, Bar, On, Busy
  <2>5. QED
    BY <2>4 DEF Contract!Next
<1>a. soft \in Nat /\ (pc # "closed" => Honest(health))
  BY DEF IInv, TypeOK, HonestOpen
<1>4. CASE AddRefused \/ AddEmpty
  <2>1. Honored(health, health', 1)
    BY <1>1, <1>4, CallsHonored DEF AddRefused, AddEmpty
  <2>2. empty' \in BOOLEAN /\ (empty' => Flagged(health, health'))
    BY <1>1, <1>4, <1>a, AddReturns DEF AddRefused, AddEmpty, Calls
  <2>3. pc = "idle" /\ pc' = "idle" /\ calls' = calls + 1 /\ soft' = soft
    BY <1>4 DEF AddRefused, AddEmpty, Calls
  <2>4. QED
    BY <1>a, <2>1, <2>2, <2>3, ContractReturn
<1>5. CASE AddBegins
  <2>1. /\ "mem0" \in On /\ On' = On
        /\ "mem0" \notin Busy /\ Busy' = Busy \cup {"mem0"}
        /\ calls' = calls + 1 /\ health' = health /\ soft' = soft /\ empty' = FALSE
    BY <1>5 DEF AddBegins, Calls, On, Busy
  <2>2. /\ Bar(calls') = [Bar(calls) EXCEPT !["mem0"] = Bar(calls)["mem0"] + 1]
        /\ Bar(empty') = [Bar(empty) EXCEPT !["mem0"] = FALSE]
    BY <2>1 DEF Bar
  <2>3. Contract!Begin("mem0")
    BY <2>1, <2>2 DEF Contract!Begin, Bar, On, Busy
  <2>4. QED
    BY <2>3 DEF Contract!Next
<1>6. CASE CliRaises \/ CliAnswers \/ CliBabbles \/ CliBabblesAgain
  BY <1>6, ContractStutter DEF CliRaises, CliAnswers, CliBabbles, CliBabblesAgain
<1>7. CASE AddReports
  <2>1. PICK ids \in Answers, known \in BOOLEAN :
           /\ ~SilentFailure(ids)
           /\ health' = AddSucceeds(health, Cardinality(store'[Uid]), known)
           /\ soft' = Signal(ids)
           /\ Returns(ids)
    BY <1>7 DEF AddReports
  <2>2. Cardinality(store'[Uid]) \in Nat
    BY <1>7, WriteFacts, UidType, FS_CardinalityType DEF AddReports, IInv
  <2>3. Honored(health, health', 1)
    BY <1>1, <2>1, <2>2, CallsHonored
  <2>4. /\ soft' = soft \/ soft' = soft + 1
        /\ empty' \in BOOLEAN
        /\ empty' => soft' > soft
    <3>1. empty' = (ids = {} /\ add.substantive)
      BY <2>1 DEF Returns
    <3>2. soft' = IF ids = {} /\ add.substantive THEN soft + 1 ELSE soft
      BY <2>1 DEF Signal
    <3>3. CASE ids = {} /\ add.substantive
      BY <1>a, <3>1, <3>2, <3>3
    <3>4. CASE ~(ids = {} /\ add.substantive)
      BY <1>a, <3>1, <3>2, <3>4
    <3>5. QED
      BY <3>3, <3>4
  <2>5. QED
    BY <1>7, <1>a, <2>1, <2>3, <2>4, ContractReturn DEF AddReports, Returns
<1>8. CASE AddFlagsSilentFailure \/ AddDies
  <2>1. Honored(health, health', 1)
    BY <1>1, <1>8, CallsHonored DEF AddFlagsSilentFailure, AddDies
  <2>2. Flagged(health, health')
    BY <1>1, <1>8, <1>a, AddReturns DEF AddFlagsSilentFailure, AddDies
  <2>3. empty' \in BOOLEAN
    BY <1>8 DEF AddFlagsSilentFailure, AddDies, Returns, IInv, TypeOK, Add
  <2>4. QED
    BY <1>8, <1>a, <2>1, <2>2, <2>3, ContractReturn DEF AddFlagsSilentFailure, AddDies, Returns
<1>b. CASE AddStumbles
  <2>1. Honored(health, health', 2)
    BY <1>1, <1>b, CallsHonored DEF AddStumbles
  <2>2. Flagged(health, health') /\ health.healthy
    BY <1>1, <1>b, <1>a, AddReturns DEF AddStumbles, IInv, HealthyInCall
  <2>3. empty' \in BOOLEAN /\ (soft' = soft \/ soft' = soft + 1)
    BY <1>b DEF AddStumbles, Returns, Signal, IInv, TypeOK, Add
  <2>4. QED
    BY <1>b, <1>a, <2>1, <2>2, <2>3, ContractReturn DEF AddStumbles, Returns, Flagged
<1>9. CASE Search
  <2>1. \/ Honored(health, health', 1)
        \/ Honored(health, health', 2) /\ health.healthy /\ ~health'.healthy
    <3>1. health.healthy => ~SearchMalformed(health).healthy
      BY <1>1, Outcomes, <1>9, <1>a DEF SearchMalformed, SearchRaises, Flagged, Search, Calls
    <3>2. QED
      BY <1>1, <1>9, <3>1, CallsHonored DEF Search
  <2>2. /\ pc = "idle" /\ pc' = "idle" /\ calls' = calls + 1 /\ soft' = soft
        /\ empty' = FALSE
    BY <1>9 DEF Search, Calls
  <2>3. CASE Honored(health, health', 1)
    <3>1. empty' \in BOOLEAN /\ ~empty'
      BY <2>2
    <3>2. 1 \in {1, 2} /\ 1 # 2
      OBVIOUS
    <3>3. QED
      BY <1>a, <2>2, <2>3, <3>1, <3>2, ContractReturn
  <2>4. CASE Honored(health, health', 2) /\ health.healthy /\ ~health'.healthy
    BY <1>a, <2>2, <2>4, ContractReturn
  <2>5. QED
    BY <2>1, <2>3, <2>4
<1>10. CASE Inspect \/ Clear
  <2>1. Cardinality(store[UserId[Home]]) \in Nat
    BY UidType, FS_CardinalityType DEF IInv, Finite
  <2>2. Honored(health, health', 0) /\ health'.n_errors = health.n_errors
    <3>1. \E known \in BOOLEAN : health' \in {Inspected(health, Cardinality(store[UserId[Home]]), known),
                                           Cleared(health, known)}
      BY <1>10 DEF Inspect, Clear
    <3>2. QED
      BY <1>1, <2>1, <3>1, LooksHonored
  <2>3. pc = "idle" /\ pc' = pc /\ UNCHANGED <<calls, soft, empty>>
    BY <1>10 DEF Inspect, Clear
  <2>4. Bar(health)["mem0"] = health /\ Bar(health') = [Bar(health) EXCEPT !["mem0"] = health']
    BY DEF Bar
  <2>5. Contract!Reports("mem0", 0)
    BY <2>2, <2>4 DEF Contract!Reports, Honored, Bar
  <2>a. "mem0" \in On /\ On' = On /\ "mem0" \notin Busy /\ Busy' = Busy
    BY <2>3 DEF On, Busy
  <2>b. Contract!Look("mem0")
    BY <2>2, <2>3, <2>5, <2>a DEF Contract!Look, On, Busy
  <2>6. QED
    BY <2>b DEF Contract!Next
<1>11. CASE UNCHANGED vars
  BY <1>11, ContractStutter DEF vars
<1>12. QED
  BY <1>2, <1>3, <1>4, <1>5, <1>6, <1>7, <1>8, <1>b, <1>9, <1>10, <1>11 DEF Next

(***************************************************************************)
(* The in-process backend honors the contract: every add and search is     *)
(* counted when it returns, the flag healthy is lost exactly with the      *)
(* first error and with a message, no count goes back, and a substantive   *)
(* add that returns nothing is loud, on every path through mem0's          *)
(* failures.                                                               *)
(***************************************************************************)
THEOREM ImplementsContract == Spec => HonorsContract
<1>1. Init => Contract!Init
  <2>1. FreshHealth = Contract!FreshHealth
    BY DEF FreshHealth, Contract!FreshHealth
  <2>2. QED
    BY <2>1, FreshNotStarted DEF Init, Contract!Init
<1>2. IInv /\ [Next]_vars => [Contract!Next]_(Contract!vars)
  BY ContractStep
<1>3. QED
  BY <1>1, <1>2, Invariant, PTL DEF Spec, HonorsContract, Contract!Spec

=============================================================================
