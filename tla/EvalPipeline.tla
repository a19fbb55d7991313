---------------------------- MODULE EvalPipeline ----------------------------
(***************************************************************************)
(* The evaluation of sessions (eval/runner.py), composed with their start  *)
(* (Injection).  A runner is started every now and then.  It reads the     *)
(* session ids already in the results file, the injection log and the list *)
(* of transcripts, in this order, then measures each transcript whose      *)
(* session is not in the file yet and appends a row.  It takes no lock.    *)
(*                                                                         *)
(* The results file is JSONL.  Its readers skip lines they cannot parse,   *)
(* so the model keeps its parsable rows and what its last line looks like. *)
(***************************************************************************)
EXTENDS Injection, FiniteSets

CONSTANTS
    Runners,      \* processes that call run_eval
    Corrupt,      \* transcripts the adapters or the metrics choke on
    Caps,         \* --max-sessions, as each run may be given it
    MaxFaults     \* bound: failed writes and crashes of runners

ASSUME RunnerAssumption ==
    /\ Corrupt \subseteq Transcripts
    /\ Caps \subseteq Nat \ {0}
    /\ MaxFaults \in Nat

VARIABLES
    rows,       \* the parsable rows of session_metrics.jsonl
    tail,       \* how the file ends: at a line end, in the middle of a row, or
                \* in a whole row that lacks only its line end
    pc,         \* where each runner is
    seen,       \* its set of session ids
    arms,       \* its map from session to arm
    todo,       \* transcripts it has listed and not yet looked at
    row,        \* the transcript it has measured, and the row
    cap,        \* max_sessions of the run
    processed,  \* n_processed
    faults      \* faults so far (bound)

runnerVars == <<pc, seen, arms, todo, row, cap, processed>>
vars == <<injectionVars, rows, tail, runnerVars, faults>>

\* The numbers in a row are not modelled, nor the task record they use.
Row == [session: Sessions, arm: Arms \cup {"unknown"}]

NoRow == [of |-> None]

TypeOK ==
    /\ InjectionTypeOK
    /\ rows \in Seq(Row)
    /\ tail \in {"clean", "cut", "whole"}
    /\ tail = "whole" => rows # <<>>
    /\ pc \in [Runners -> {"off", "arms", "list", "scan", "append"}]
    /\ seen \in [Runners -> SUBSET Sessions]
    /\ arms \in [Runners -> [Sessions -> Arms \cup {"unknown"}]]
    /\ todo \in [Runners -> SUBSET Transcripts]
    /\ row \in [Runners -> [of: Transcripts, is: Row] \cup {NoRow}]
    /\ cap \in [Runners -> Caps \cup {0}]
    /\ processed \in [Runners -> Nat]
    /\ faults \in 0..MaxFaults

Unassigned == [s \in Sessions |-> "unknown"]

Init ==
    /\ InjectionInit
    /\ rows = <<>>
    /\ tail = "clean"
    /\ pc = [r \in Runners |-> "off"]
    /\ seen = [r \in Runners |-> {}]
    /\ arms = [r \in Runners |-> Unassigned]
    /\ todo = [r \in Runners |-> {}]
    /\ row = [r \in Runners |-> NoRow]
    /\ cap = [r \in Runners |-> 0]
    /\ processed = [r \in Runners |-> 0]
    /\ faults = 0

-----------------------------------------------------------------------------
(* The files.                                                              *)

SessionsIn(rs) == {rs[i].session : i \in DOMAIN rs}

\* Mutant: a session without a record gets no arm instead of "unknown".
ArmAssignmentsNone ==
    [s \in Sessions |->
        LET mine == {i \in DOMAIN log : log[i].session = s}
        IN  IF mine = {} THEN None
            ELSE log[CHOOSE i \in mine : \A j \in mine : j <= i].arm]

\* load_arm_assignments: the last record with a session id decides.
ArmAssignments ==
    [s \in Sessions |->
        LET mine == {i \in DOMAIN log : log[i].session = s}
        IN  IF mine = {} THEN "unknown"
            ELSE log[CHOOSE i \in mine : \A j \in mine : j <= i].arm]

\* Opened in append mode, a row joins whatever the file ends in: behind an
\* unfinished line both become one unparsable line.
Appended(new) ==
    CASE tail = "clean" -> Append(rows, new)
      [] tail = "cut"   -> rows
      [] tail = "whole" -> SubSeq(rows, 1, Len(rows) - 1)

-----------------------------------------------------------------------------
(* run_eval                                                                *)

\* Mutant: the ids of earlier runs are kept in memory as well.
ReadSeenCached(r) ==
    /\ pc[r] = "off"
    /\ pc' = [pc EXCEPT ![r] = "arms"]
    /\ seen' = [seen EXCEPT ![r] = @ \cup SessionsIn(rows)]
    /\ \E n \in Caps : cap' = [cap EXCEPT ![r] = n]
    /\ UNCHANGED <<injectionVars, rows, tail, arms, todo, row, processed, faults>>

\* _existing_session_ids
ReadSeen(r) ==
    /\ pc[r] = "off"
    /\ pc' = [pc EXCEPT ![r] = "arms"]
    /\ seen' = [seen EXCEPT ![r] = SessionsIn(rows)]
    /\ \E n \in Caps : cap' = [cap EXCEPT ![r] = n]
    /\ UNCHANGED <<injectionVars, rows, tail, arms, todo, row, processed, faults>>

LoadArms(r) ==
    /\ pc[r] = "arms"
    /\ pc' = [pc EXCEPT ![r] = "list"]
    /\ arms' = [arms EXCEPT ![r] = ArmAssignments]
    /\ UNCHANGED <<injectionVars, rows, tail, seen, todo, row, cap, processed, faults>>

\* Every transcript that has been written to, of a session in progress too.
ListTranscripts(r) ==
    /\ pc[r] = "list"
    /\ pc' = [pc EXCEPT ![r] = "scan"]
    /\ todo' = [todo EXCEPT ![r] = {t \in Transcripts : Arrived(t)}]
    /\ UNCHANGED <<injectionVars, rows, tail, seen, arms, row, cap, processed, faults>>

Scans(r, t) ==
    /\ pc[r] = "scan"
    /\ t \in todo[r]
    /\ processed[r] < cap[r]

\* A parse or metric error, or a session that is in the file already.
PassOver(r, t) ==
    /\ Scans(r, t)
    /\ t \in Corrupt \/ SessionOf[t] \in seen[r]
    /\ todo' = [todo EXCEPT ![r] = @ \ {t}]
    /\ UNCHANGED <<injectionVars, rows, tail, pc, seen, arms, row, cap, processed, faults>>

Measure(r, t) ==
    /\ Scans(r, t)
    /\ t \notin Corrupt
    /\ SessionOf[t] \notin seen[r]
    /\ pc' = [pc EXCEPT ![r] = "append"]
    /\ row' = [row EXCEPT
                 ![r] = [of |-> t,
                         is |-> [session |-> SessionOf[t],
                                 arm     |-> arms[r][SessionOf[t]]]]]
    /\ UNCHANGED <<injectionVars, rows, tail, seen, arms, todo, cap, processed, faults>>

\* Mutant: seen is not updated, a run trusts the set it began with.
AppendRowUnseen(r) ==
    /\ pc[r] = "append"
    /\ pc' = [pc EXCEPT ![r] = "scan"]
    /\ rows' = Appended(row[r].is)
    /\ tail' = "clean"
    /\ todo' = [todo EXCEPT ![r] = @ \ {row[r].of}]
    /\ row' = [row EXCEPT ![r] = NoRow]
    /\ processed' = [processed EXCEPT ![r] = @ + 1]
    /\ UNCHANGED <<injectionVars, seen, arms, cap, faults>>

AppendRow(r) ==
    /\ pc[r] = "append"
    /\ pc' = [pc EXCEPT ![r] = "scan"]
    /\ rows' = Appended(row[r].is)
    /\ tail' = "clean"
    /\ seen' = [seen EXCEPT ![r] = @ \cup {row[r].is.session}]
    /\ todo' = [todo EXCEPT ![r] = @ \ {row[r].of}]
    /\ row' = [row EXCEPT ![r] = NoRow]
    /\ processed' = [processed EXCEPT ![r] = @ + 1]
    /\ UNCHANGED <<injectionVars, arms, cap, faults>>

Stop(r) ==
    /\ pc' = [pc EXCEPT ![r] = "off"]
    /\ todo' = [todo EXCEPT ![r] = {}]
    /\ row' = [row EXCEPT ![r] = NoRow]
    /\ cap' = [cap EXCEPT ![r] = 0]
    /\ processed' = [processed EXCEPT ![r] = 0]
    /\ UNCHANGED <<injectionVars, seen, arms>>

Finish(r) ==
    /\ pc[r] = "scan"
    /\ todo[r] = {} \/ processed[r] >= cap[r]
    /\ Stop(r)
    /\ UNCHANGED <<rows, tail, faults>>

Fault == faults < MaxFaults /\ faults' = faults + 1

\* The write fails part of the way (a full disk, a power cut): the exception
\* is not caught and ends the run.
AppendBreaks(r) ==
    /\ Fault
    /\ pc[r] = "append"
    /\ \/ rows' = Appended(row[r].is) /\ tail' = "whole" /\ tail = "clean"
       \/ rows' = Appended(row[r].is) /\ tail' = "cut" /\ tail # "clean"
       \/ rows' = rows /\ tail' = "cut" /\ tail = "clean"
    /\ Stop(r)

Crash(r) ==
    /\ Fault
    /\ pc[r] # "off"
    /\ Stop(r)
    /\ UNCHANGED <<rows, tail>>

RunnerStep(r) ==
    \/ ReadSeen(r) \/ LoadArms(r) \/ ListTranscripts(r)
    \/ \E t \in Transcripts : PassOver(r, t) \/ Measure(r, t)
    \/ AppendRow(r) \/ Finish(r)

Next ==
    \/ InjectionNext /\ UNCHANGED <<rows, tail, runnerVars, faults>>
    \/ \E r \in Runners : RunnerStep(r) \/ AppendBreaks(r) \/ Crash(r)

Spec == Init /\ [][Next]_vars

\* The runner is started again and again, and gets through a run.
FairSpec == Spec /\ \A r \in Runners : WF_vars(RunnerStep(r))

-----------------------------------------------------------------------------
(* Properties.                                                             *)

RowsOf(s) == {i \in DOMAIN rows : rows[i].session = s}

(***************************************************************************)
(* eval/metrics.py:9-10: one line per session in the results store.  Holds *)
(* for runs one after the other, whatever crashes and torn writes come     *)
(* between them and however many transcripts a session has.  Does not hold *)
(* for runs at the same time.                                              *)
(***************************************************************************)
OneRowPerSession == \A s \in Sessions : Cardinality(RowsOf(s)) <= 1

(***************************************************************************)
(* What a runner believes to be in the file is no less than what is there. *)
(* With it OneRowPerSession is inductive, for one runner.                  *)
(***************************************************************************)
SeenCoversFile ==
    \A r \in Runners :
        /\ pc[r] # "off" => SessionsIn(rows) \subseteq seen[r]
        /\ pc[r] = "append" => row[r].is.session \notin seen[r]

(***************************************************************************)
(* A run that breaks off loses nothing for good: every session that can be *)
(* measured at all ends up in the file and stays there, although a torn    *)
(* line takes the row written behind it along.                             *)
(***************************************************************************)
EverySessionMeasured ==
    \A t \in Transcripts \ Corrupt :
        stage[t] = "live" ~> [](SessionOf[t] \in SessionsIn(rows))

-----------------------------------------------------------------------------
(* What the code says of itself and does not do.                           *)

(***************************************************************************)
(* eval/runner.py:59-61: sessions are mapped to arms by joining the        *)
(* injection log on session_id.  So a row has the arm its session ran      *)
(* under, when the retrieval was logged.                                   *)
(***************************************************************************)
ArmJoined ==
    \A i \in DOMAIN rows :
        rows[i].arm \in {arm[t] : t \in {u \in Transcripts : SessionOf[u] = rows[i].session}}

=============================================================================
