-------------------------- MODULE EvidenceCapture --------------------------
(***************************************************************************)
(* The scripts that gather evidence, and the files they share.             *)
(*                                                                         *)
(*   loop4_g8  wipes the stores of d2 and d5, runs both scripts afresh,    *)
(*             copies their reports and gives a verdict on them            *)
(*   d2, d5    ingest into a persistent store unless it holds something,   *)
(*             check what comes back and write a report; people also run   *)
(*             them by hand                                                *)
(*   d7        opens one backend per case and wipes mem0's migrations      *)
(*             folder after each                                           *)
(*   callers   use mem0 under the flock of memory/mem0_subprocess.py       *)
(*                                                                         *)
(* A lock belongs to a file, not to its path: removing the file lets the   *)
(* next process in while whoever locked it goes on.  Only the files at     *)
(* their paths are modelled, and what an open backend still sees of a      *)
(* store folder that is gone.                                              *)
(***************************************************************************)
EXTENDS Integers, FiniteSets

CONSTANTS
    D2Runs, D5Runs,  \* processes that run d2 and d5
    Child2, Child5,  \* the two of them that g8 starts
    Callers,         \* processes that make a mem0 call in a worker
    Casts            \* bound: which processes are about besides g8, together

ASSUME CaptureAssumption ==
    /\ Child2 \in D2Runs
    /\ Child5 \in D5Runs
    /\ D2Runs \cap D5Runs = {}
    /\ (D2Runs \cup D5Runs) \cap Callers = {}
    /\ "d7" \notin D2Runs \cup D5Runs \cup Callers
    /\ Casts \subseteq SUBSET (D2Runs \cup D5Runs \cup Callers \cup {"d7"})

Stores == {"d2", "d5"}

\* The migrations folder of mem0 and the lock file of mem0_subprocess.
Paths == Stores \cup {"mig", "subproc"}

Runs == D2Runs \cup D5Runs

StoreOf(p) == IF p \in D2Runs THEN "d2" ELSE "d5"

Child(k) == IF k = "d2" THEN Child2 ELSE Child5

VARIABLES
    held,     \* locks on the files in place: process, backend, path
    filled,   \* stores with memories in them
    report,   \* the report of d2 and of d5
    pc,       \* where each run, each caller and d7 are
    sees,     \* the store folder a run's backend has opened: the one in place,
              \* or one removed since, that has memories or has none
    notes,    \* what a run has to report
    rc,       \* how each run ended
    g8,       \* where g8 is
    seen,     \* the reports g8 has copied
    verdict,  \* g8_pass
    d7        \* the case d7 is in

files == <<held, filled, report>>
runVars == <<sees, notes, rc>>
g8Vars == <<g8, seen, verdict>>
vars == <<files, pc, runVars, g8Vars, d7>>

Backends == {"main", "walled"}

Procs == Runs \cup Callers \cup {"d7"}

\* Ids come from answers of the LLM, which are metered: the calls a report
\* counts are positive when there are ids, and not modelled.
Notes == [skipped: BOOLEAN, ids: BOOLEAN, fatal: BOOLEAN]

\* since tells whether g8 was past wiping the store when the report was
\* written (history).
Report == [notes: Notes, since: BOOLEAN]

NoReport == [absent |-> TRUE]
Torn == [torn |-> TRUE]

NoNotes == [skipped |-> FALSE, ids |-> FALSE, fatal |-> FALSE]

FreshNotes == [NoNotes EXCEPT !.ids = TRUE]

\* What g8 is doing, and to what.
G8PC == {"wipe", "run", "wait", "read"} \X Stores
        \cup {"unlink"} \X {"mig", "subproc"}
        \cup {"off", "judge", "ended"} \X {"all"}

RunPC == {"off", "open", "ingest", "close", "reopen", "search", "walled",
          "report", "write", "exit", "ended"}

TypeOK ==
    /\ held \subseteq Procs \X Backends \X Paths
    /\ filled \subseteq Stores
    /\ report \in [Stores -> Report \cup {NoReport, Torn}]
    /\ pc \in [Procs -> RunPC \cup {"locked", "working", "wipe", "return"}]
    /\ sees \in [Runs -> {"none", "in place", "gone, full", "gone, empty"}]
    /\ notes \in [Runs -> Notes]
    /\ rc \in [Runs -> {"none", "zero", "nonzero"}]
    /\ g8 \in G8PC
    /\ seen \in [Stores -> Report \cup {NoReport, Torn}]
    /\ verdict \in BOOLEAN
    /\ d7 \in 1..6

\* The stores and reports are what earlier runs have left.
Init ==
    /\ held = {}
    /\ filled \in SUBSET Stores
    /\ report \in [Stores -> {NoReport, [notes |-> FreshNotes, since |-> FALSE]}]
    /\ \E cast \in Casts :
          pc = [p \in Procs |-> IF p \in cast \cup {Child2, Child5}
                               THEN "off" ELSE "ended"]
    /\ sees = [p \in Runs |-> "none"]
    /\ notes = [p \in Runs |-> NoNotes]
    /\ rc = [p \in Runs |-> "none"]
    /\ g8 = <<"off", "all">>
    /\ seen = [k \in Stores |-> NoReport]
    /\ verdict = FALSE
    /\ d7 = 1

-----------------------------------------------------------------------------
(* Files and locks.                                                        *)

Free(r) == \A h \in held : h[3] # r

LocksOf(p, b, R) == {<<p, b, r>> : r \in R}

Without(p) == {h \in held : h[1] # p}

\* An open backend keeps the folder that is removed under it.
LeftBehind(k, p) ==
    IF StoreOf(p) = k /\ sees[p] = "in place"
    THEN IF k \in filled THEN "gone, full" ELSE "gone, empty"
    ELSE sees[p]

\* rmtree(ignore_errors=True), and an unlink in a try: the file goes, or stays
\* without a word.
MayRemove(r) ==
    \/ /\ held' = {h \in held : h[3] # r}
       /\ filled' = filled \ {r}
       /\ sees' = [p \in Runs |-> LeftBehind(r, p)]
    \/ UNCHANGED <<held, filled, sees>>

-----------------------------------------------------------------------------
(* The end of a run: its locks and all it knows go with its process.       *)

Ends(p, code) ==
    /\ pc' = [pc EXCEPT ![p] = "ended"]
    /\ rc' = [rc EXCEPT ![p] = code]
    /\ held' = Without(p)
    /\ notes' = [notes EXCEPT ![p] = NoNotes]
    /\ sees' = [sees EXCEPT ![p] = "none"]

\* A failed assertion, an exception or a kill.
Crash(p) ==
    /\ pc[p] \notin {"off", "ended"}
    /\ Ends(p, "nonzero")
    /\ UNCHANGED <<filled, report, g8Vars, d7>>

\* Started by hand; g8 starts its children itself.
Start(p) ==
    /\ p \notin {Child2, Child5}
    /\ pc[p] = "off"
    /\ pc' = [pc EXCEPT ![p] = "open"]
    /\ UNCHANGED <<files, runVars, g8Vars, d7>>

-----------------------------------------------------------------------------
(* d2 and d5.                                                              *)

Needs(p) == {StoreOf(p), "mig"}

\* Mem0Backend(...) opens: mem0 locks the folder of the store and the
\* migrations folder.
Opens(p) ==
    /\ \A r \in Needs(p) : Free(r)
    /\ held' = held \cup LocksOf(p, "main", Needs(p))
    /\ sees' = [sees EXCEPT ![p] = "in place"]

OpenBackend(p) ==
    /\ pc[p] = "open"
    /\ Opens(p)
    /\ pc' = [pc EXCEPT ![p] = "ingest"]
    /\ UNCHANGED <<filled, report, notes, rc, g8Vars, d7>>

\* It cannot open, for these locks or any other reason.  d2 reports that; d5
\* counts no memory, ingests none and fails its assertion (Crash).
D2Unhealthy(p) ==
    /\ p \in D2Runs
    /\ pc[p] = "open"
    /\ notes' = [notes EXCEPT ![p].fatal = TRUE]
    /\ pc' = [pc EXCEPT ![p] = "report"]
    /\ UNCHANGED <<files, sees, rc, g8Vars, d7>>

Populated(p) ==
    IF sees[p] = "in place" THEN StoreOf(p) \in filled ELSE sees[p] = "gone, full"

\* Past the assertion that the store holds something.
Ingested(p) == pc' = [pc EXCEPT ![p] = IF p \in D2Runs THEN "search" ELSE "close"]

\* The count is positive: nothing to do.
SkipIngest(p) ==
    /\ pc[p] = "ingest"
    /\ Populated(p)
    /\ notes' = [notes EXCEPT ![p].skipped = TRUE]
    /\ Ingested(p)
    /\ UNCHANGED <<files, sees, rc, g8Vars, d7>>

\* The store is empty, or its count is unknown and reads 0.
Ingest(p) ==
    /\ pc[p] = "ingest"
    /\ \E ids \in BOOLEAN :
          /\ ids \/ Populated(p)
          /\ notes' = [notes EXCEPT ![p].ids = ids]
    /\ IF sees[p] = "in place"
       THEN filled' = filled \cup {StoreOf(p)} /\ UNCHANGED sees
       ELSE sees' = [sees EXCEPT ![p] = "gone, full"] /\ UNCHANGED filled
    /\ Ingested(p)
    /\ UNCHANGED <<held, report, rc, g8Vars, d7>>

\* d5 closes the client of its writer, whatever comes of it, and drops the
\* writer; what the collector does not free stays locked.
CloseWriter(p) ==
    /\ pc[p] = "close"
    /\ \E kept \in SUBSET {h \in held : h[1] = p} : held' = Without(p) \cup kept
    /\ sees' = [sees EXCEPT ![p] = "none"]
    /\ pc' = [pc EXCEPT ![p] = "reopen"]
    /\ UNCHANGED <<filled, report, notes, rc, g8Vars, d7>>

OpenReader(p) ==
    /\ pc[p] = "reopen"
    /\ Opens(p)
    /\ pc' = [pc EXCEPT ![p] = "search"]
    /\ UNCHANGED <<filled, report, notes, rc, g8Vars, d7>>

\* Some query finds something; d2 also ingests its sentinel and finds it.
Search(p) ==
    /\ pc[p] = "search"
    /\ Populated(p)
    /\ pc' = [pc EXCEPT ![p] = IF p \in D2Runs THEN "report" ELSE "walled"]
    /\ UNCHANGED <<files, runVars, g8Vars, d7>>

\* d5 opens a second backend on the store, with the reader alive, to count
\* what a scope with the cli in it can see.  Refused, it counts 0.
OpenWalled(p) ==
    /\ pc[p] = "walled"
    /\ \/ /\ \A r \in Needs(p) : Free(r)
          /\ held' = held \cup LocksOf(p, "walled", Needs(p))
       \/ UNCHANGED held
    /\ pc' = [pc EXCEPT ![p] = "report"]
    /\ UNCHANGED <<filled, report, runVars, g8Vars, d7>>

\* g8 is past wiping the store.
Wiped(k) ==
    /\ g8 \notin {<<"off", "all">>, <<"wipe", "d2">>}
    /\ k = "d5" => g8 # <<"wipe", "d5">>

\* write_text truncates the report and writes it.
TruncateReport(p) ==
    /\ pc[p] = "report"
    /\ report' = [report EXCEPT ![StoreOf(p)] = Torn]
    /\ pc' = [pc EXCEPT ![p] = "write"]
    /\ UNCHANGED <<held, filled, runVars, g8Vars, d7>>

WriteReport(p) ==
    /\ pc[p] = "write"
    /\ report' = [report EXCEPT ![StoreOf(p)] =
                     [notes |-> notes[p], since |-> Wiped(StoreOf(p))]]
    /\ pc' = [pc EXCEPT ![p] = "exit"]
    /\ UNCHANGED <<held, filled, runVars, g8Vars, d7>>

Exit(p) ==
    /\ pc[p] = "exit"
    /\ Ends(p, IF notes[p].fatal THEN "nonzero" ELSE "zero")
    /\ UNCHANGED <<filled, report, g8Vars, d7>>

Run(p) ==
    \/ OpenBackend(p) \/ D2Unhealthy(p) \/ SkipIngest(p) \/ Ingest(p)
    \/ CloseWriter(p) \/ OpenReader(p) \/ Search(p) \/ OpenWalled(p)
    \/ TruncateReport(p) \/ WriteReport(p) \/ Exit(p) \/ Crash(p)

-----------------------------------------------------------------------------
(* g8                                                                      *)

G8Begins ==
    /\ g8 = <<"off", "all">>
    /\ g8' = <<"wipe", "d2">>
    /\ UNCHANGED <<files, pc, runVars, seen, verdict, d7>>

\* The store goes, whoever has it open, or some of it cannot be removed and it
\* stays as it was.
WipeStore(k) ==
    /\ g8 = <<"wipe", k>>
    /\ g8' = IF k = "d2" THEN <<"wipe", "d5">> ELSE <<"unlink", "mig">>
    /\ MayRemove(k)
    /\ UNCHANGED <<report, pc, notes, rc, seen, verdict, d7>>

\* "For hygiene": the lock files, held or not.
UnlinkLock(r) ==
    /\ g8 = <<"unlink", r>>
    /\ g8' = IF r = "mig" THEN <<"unlink", "subproc">> ELSE <<"run", "d2">>
    /\ MayRemove(r)
    /\ UNCHANGED <<report, pc, notes, rc, seen, verdict, d7>>

RunScript(k) ==
    /\ g8 = <<"run", k>>
    /\ g8' = <<"wait", k>>
    /\ pc' = [pc EXCEPT ![Child(k)] = "open"]
    /\ UNCHANGED <<files, runVars, seen, verdict, d7>>

ScriptEnds(k) ==
    /\ g8 = <<"wait", k>>
    /\ pc[Child(k)] = "ended"
    /\ g8' = <<"read", k>>
    /\ UNCHANGED <<files, pc, runVars, seen, verdict, d7>>

\* Mutant: the script is waited for without a timeout.
ScriptNeverTimesOut(k) == FALSE /\ UNCHANGED vars

\* 600 seconds: the script is killed, and nothing catches the exception in g8.
ScriptTimesOut(k) ==
    /\ g8 = <<"wait", k>>
    /\ pc[Child(k)] # "ended"
    /\ Ends(Child(k), "nonzero")
    /\ g8' = <<"ended", "all">>
    /\ UNCHANGED <<filled, report, seen, verdict, d7>>

\* Whatever report is there is taken for the one of this run.
ReadReport(k) ==
    /\ g8 = <<"read", k>>
    /\ seen' = [seen EXCEPT ![k] = report[k]]
    /\ g8' = IF k = "d2" THEN <<"run", "d5">> ELSE <<"judge", "all">>
    /\ UNCHANGED <<files, pc, runVars, verdict, d7>>

\* A report that is missing, torn or FATAL has no ingest to judge by.
CriteriaMet(k) ==
    /\ seen[k] \in Report
    /\ ~seen[k].notes.skipped
    /\ seen[k].notes.ids

\* Mutant: the verdict goes by the reports alone.
JudgeByReports ==
    /\ g8 = <<"judge", "all">>
    /\ verdict' = (\A k \in Stores : CriteriaMet(k))
    /\ g8' = <<"ended", "all">>
    /\ UNCHANGED <<files, pc, runVars, seen, d7>>

Judge ==
    /\ g8 = <<"judge", "all">>
    /\ verdict' = (\A k \in Stores : rc[Child(k)] = "zero" /\ CriteriaMet(k))
    /\ g8' = <<"ended", "all">>
    /\ UNCHANGED <<files, pc, runVars, seen, d7>>

G8Crashes ==
    /\ g8 \notin {<<"off", "all">>, <<"ended", "all">>}
    /\ g8' = <<"ended", "all">>
    /\ UNCHANGED <<files, pc, runVars, seen, verdict, d7>>

G8 ==
    \/ Judge
    \/ \E k \in Stores : \/ WipeStore(k) \/ RunScript(k) \/ ScriptEnds(k)
                         \/ ScriptTimesOut(k) \/ ReadReport(k)
    \/ \E r \in {"mig", "subproc"} : UnlinkLock(r)

-----------------------------------------------------------------------------
(* d7: one process, six cases, each with a backend on a temporary store.   *)

\* main wipes the migrations folder before the first case.
D7Begins ==
    /\ pc["d7"] = "off"
    /\ pc' = [pc EXCEPT !["d7"] = "open"]
    /\ MayRemove("mig")
    /\ UNCHANGED <<report, notes, rc, g8Vars, d7>>

\* Mutant: nothing ends the cases.
D7OpensForever ==
    /\ pc["d7"] = "open"
    /\ \/ Free("mig") /\ held' = held \cup LocksOf("d7", "main", {"mig"})
       \/ UNCHANGED held
    /\ pc' = [pc EXCEPT !["d7"] = "wipe"]
    /\ UNCHANGED <<filled, report, runVars, g8Vars, d7>>

\* The backend of a case opens, or does not; the case goes on without. The
\* sixth neither closes its backend nor wipes.
D7Opens ==
    /\ pc["d7"] = "open"
    /\ \/ Free("mig") /\ held' = held \cup LocksOf("d7", "main", {"mig"})
       \/ UNCHANGED held
    /\ pc' = [pc EXCEPT !["d7"] = IF d7 = 6 THEN "report" ELSE "wipe"]
    /\ UNCHANGED <<filled, report, runVars, g8Vars, d7>>

\* _close_mem0_backend does not reach the client of the migrations folder:
\* the folder is removed with the lock on it, and the backend is freed when
\* the case returns, or later.
D7Wipes ==
    /\ pc["d7"] = "wipe"
    /\ MayRemove("mig")
    /\ pc' = [pc EXCEPT !["d7"] = "return"]
    /\ UNCHANGED <<report, notes, rc, g8Vars, d7>>

D7Returns ==
    /\ pc["d7"] = "return"
    /\ held' \in {held, Without("d7")}
    /\ d7' = d7 + 1
    /\ pc' = [pc EXCEPT !["d7"] = "open"]
    /\ UNCHANGED <<filled, report, runVars, g8Vars>>

\* Its report is not one of those g8 reads.
D7Reports ==
    /\ pc["d7"] = "report"
    /\ pc' = [pc EXCEPT !["d7"] = "ended"]
    /\ held' = Without("d7")
    /\ UNCHANGED <<filled, report, runVars, g8Vars, d7>>

D7Crashes ==
    /\ pc["d7"] \notin {"off", "ended"}
    /\ pc' = [pc EXCEPT !["d7"] = "ended"]
    /\ held' = Without("d7")
    /\ UNCHANGED <<filled, report, runVars, g8Vars, d7>>

D7 == D7Crashes \/ D7Begins \/ D7Opens \/ D7Wipes \/ D7Returns \/ D7Reports

-----------------------------------------------------------------------------
(* Callers: mem0_subprocess takes its lock, then a worker opens mem0.      *)

CallerLocks(c) ==
    /\ pc[c] = "off"
    /\ Free("subproc")
    /\ held' = held \cup LocksOf(c, "main", {"subproc"})
    /\ pc' = [pc EXCEPT ![c] = "locked"]
    /\ UNCHANGED <<filled, report, runVars, g8Vars, d7>>

\* Mutant: the worker closes the lock file before it opens mem0.
CallerWorksUnlocked(c) ==
    /\ pc[c] = "locked"
    /\ \/ Free("mig") /\ held' = Without(c) \cup LocksOf(c, "main", {"mig"})
       \/ held' = Without(c)
    /\ pc' = [pc EXCEPT ![c] = "working"]
    /\ UNCHANGED <<filled, report, runVars, g8Vars, d7>>

CallerWorks(c) ==
    /\ pc[c] = "locked"
    /\ \/ Free("mig") /\ held' = held \cup LocksOf(c, "main", {"mig"})
       \/ UNCHANGED held
    /\ pc' = [pc EXCEPT ![c] = "working"]
    /\ UNCHANGED <<filled, report, runVars, g8Vars, d7>>

CallerEnds(c) ==
    /\ pc[c] \in {"locked", "working"}
    /\ held' = Without(c)
    /\ pc' = [pc EXCEPT ![c] = "off"]
    /\ UNCHANGED <<filled, report, runVars, g8Vars, d7>>

Caller(c) == CallerLocks(c) \/ CallerWorks(c) \/ CallerEnds(c)

-----------------------------------------------------------------------------

Next ==
    \/ \E p \in Runs : Start(p) \/ Run(p)
    \/ G8Begins \/ G8 \/ G8Crashes
    \/ D7
    \/ \E c \in Callers : Caller(c)

\* g8 is a running process, and its wait is bounded by the timeout.  Nothing
\* is assumed of the scripts: they may hang.
Fairness == WF_g8Vars(G8)

Spec == Init /\ [][Next]_vars /\ Fairness

-----------------------------------------------------------------------------
(* Properties.                                                             *)

(***************************************************************************)
(* A verdict of "pass" is about this capture: both reports were written    *)
(* after the wipe, whatever earlier runs and crashed children have left,   *)
(* and the stores at the paths have memories, although scripts run by hand *)
(* may have ingested into the folders that were wiped.                     *)
(***************************************************************************)
VerdictIsFresh ==
    verdict => \A k \in Stores : seen[k].since /\ k \in filled

\* The lock file of mem0_subprocess has not been removed.
LockFileKept ==
    g8 \in {<<"off", "all">>, <<"wipe", "d2">>, <<"wipe", "d5">>,
           <<"unlink", "mig">>, <<"unlink", "subproc">>}

(***************************************************************************)
(* The flock makes callers take turns, and what g8 removes for hygiene     *)
(* lets one more of them in, and no third: whoever was in goes on beside   *)
(* whoever locks the new file, and everybody else waits for that one.      *)
(***************************************************************************)
OverlapBounded ==
    Cardinality({c \in Callers : pc[c] \in {"locked", "working"}})
        <= IF LockFileKept THEN 1 ELSE 2

\* Once started, g8 comes to an end, whatever its scripts do.
CaptureEnds == (g8 # <<"off", "all">>) ~> (g8 = <<"ended", "all">>)

-----------------------------------------------------------------------------
(* What the code says of itself and does not do.                           *)

(***************************************************************************)
(* d5_cross_cli_bridging.py:221-223: d5 confirms the wall between scopes   *)
(* by reading the store with a second backend, which counts 0 memories.    *)
(* Then what the second backend has to lock must not be held by the run    *)
(* itself; refused, it counts 0 too, walls or no walls.                    *)
(***************************************************************************)
WallCanBeRead ==
    \A p \in D5Runs :
        pc[p] = "walled" => \A h \in held : h[3] \in Needs(p) => h[1] # p

=============================================================================
