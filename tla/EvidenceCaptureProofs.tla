----------------------- MODULE EvidenceCaptureProofs -----------------------
(***************************************************************************)
(* Proofs about EvidenceCapture, for any runs of d2 and d5, any callers    *)
(* and any choice of who is about.                                         *)
(***************************************************************************)
EXTENDS EvidenceCapture, FiniteSetTheorems, TLAPS

(* The constants, unfolded. *)
LEMMA Constants ==
    /\ Child2 \in Runs /\ Child5 \in Runs /\ Child2 # Child5
    /\ \A k \in Stores : Child(k) \in Runs /\ StoreOf(Child(k)) = k
    /\ \A p \in Runs : p \in Procs /\ p # "d7" /\ p \notin Callers /\ StoreOf(p) \in Stores
    /\ \A c \in Callers : c \in Procs /\ c # "d7" /\ c \notin Runs
    /\ \A p \in D5Runs : p \in Runs /\ StoreOf(p) = "d5"
    /\ \A p \in Runs : p \notin D2Runs => p \in D5Runs
    /\ "d7" \in Procs
    /\ Stores \subseteq Paths
  BY CaptureAssumption DEF Runs, Procs, Stores, Paths, StoreOf, Child

AllPC == RunPC \cup {"locked", "working", "wipe", "return"}

AllLocks == Procs \X Backends \X Paths

Sights == {"none", "in place", "gone, full", "gone, empty"}

(* The locks a backend takes are locks. *)
LEMMA LocksType ==
    ASSUME NEW p \in Procs, NEW b \in Backends, NEW R \in SUBSET Paths
    PROVE  LocksOf(p, b, R) \subseteq AllLocks
  BY DEF LocksOf, AllLocks

(* What a run locks is at a path. *)
LEMMA NeedsType == ASSUME NEW p \in Runs PROVE Needs(p) \in SUBSET Paths
  BY Constants DEF Needs, Paths

(* What removing a path leaves is well typed. *)
LEMMA MayRemoveType ==
    ASSUME TypeOK, NEW r \in Paths, MayRemove(r)
    PROVE  /\ held' \in SUBSET held
           /\ held' \in SUBSET AllLocks
           /\ filled' \in SUBSET Stores
           /\ sees' \in [Runs -> Sights]
<1>1. held \in SUBSET AllLocks /\ filled \in SUBSET Stores /\ sees \in [Runs -> Sights]
  BY DEF TypeOK, AllLocks, Sights
<1>2. CASE UNCHANGED <<held, filled, sees>>
  BY <1>1, <1>2
<1>3. CASE /\ held' = {h \in held : h[3] # r}
           /\ filled' = filled \ {r}
           /\ sees' = [p \in Runs |-> LeftBehind(r, p)]
  <2>1. ASSUME NEW p \in Runs PROVE LeftBehind(r, p) \in Sights
    BY <1>1 DEF LeftBehind, Sights
  <2>2. QED
    BY <1>1, <1>3, <2>1
<1>4. QED
  BY <1>2, <1>3 DEF MayRemove

(* So is the end of a run. *)
LEMMA EndsType ==
    ASSUME TypeOK, NEW p \in Runs, NEW code \in {"zero", "nonzero"}, Ends(p, code)
    PROVE  /\ pc' \in [Procs -> AllPC]
           /\ rc' \in [Runs -> {"none", "zero", "nonzero"}]
           /\ held' \in SUBSET held
           /\ held' \in SUBSET AllLocks
           /\ notes' \in [Runs -> Notes]
           /\ sees' \in [Runs -> Sights]
<1>1. NoNotes \in Notes
  BY DEF NoNotes, Notes
<1>2. "ended" \in AllPC
  BY DEF AllPC, RunPC
<1>3. pc' \in [Procs -> AllPC]
  BY <1>2, Constants DEF TypeOK, Ends, AllPC
<1>4. held' \in SUBSET held /\ held' \in SUBSET AllLocks
  BY DEF TypeOK, Ends, Without, AllLocks
<1>5. notes' \in [Runs -> Notes]
  BY <1>1 DEF TypeOK, Ends
<1>6. QED
  BY <1>3, <1>4, <1>5 DEF TypeOK, Ends, Sights

D7Cases == pc["d7"] \in {"wipe", "return"} => d7 \in 1..5

TypeInv == TypeOK /\ D7Cases

(* The initial state is well typed. *)
LEMMA TypeInit == Init => TypeInv
<1> SUFFICES ASSUME Init PROVE TypeInv
  OBVIOUS
<1>1. FreshNotes \in Notes /\ NoNotes \in Notes
  BY DEF FreshNotes, NoNotes, Notes
<1>2. report \in [Stores -> Report \cup {NoReport, Torn}]
  <2>1. [notes |-> FreshNotes, since |-> FALSE] \in Report
    BY <1>1 DEF Report
  <2>2. QED
    BY <2>1 DEF Init
<1>3. PICK cast \in Casts :
         pc = [p \in Procs |-> IF p \in cast \cup {Child2, Child5} THEN "off" ELSE "ended"]
  BY DEF Init
<1>4. pc \in [Procs -> RunPC \cup {"locked", "working", "wipe", "return"}]
  BY <1>3 DEF RunPC
<1>5. d7 \in 1..6
  BY DEF Init
<1>6. seen \in [Stores -> Report \cup {NoReport, Torn}]
  BY DEF Init
<1>7. notes \in [Runs -> Notes]
  BY <1>1 DEF Init
<1>8. g8 \in G8PC
  BY DEF Init, G8PC
<1>9. TypeOK
  BY <1>2, <1>4, <1>5, <1>6, <1>7, <1>8 DEF Init, TypeOK
<1>10. D7Cases
  BY <1>3, Constants DEF D7Cases
<1>11. QED
  BY <1>9, <1>10 DEF TypeInv

(* Every step of a run keeps the types. *)
LEMMA RunType ==
    ASSUME TypeInv, NEW p \in Runs, Start(p) \/ Run(p)
    PROVE  TypeInv'
<1>a. p \in Procs /\ p # "d7" /\ StoreOf(p) \in Stores
  BY Constants
<1>b. /\ pc \in [Procs -> AllPC] /\ held \in SUBSET AllLocks /\ sees \in [Runs -> Sights]
      /\ notes \in [Runs -> Notes] /\ report \in [Stores -> Report \cup {NoReport, Torn}]
      /\ filled \in SUBSET Stores
  BY DEF TypeInv, TypeOK, AllPC, AllLocks, Sights
<1>c. ASSUME NEW v \in RunPC, pc' = [pc EXCEPT ![p] = v]
      PROVE  pc' \in [Procs -> AllPC] /\ pc'["d7"] = pc["d7"]
  BY <1>a, <1>b, <1>c, Constants DEF AllPC
<1>d. ASSUME NEW b \in Backends, NEW H \in SUBSET held, held' = H \cup LocksOf(p, b, Needs(p))
      PROVE  held' \in SUBSET AllLocks
  BY <1>a, <1>b, <1>d, LocksType, NeedsType
<1>e. /\ "open" \in RunPC /\ "ingest" \in RunPC /\ "close" \in RunPC /\ "reopen" \in RunPC
      /\ "search" \in RunPC /\ "walled" \in RunPC /\ "report" \in RunPC /\ "write" \in RunPC
      /\ "exit" \in RunPC
  BY DEF RunPC
<1>f. "main" \in Backends /\ "walled" \in Backends /\ held \in SUBSET held
  BY DEF Backends
<1>g. ASSUME NEW n \in Notes, NEW x \in BOOLEAN
      PROVE  /\ [n EXCEPT !.fatal = x] \in Notes
             /\ [n EXCEPT !.skipped = x] \in Notes
             /\ [n EXCEPT !.ids = x] \in Notes
  BY <1>g DEF Notes
<1>h. SUFFICES /\ pc' \in [Procs -> AllPC] /\ pc'["d7"] = pc["d7"]
               /\ held' \in SUBSET AllLocks
               /\ filled' \in SUBSET Stores
               /\ report' \in [Stores -> Report \cup {NoReport, Torn}]
               /\ sees' \in [Runs -> Sights]
               /\ notes' \in [Runs -> Notes]
               /\ rc' \in [Runs -> {"none", "zero", "nonzero"}]
               /\ UNCHANGED <<g8Vars, d7>>
  BY DEF TypeInv, TypeOK, D7Cases, AllPC, AllLocks, Sights, g8Vars
<1>i. rc \in [Runs -> {"none", "zero", "nonzero"}]
  BY DEF TypeInv, TypeOK
<1>1. CASE Start(p)
  BY <1>1, <1>b, <1>c, <1>e, <1>i DEF Start, files, runVars
<1>2. CASE OpenBackend(p)
  <2>1. sees' \in [Runs -> Sights] /\ held' \in SUBSET AllLocks
    BY <1>2, <1>b, <1>d, <1>f DEF OpenBackend, Opens, Sights
  <2>2. QED
    BY <1>2, <2>1, <1>b, <1>c, <1>e, <1>i DEF OpenBackend
<1>3. CASE D2Unhealthy(p)
  <2>1. notes' \in [Runs -> Notes]
    BY <1>3, <1>b, <1>g DEF D2Unhealthy
  <2>2. QED
    BY <1>3, <2>1, <1>b, <1>c, <1>e, <1>i DEF D2Unhealthy, files
<1>j. ASSUME Ingested(p) PROVE pc' \in [Procs -> AllPC] /\ pc'["d7"] = pc["d7"]
  BY <1>j, <1>c, <1>e DEF Ingested
<1>4. CASE SkipIngest(p)
  <2>1. notes' \in [Runs -> Notes]
    BY <1>4, <1>b, <1>g DEF SkipIngest
  <2>2. QED
    BY <1>4, <2>1, <1>b, <1>i, <1>j DEF SkipIngest, files
<1>5. CASE Ingest(p)
  <2>1. notes' \in [Runs -> Notes]
    <3>1. PICK ids \in BOOLEAN : notes' = [notes EXCEPT ![p].ids = ids]
      BY <1>5 DEF Ingest
    <3>2. QED
      BY <3>1, <1>b, <1>g
  <2>2. filled' \in SUBSET Stores /\ sees' \in [Runs -> Sights]
    BY <1>5, <1>a, <1>b DEF Ingest, Sights
  <2>3. QED
    BY <1>5, <2>1, <2>2, <1>b, <1>i, <1>j DEF Ingest
<1>6. CASE CloseWriter(p)
  <2>1. held' \in SUBSET AllLocks
    BY <1>6, <1>b DEF CloseWriter, Without
  <2>2. sees' \in [Runs -> Sights]
    BY <1>6, <1>b DEF CloseWriter, Sights
  <2>3. QED
    BY <1>6, <2>1, <2>2, <1>b, <1>c, <1>e, <1>i DEF CloseWriter
<1>7. CASE OpenReader(p)
  <2>1. sees' \in [Runs -> Sights] /\ held' \in SUBSET AllLocks
    BY <1>7, <1>b, <1>d, <1>f DEF OpenReader, Opens, Sights
  <2>2. QED
    BY <1>7, <2>1, <1>b, <1>c, <1>e, <1>i DEF OpenReader
<1>8. CASE Search(p)
  <2>1. pc' \in [Procs -> AllPC] /\ pc'["d7"] = pc["d7"]
    BY <1>8, <1>c, <1>e DEF Search
  <2>2. QED
    BY <1>8, <2>1, <1>b, <1>i DEF Search, files, runVars
<1>9. CASE OpenWalled(p)
  <2>1. held' \in SUBSET AllLocks
    BY <1>9, <1>b, <1>d, <1>f DEF OpenWalled
  <2>2. QED
    BY <1>9, <2>1, <1>b, <1>c, <1>e, <1>i DEF OpenWalled, runVars
<1>10. CASE TruncateReport(p)
  BY <1>10, <1>b, <1>c, <1>e, <1>i DEF TruncateReport, runVars
<1>11. CASE WriteReport(p)
  <2>1. Wiped(StoreOf(p)) \in BOOLEAN
    BY DEF Wiped
  <2>2. [notes |-> notes[p], since |-> Wiped(StoreOf(p))] \in Report
    BY <2>1, <1>b DEF Report
  <2>3. report' \in [Stores -> Report \cup {NoReport, Torn}]
    BY <1>11, <2>2, <1>b DEF WriteReport
  <2>4. QED
    BY <1>11, <2>3, <1>b, <1>c, <1>e, <1>i DEF WriteReport, runVars
<1>12. ASSUME NEW code \in {"zero", "nonzero"}, Ends(p, code),
              UNCHANGED <<filled, report, g8Vars, d7>>
       PROVE  /\ pc' \in [Procs -> AllPC] /\ pc'["d7"] = pc["d7"]
              /\ held' \in SUBSET AllLocks
              /\ filled' \in SUBSET Stores
              /\ report' \in [Stores -> Report \cup {NoReport, Torn}]
              /\ sees' \in [Runs -> Sights]
              /\ notes' \in [Runs -> Notes]
              /\ rc' \in [Runs -> {"none", "zero", "nonzero"}]
              /\ UNCHANGED <<g8Vars, d7>>
  <2>1. pc'["d7"] = pc["d7"]
    BY <1>12, <1>a, <1>b, Constants DEF Ends
  <2>2. TypeOK
    BY DEF TypeInv
  <2>3. QED
    BY <1>12, <2>1, <2>2, <1>b, EndsType
<1>13. QED
  BY <1>1, <1>2, <1>3, <1>4, <1>5, <1>6, <1>7, <1>8, <1>9, <1>10, <1>11, <1>12 DEF Run, Exit, Crash

(* So does every step of g8. *)
LEMMA G8Type ==
    ASSUME TypeInv, G8Begins \/ G8 \/ G8Crashes
    PROVE  TypeInv'
<1> USE Constants DEF TypeInv
<1>1. CASE G8Begins
  BY <1>1 DEF G8Begins, TypeOK, D7Cases, files, runVars, G8PC, Stores
<1>2. CASE Judge
  BY <1>2 DEF Judge, TypeOK, D7Cases, files, runVars, G8PC, Stores
<1>3. ASSUME NEW k \in Stores, WipeStore(k) PROVE TypeInv'
  <2>1. g8' \in G8PC
    BY <1>3 DEF WipeStore, G8PC, Stores
  <2>2. k \in Paths /\ MayRemove(k)
    BY <1>3 DEF WipeStore, Paths
  <2>3. held' \in SUBSET AllLocks /\ filled' \in SUBSET Stores /\ sees' \in [Runs -> Sights]
    BY <2>2, MayRemoveType
  <2>4. QED
    BY <1>3, <2>1, <2>3 DEF WipeStore, TypeOK, D7Cases, AllLocks, Sights
<1>4. ASSUME NEW k \in Stores, RunScript(k) PROVE TypeInv'
  BY <1>4, ZenonT(30) DEF RunScript, TypeOK, D7Cases, files, runVars, G8PC, RunPC
<1>5. ASSUME NEW k \in Stores, ScriptEnds(k) PROVE TypeInv'
  BY <1>5 DEF ScriptEnds, TypeOK, D7Cases, files, runVars, G8PC
<1>6. ASSUME NEW k \in Stores, ScriptTimesOut(k) PROVE TypeInv'
  <2>1. Child(k) \in Runs /\ Child(k) # "d7" /\ Ends(Child(k), "nonzero")
    BY <1>6 DEF ScriptTimesOut
  <2>2. /\ pc' \in [Procs -> AllPC] /\ held' \in SUBSET AllLocks
        /\ rc' \in [Runs -> {"none", "zero", "nonzero"}] /\ notes' \in [Runs -> Notes]
        /\ sees' \in [Runs -> Sights]
    BY <2>1, EndsType
  <2>3. pc'["d7"] = pc["d7"]
    BY <2>1 DEF Ends, TypeOK
  <2>4. g8' \in G8PC
    BY <1>6 DEF ScriptTimesOut, G8PC
  <2>5. QED
    BY <1>6, <2>2, <2>3, <2>4 DEF ScriptTimesOut, TypeOK, D7Cases, AllPC, AllLocks, Sights
<1>7. ASSUME NEW k \in Stores, ReadReport(k) PROVE TypeInv'
  BY <1>7 DEF ReadReport, TypeOK, D7Cases, files, runVars, G8PC, Stores
<1>8. ASSUME NEW r \in {"mig", "subproc"}, UnlinkLock(r) PROVE TypeInv'
  <2>1. g8' \in G8PC
    BY <1>8 DEF UnlinkLock, G8PC, Stores
  <2>2. r \in Paths /\ MayRemove(r)
    BY <1>8 DEF UnlinkLock, Paths
  <2>3. held' \in SUBSET AllLocks /\ filled' \in SUBSET Stores /\ sees' \in [Runs -> Sights]
    BY <2>2, MayRemoveType
  <2>4. QED
    BY <1>8, <2>1, <2>3 DEF UnlinkLock, TypeOK, D7Cases, AllLocks, Sights
<1>9. CASE G8Crashes
  BY <1>9 DEF G8Crashes, TypeOK, D7Cases, files, runVars, G8PC
<1>10. QED
  BY <1>1, <1>2, <1>3, <1>4, <1>5, <1>6, <1>7, <1>8, <1>9 DEF G8

(* And every step of d7 and of the callers. *)
LEMMA OthersType ==
    ASSUME TypeInv, D7 \/ \E c \in Callers : Caller(c)
    PROVE  TypeInv'
<1> USE Constants DEF TypeInv
<1>1. CASE D7Begins
  <2>1. "mig" \in Paths /\ MayRemove("mig")
    BY <1>1 DEF D7Begins, Paths
  <2>2. held' \in SUBSET AllLocks /\ filled' \in SUBSET Stores /\ sees' \in [Runs -> Sights]
    BY <2>1, MayRemoveType
  <2>3. pc' \in [Procs -> AllPC]
    BY <1>1 DEF D7Begins, TypeOK, AllPC, RunPC
  <2>4. D7Cases'
    BY <1>1 DEF D7Begins, TypeOK, D7Cases
  <2>5. QED
    BY <1>1, <2>2, <2>3, <2>4 DEF D7Begins, TypeOK, g8Vars, AllPC, AllLocks, Sights
<1>2. CASE D7Opens
  <2>1. LocksOf("d7", "main", {"mig"}) \subseteq AllLocks
    BY LocksType DEF Backends, Paths
  <2>2. held' \in SUBSET AllLocks
    BY <1>2, <2>1 DEF D7Opens, TypeOK, AllLocks
  <2>3. pc' \in [Procs -> AllPC]
    BY <1>2 DEF D7Opens, TypeOK, AllPC, RunPC
  <2>4. D7Cases'
    <3>1. CASE d7 = 6
      BY <1>2, <3>1 DEF D7Opens, TypeOK, D7Cases
    <3>2. CASE d7 # 6
      <4>1. d7 \in 1..6 /\ d7' = d7
        BY <1>2 DEF D7Opens, TypeOK
      <4>2. d7' \in 1..5
        BY <3>2, <4>1
      <4>3. QED
        BY <4>2 DEF D7Cases
    <3>3. QED
      BY <3>1, <3>2
  <2>5. QED
    BY <1>2, <2>2, <2>3, <2>4 DEF D7Opens, TypeOK, runVars, g8Vars, AllPC, AllLocks
<1>3. CASE D7Wipes
  <2>1. "mig" \in Paths /\ MayRemove("mig")
    BY <1>3 DEF D7Wipes, Paths
  <2>2. held' \in SUBSET AllLocks /\ filled' \in SUBSET Stores /\ sees' \in [Runs -> Sights]
    BY <2>1, MayRemoveType
  <2>3. pc' \in [Procs -> AllPC]
    BY <1>3 DEF D7Wipes, TypeOK, AllPC, RunPC
  <2>4. D7Cases'
    BY <1>3 DEF D7Wipes, TypeOK, D7Cases
  <2>5. QED
    BY <1>3, <2>2, <2>3, <2>4 DEF D7Wipes, TypeOK, g8Vars, AllPC, AllLocks, Sights
<1>4. CASE D7Returns
  <2>1. d7 + 1 \in 1..6
    BY <1>4 DEF D7Returns, D7Cases
  <2>2. QED
    BY <1>4, <2>1 DEF D7Returns, Without, TypeOK, D7Cases, runVars, g8Vars, RunPC
<1>5. CASE D7Reports
  BY <1>5 DEF D7Reports, Without, TypeOK, D7Cases, runVars, g8Vars, RunPC
<1>6. CASE D7Crashes
  BY <1>6 DEF D7Crashes, Without, TypeOK, D7Cases, runVars, g8Vars, RunPC
<1>7. ASSUME NEW c \in Callers, Caller(c) PROVE TypeInv'
  <2>1. c \in Procs /\ c # "d7"
    OBVIOUS
  <2>2. /\ LocksOf(c, "main", {"subproc"}) \subseteq AllLocks
        /\ LocksOf(c, "main", {"mig"}) \subseteq AllLocks
    BY <2>1, LocksType DEF Backends, Paths
  <2>a. held \in SUBSET AllLocks
    BY DEF TypeOK, AllLocks
  <2>3. held' \in SUBSET AllLocks
    <3>1. CASE CallerLocks(c)
      BY <2>a, <2>2, <3>1 DEF CallerLocks
    <3>2. CASE CallerWorks(c)
      BY <2>a, <2>2, <3>2 DEF CallerWorks
    <3>3. CASE CallerEnds(c)
      BY <2>a, <3>3 DEF CallerEnds, Without
    <3>4. QED
      BY <1>7, <3>1, <3>2, <3>3 DEF Caller
  <2>b. PICK v \in AllPC : pc' = [pc EXCEPT ![c] = v]
    BY <1>7 DEF Caller, CallerLocks, CallerWorks, CallerEnds, AllPC, RunPC
  <2>4. pc' \in [Procs -> AllPC] /\ pc'["d7"] = pc["d7"]
    BY <2>1, <2>b DEF TypeOK, AllPC
  <2>5. UNCHANGED <<filled, report, runVars, g8Vars, d7>>
    BY <1>7 DEF Caller, CallerLocks, CallerWorks, CallerEnds
  <2>6. QED
    BY <2>3, <2>4, <2>5 DEF TypeOK, D7Cases, runVars, g8Vars, AllPC, AllLocks
<1>8. QED
  BY <1>1, <1>2, <1>3, <1>4, <1>5, <1>6, <1>7 DEF D7

(* The type invariant holds throughout. *)
LEMMA TypeStep == TypeInv /\ [Next]_vars => TypeInv'
<1> SUFFICES ASSUME TypeInv, [Next]_vars PROVE TypeInv'
  OBVIOUS
<1>1. CASE UNCHANGED vars
  BY <1>1 DEF vars, files, runVars, g8Vars, TypeInv, TypeOK, D7Cases
<1>2. QED
  BY <1>1, RunType, G8Type, OthersType DEF Next

(* Every reachable state is well typed. *)
THEOREM TypeCorrect == Spec => []TypeOK
<1>1. TypeInv => TypeOK
  BY DEF TypeInv
<1>2. QED
  BY <1>1, TypeInit, TypeStep, PTL DEF Spec

-----------------------------------------------------------------------------
(* The locks: a path is locked by one backend at most, and of the callers  *)
(* in their section one at most has lost the flock, to g8.                 *)

OneHolder == \A h, i \in held : h[3] = i[3] => h = i

Flock(c) == <<c, "main", "subproc">>

InSection(c) == pc[c] \in {"locked", "working"}

\* It goes on without the lock at the path.
Strayed(c) == InSection(c) /\ Flock(c) \notin held

Strays ==
    /\ LockFileKept => \A c \in Callers : ~Strayed(c)
    /\ \A c, d \in Callers : Strayed(c) /\ Strayed(d) => c = d

\* A step only drops locks, or takes some that are free.
Takes(p, b, R) == (\A r \in R : Free(r)) /\ held' = held \cup LocksOf(p, b, R)

(* What a run does to the locks: it takes what it needs, or drops its own. *)
LEMMA RunLocks ==
    ASSUME TypeInv, NEW p \in Runs, Start(p) \/ Run(p)
    PROVE  \/ Without(p) \subseteq held' /\ held' \subseteq held
           \/ \E b \in Backends : Takes(p, b, Needs(p))
<1> USE DEF Without
<1>1. CASE OpenBackend(p) \/ OpenReader(p)
  BY <1>1 DEF OpenBackend, OpenReader, Opens, Takes, Backends
<1>2. CASE OpenWalled(p)
  BY <1>2 DEF OpenWalled, Takes, Backends
<1>3. CASE CloseWriter(p)
  BY <1>3 DEF CloseWriter
<1>4. CASE Exit(p) \/ Crash(p)
  BY <1>4 DEF Exit, Crash, Ends
<1>5. CASE Start(p) \/ D2Unhealthy(p) \/ SkipIngest(p) \/ Ingest(p) \/ Search(p)
           \/ TruncateReport(p) \/ WriteReport(p)
  BY <1>5 DEF Start, D2Unhealthy, SkipIngest, Ingest, Search, TruncateReport, WriteReport, files
<1>6. QED
  BY <1>1, <1>2, <1>3, <1>4, <1>5 DEF Run

(* What g8 does to them: it takes nothing, and no flock but by its unlink. *)
LEMMA G8Locks ==
    ASSUME TypeInv, G8Begins \/ G8 \/ G8Crashes
    PROVE  /\ held' \subseteq held
           /\ \A c \in Callers : pc'[c] = pc[c]
           /\ LockFileKept' => LockFileKept
           /\ UnlinkLock("subproc") \/ \A c \in Callers : Flock(c) \in held => Flock(c) \in held'
<1> DEFINE Goal == /\ held' \subseteq held
                   /\ \A c \in Callers : pc'[c] = pc[c]
                   /\ LockFileKept' => LockFileKept
                   /\ UnlinkLock("subproc") \/ \A c \in Callers : Flock(c) \in held => Flock(c) \in held'
<1>a. pc \in [Procs -> AllPC]
  BY DEF TypeInv, TypeOK, AllPC
<1>1. CASE G8Begins
  BY <1>1 DEF G8Begins, files, LockFileKept
<1>2. CASE Judge \/ G8Crashes
  <2>1. held' = held /\ pc' = pc /\ g8' = <<"ended", "all">>
    BY <1>2 DEF Judge, G8Crashes, files
  <2>2. ~LockFileKept'
    BY <2>1 DEF LockFileKept
  <2>3. QED
    BY <2>1, <2>2 DEF Flock
<1>3. ASSUME NEW k \in Stores, WipeStore(k) PROVE Goal
  BY <1>3 DEF WipeStore, MayRemove, Stores, LockFileKept, Flock
<1>4. ASSUME NEW r \in {"mig", "subproc"}, UnlinkLock(r) PROVE Goal
  BY <1>4 DEF UnlinkLock, MayRemove, LockFileKept, Flock
<1>5. ASSUME NEW k \in Stores, RunScript(k) PROVE Goal
  BY <1>5, <1>a, Constants DEF RunScript, files, LockFileKept, Stores
<1>6. ASSUME NEW k \in Stores, ScriptEnds(k) \/ ReadReport(k) PROVE Goal
  BY <1>6 DEF ScriptEnds, ReadReport, files, LockFileKept, Stores
<1>7. ASSUME NEW k \in Stores, ScriptTimesOut(k) PROVE Goal
  BY <1>7, <1>a, Constants DEF ScriptTimesOut, Ends, Without, LockFileKept, Flock
<1>8. QED
  BY <1>1, <1>2, <1>3, <1>4, <1>5, <1>6, <1>7 DEF G8

(* What d7 does to them. *)
LEMMA D7Locks ==
    ASSUME TypeInv, D7
    PROVE  /\ \/ held' \subseteq held
              \/ Takes("d7", "main", {"mig"})
           /\ \A h \in held : h[1] # "d7" /\ h[3] # "mig" => h \in held'
  BY DEF D7, D7Begins, D7Opens, D7Wipes, D7Returns, D7Reports, D7Crashes, MayRemove, Takes, Without

(* What a caller does to them. *)
LEMMA CallerLocking ==
    ASSUME TypeInv, NEW c \in Callers, Caller(c)
    PROVE  /\ \/ held' \subseteq held
              \/ \E r \in {"mig", "subproc"} : Takes(c, "main", {r})
           /\ \A h \in held : h[1] # c => h \in held'
           /\ pc'[c] \in {"locked", "working"} => /\ held \subseteq held'
                                                  /\ \/ pc[c] = "locked"
                                                     \/ Flock(c) \in held'
           /\ \A d \in Procs : d # c => pc'[d] = pc[d]
<1>a. c \in Procs /\ pc \in [Procs -> AllPC]
  BY Constants DEF TypeInv, TypeOK, AllPC
<1>1. CASE CallerLocks(c)
  BY <1>a, <1>1 DEF CallerLocks, Takes, LocksOf, Flock
<1>2. CASE CallerWorks(c)
  BY <1>a, <1>2 DEF CallerWorks, Takes
<1>3. CASE CallerEnds(c)
  BY <1>a, <1>3 DEF CallerEnds, Without
<1>4. QED
  BY <1>1, <1>2, <1>3 DEF Caller

(* Taking what is free leaves one holder for each path. *)
LEMMA TakesOne ==
    ASSUME OneHolder, NEW p, NEW b, NEW R, Takes(p, b, R)
    PROVE  OneHolder'
<1>1. ASSUME NEW h \in LocksOf(p, b, R) PROVE h[3] \in R /\ h = <<p, b, h[3]>>
  BY <1>1 DEF LocksOf
<1>2. ASSUME NEW h \in LocksOf(p, b, R), NEW i \in held PROVE h[3] # i[3]
  BY <1>1, <1>2 DEF Takes, Free
<1>3. QED
  BY <1>1, <1>2 DEF Takes, OneHolder

(* A step keeps one holder for each path. *)
LEMMA OneHolderStep == TypeInv /\ OneHolder /\ [Next]_vars => OneHolder'
<1> SUFFICES ASSUME TypeInv, OneHolder, [Next]_vars PROVE OneHolder'
  OBVIOUS
<1>1. CASE held' \subseteq held
  BY <1>1 DEF OneHolder
<1>2. ASSUME NEW p \in Runs, Start(p) \/ Run(p) PROVE OneHolder'
  BY <1>1, <1>2, RunLocks, TakesOne
<1>3. CASE G8Begins \/ G8 \/ G8Crashes
  BY <1>1, <1>3, G8Locks
<1>4. CASE D7
  BY <1>1, <1>4, D7Locks, TakesOne
<1>5. ASSUME NEW c \in Callers, Caller(c) PROVE OneHolder'
  BY <1>1, <1>5, CallerLocking, TakesOne
<1>6. QED
  BY <1>1, <1>2, <1>3, <1>4, <1>5 DEF Next, vars, files

(* Nothing but the unlink of g8 makes a caller in its section a stray. *)
LEMMA StraysKept ==
    ASSUME TypeInv, [Next]_vars, ~UnlinkLock("subproc")
    PROVE  \A c \in Callers : Strayed(c)' => Strayed(c)
<1> SUFFICES ASSUME NEW c \in Callers, Strayed(c)' PROVE Strayed(c)
  OBVIOUS
<1>a. c \in Procs /\ c # "d7" /\ c \notin Runs /\ pc \in [Procs -> AllPC]
  BY Constants DEF TypeInv, TypeOK, AllPC
<1>b. CASE pc'[c] = pc[c] /\ (Flock(c) \in held => Flock(c) \in held')
  BY <1>b DEF Strayed, InSection, Flock
<1>1. ASSUME NEW p \in Runs, Start(p) \/ Run(p) PROVE Strayed(c)
  <2>1. \E v : pc' = [pc EXCEPT ![p] = v]
    BY <1>1 DEF Start, Run, OpenBackend, D2Unhealthy, SkipIngest, Ingest, Ingested, CloseWriter,
        OpenReader, Search, OpenWalled, TruncateReport, WriteReport, Exit, Crash, Ends
  <2>2. \A h \in held : h[1] # p => h \in held'
    BY <1>1, RunLocks DEF Takes, Without
  <2>3. QED
    BY <1>a, <1>b, <2>1, <2>2 DEF Flock
<1>2. CASE G8Begins \/ G8 \/ G8Crashes
  BY <1>2, <1>b, G8Locks
<1>3. CASE D7
  <2>1. pc'[c] = pc[c]
    BY <1>3, <1>a DEF D7, D7Begins, D7Opens, D7Wipes, D7Returns, D7Reports, D7Crashes
  <2>2. QED
    BY <1>3, <1>a, <1>b, <2>1, D7Locks DEF Flock
<1>4. ASSUME NEW d \in Callers, Caller(d) PROVE Strayed(c)
  <2>1. CASE d = c
    BY <1>4, <2>1, CallerLocking DEF Strayed, InSection, Flock
  <2>2. CASE d # c
    BY <1>4, <1>a, <1>b, <2>2, CallerLocking DEF Flock
  <2>3. QED
    BY <2>1, <2>2
<1>5. CASE UNCHANGED vars
  BY <1>5, <1>b DEF vars, files
<1>6. QED
  BY <1>1, <1>2, <1>3, <1>4, <1>5 DEF Next

(* Only g8 moves on, and never back to where the flock is in place. *)
LEMMA KeptBefore == TypeInv /\ [Next]_vars /\ LockFileKept' => LockFileKept
<1> SUFFICES ASSUME TypeInv, [Next]_vars, LockFileKept' PROVE LockFileKept
  OBVIOUS
<1>1. ASSUME g8' = g8 PROVE LockFileKept
  BY <1>1 DEF LockFileKept
<1>2. ASSUME NEW p \in Runs, Start(p) \/ Run(p) PROVE g8' = g8
  BY <1>2 DEF Start, Run, OpenBackend, D2Unhealthy, SkipIngest, Ingest, CloseWriter,
      OpenReader, Search, OpenWalled, TruncateReport, WriteReport, Exit, Crash, g8Vars
<1>3. ASSUME D7 \/ \E c \in Callers : Caller(c) PROVE g8' = g8
  BY <1>3 DEF D7, D7Begins, D7Opens, D7Wipes, D7Returns, D7Reports, D7Crashes, Caller,
      CallerLocks, CallerWorks, CallerEnds, g8Vars
<1>4. CASE G8Begins \/ G8 \/ G8Crashes
  BY <1>4, G8Locks
<1>5. CASE UNCHANGED vars
  BY <1>1, <1>5 DEF vars, g8Vars
<1>6. QED
  BY <1>1, <1>2, <1>3, <1>4, <1>5 DEF Next

(* A step leaves one stray at most: the unlink finds none, and makes one of *)
(* whoever holds the flock.                                                 *)
LEMMA StraysStep == TypeInv /\ OneHolder /\ Strays /\ [Next]_vars => Strays'
<1> SUFFICES ASSUME TypeInv, OneHolder, Strays, [Next]_vars PROVE Strays'
  OBVIOUS
<1>1. CASE ~UnlinkLock("subproc")
  BY <1>1, StraysKept, KeptBefore DEF Strays
<1>2. CASE UnlinkLock("subproc")
  <2>1. LockFileKept /\ ~LockFileKept' /\ pc' = pc
    BY <1>2 DEF UnlinkLock, LockFileKept
  <2>2. ASSUME NEW c \in Callers, Strayed(c)' PROVE Flock(c) \in held
    BY <2>1, <2>2 DEF Strays, Strayed, InSection
  <2>3. ASSUME NEW c \in Callers, NEW d \in Callers, Strayed(c)', Strayed(d)' PROVE c = d
    BY <2>2, <2>3 DEF OneHolder, Flock
  <2>4. QED
    BY <2>1, <2>3 DEF Strays
<1>3. QED
  BY <1>1, <1>2

(* Those in the section hold the flock, which has one holder, or strayed.  *)
LEMMA SectionBounded == OneHolder /\ Strays => OverlapBounded
<1> SUFFICES ASSUME OneHolder, Strays PROVE OverlapBounded
  OBVIOUS
<1> DEFINE S == {c \in Callers : pc[c] \in {"locked", "working"}}
<1>1. ASSUME NEW c \in S, NEW d \in S, ~Strayed(c), ~Strayed(d) PROVE c = d
  BY <1>1 DEF OneHolder, Strayed, InSection, Flock
<1>2. ASSUME NEW c \in S, NEW d \in S, Strayed(c), Strayed(d) PROVE c = d
  BY <1>2 DEF Strays
<1>3. CASE S = {}
  BY <1>3, FS_EmptySet DEF OverlapBounded
<1>4. ASSUME NEW a, S = {a} PROVE OverlapBounded
  <2>1. Cardinality(S) = 1
    BY <1>4, FS_Singleton
  <2>2. QED
    BY <2>1 DEF OverlapBounded
<1>5. ASSUME NEW a \in S, NEW b \in S, a # b PROVE OverlapBounded
  <2>1. Strayed(a) \/ Strayed(b)
    BY <1>1, <1>5
  <2>2. ~LockFileKept
    BY <2>1 DEF Strays
  <2>3. S = {a} \cup {b}
    BY <1>1, <1>2, <1>5
  <2>4. Cardinality({a} \cup {b}) = 2
    <3>1. IsFiniteSet({a}) /\ Cardinality({a}) = 1
      BY FS_Singleton
    <3>2. Cardinality({a} \cup {b}) = IF b \in {a} THEN 1 ELSE 1 + 1
      BY <3>1, FS_AddElement
    <3>3. QED
      BY <1>5, <3>2
  <2>5. QED
    BY <2>2, <2>3, <2>4 DEF OverlapBounded
<1>6. QED
  BY <1>3, <1>4, <1>5

(***************************************************************************)
(* One caller at a time is in its section, and never more than two once g8 *)
(* may have removed the flock.                                             *)
(***************************************************************************)
THEOREM OverlapsAreBounded == Spec => []OverlapBounded
<1>1. Init => OneHolder /\ Strays
  <2>1. Init => \A c \in Callers : pc[c] \notin {"locked", "working"}
    BY Constants DEF Init
  <2>2. QED
    BY <2>1 DEF Init, OneHolder, Strays, Strayed, InSection
<1>2. QED
  BY <1>1, TypeInit, TypeStep, OneHolderStep, StraysStep, SectionBounded, PTL DEF Spec

-----------------------------------------------------------------------------
(* The children of g8: off until it runs them, ended once it has waited.   *)

Wiping == {<<"off", "all">>, <<"wipe", "d2">>, <<"wipe", "d5">>,
           <<"unlink", "mig">>, <<"unlink", "subproc">>}

Before(k) ==
    Wiping \cup {<<"run", "d2">>}
           \cup IF k = "d5" THEN {<<"wait", "d2">>, <<"read", "d2">>, <<"run", "d5">>} ELSE {}

After(k) ==
    {<<"read", "d5">>, <<"judge", "all">>}
        \cup IF k = "d2" THEN {<<"read", "d2">>, <<"run", "d5">>, <<"wait", "d5">>} ELSE {}

Waiting ==
    \A k \in Stores :
        /\ g8 \in Before(k) => pc[Child(k)] = "off"
        /\ g8 \in After(k) => pc[Child(k)] = "ended"

(* A run moves itself alone; it is neither off nor ended, nor ever off again. *)
LEMMA RunMoves ==
    ASSUME TypeInv, NEW p \in Runs, Run(p)
    PROVE  /\ pc[p] \notin {"off", "ended"}
           /\ pc'[p] # "off"
           /\ \A q \in Procs : q # p => pc'[q] = pc[q]
           /\ UNCHANGED g8Vars
<1>a. p \in Procs /\ pc \in [Procs -> AllPC]
  BY Constants DEF TypeInv, TypeOK, AllPC
<1>1. pc[p] \notin {"off", "ended"} /\ UNCHANGED g8Vars
  BY DEF Run, OpenBackend, D2Unhealthy, SkipIngest, Ingest, CloseWriter, OpenReader, Search, OpenWalled,
         TruncateReport, WriteReport, Exit, Crash
<1>2. \E v \in RunPC \ {"off"} : pc' = [pc EXCEPT ![p] = v]
  BY DEF Run, OpenBackend, D2Unhealthy, SkipIngest, Ingest, Ingested, CloseWriter, OpenReader, Search,
         OpenWalled, TruncateReport, WriteReport, Exit, Crash, Ends, RunPC
<1>3. QED
  BY <1>a, <1>1, <1>2

(* d7 and the callers leave the runs and g8 alone. *)
LEMMA OthersMove ==
    ASSUME TypeInv, D7 \/ \E c \in Callers : Caller(c)
    PROVE  /\ \A q \in Runs : pc'[q] = pc[q]
           /\ UNCHANGED <<report, notes, rc, g8Vars>>
<1>a. pc \in [Procs -> AllPC]
  BY DEF TypeInv, TypeOK, AllPC
<1>1. CASE D7
  <2>1. \E v : pc' = [pc EXCEPT !["d7"] = v]
    BY <1>1 DEF D7, D7Begins, D7Opens, D7Wipes, D7Returns, D7Reports, D7Crashes
  <2>2. UNCHANGED <<report, notes, rc, g8Vars>>
    BY <1>1 DEF D7, D7Begins, D7Opens, D7Wipes, D7Returns, D7Reports, D7Crashes, runVars
  <2>3. QED
    BY <1>a, <2>1, <2>2, Constants
<1>2. ASSUME NEW c \in Callers, Caller(c)
      PROVE  /\ \A q \in Runs : pc'[q] = pc[q]
             /\ UNCHANGED <<report, notes, rc, g8Vars>>
  BY <1>a, <1>2, Constants DEF Caller, CallerLocks, CallerWorks, CallerEnds, runVars
<1>3. QED
  BY <1>1, <1>2

(* A step keeps the children in their places. *)
LEMMA WaitingStep == TypeInv /\ Waiting /\ [Next]_vars => Waiting'
<1> SUFFICES ASSUME TypeInv, Waiting, [Next]_vars, NEW k \in Stores
             PROVE  /\ g8' \in Before(k) => pc'[Child(k)] = "off"
                    /\ g8' \in After(k) => pc'[Child(k)] = "ended"
  BY DEF Waiting
<1>a. Child(k) \in Runs /\ Child(k) \in Procs /\ Child(k) \in {Child2, Child5} /\ k \in {"d2", "d5"}
      /\ pc \in [Procs -> AllPC]
  BY Constants DEF TypeInv, TypeOK, AllPC, Child, Stores
<1>b. /\ g8 \in Before(k) => pc[Child(k)] = "off"
      /\ g8 \in After(k) => pc[Child(k)] = "ended"
  BY DEF Waiting
<1>1. CASE g8' = g8 /\ pc'[Child(k)] = pc[Child(k)]
  BY <1>1, <1>b
<1>2. ASSUME NEW p \in Runs, Start(p)
      PROVE  g8' = g8 /\ pc'[Child(k)] = pc[Child(k)]
  BY <1>2, <1>a DEF Start, g8Vars
<1>3. ASSUME NEW p \in Runs, Run(p)
      PROVE  /\ g8' \in Before(k) => pc'[Child(k)] = "off"
             /\ g8' \in After(k) => pc'[Child(k)] = "ended"
  <2>1. g8' = g8 /\ pc[p] \notin {"off", "ended"} /\ \A q \in Procs : q # p => pc'[q] = pc[q]
    BY <1>3, RunMoves DEF g8Vars
  <2>2. QED
    BY <1>a, <1>b, <2>1
<1>4. CASE D7 \/ \E c \in Callers : Caller(c)
  BY <1>1, <1>4, <1>a, OthersMove DEF g8Vars
<1>5. CASE G8Begins \/ \E r \in {"mig", "subproc"} : UnlinkLock(r)
  BY <1>5, <1>a, <1>b DEF G8Begins, UnlinkLock, Before, After, Wiping
<1>6. ASSUME NEW j \in Stores, WipeStore(j) \/ ScriptEnds(j) \/ ReadReport(j)
      PROVE  /\ g8' \in Before(k) => pc'[Child(k)] = "off"
             /\ g8' \in After(k) => pc'[Child(k)] = "ended"
  BY <1>6, <1>a, <1>b DEF WipeStore, ScriptEnds, ReadReport, Before, After, Wiping, Stores
<1>7. ASSUME NEW j \in Stores, RunScript(j)
      PROVE  /\ g8' \in Before(k) => pc'[Child(k)] = "off"
             /\ g8' \in After(k) => pc'[Child(k)] = "ended"
  <2>1. k # j => pc'[Child(k)] = pc[Child(k)]
    BY <1>7, <1>a, Constants DEF RunScript
  <2>2. g8 = <<"run", j>> /\ g8' = <<"wait", j>>
    BY <1>7 DEF RunScript
  <2>3. QED
    BY <2>1, <2>2, <1>a, <1>b DEF Before, After, Wiping, Stores
<1>8. CASE Judge \/ G8Crashes \/ \E j \in Stores : ScriptTimesOut(j)
  <2>1. g8' = <<"ended", "all">>
    BY <1>8 DEF Judge, G8Crashes, ScriptTimesOut
  <2>2. QED
    BY <2>1 DEF Before, After, Wiping
<1>9. CASE UNCHANGED vars
  BY <1>1, <1>9 DEF vars, g8Vars
<1>10. QED
  BY <1>1, <1>2, <1>3, <1>4, <1>5, <1>6, <1>7, <1>8, <1>9 DEF Next, G8

-----------------------------------------------------------------------------
(* What a run sees: the store in place is locked by its backend.           *)

SightOf(p) ==
    /\ sees[p] = "in place" => <<p, "main", StoreOf(p)>> \in held
    /\ pc[p] \in {"ingest", "close", "search", "walled"} => sees[p] # "none"
    /\ pc[p] \in {"off", "open", "reopen", "ended"} => sees[p] = "none"

Sighted == \A p \in Runs : SightOf(p)

(* A step that leaves a run its place, its sight and its locks. *)
LEMMA SightKept ==
    ASSUME NEW p \in Runs, SightOf(p), pc'[p] = pc[p], sees'[p] = sees[p],
           <<p, "main", StoreOf(p)>> \in held => <<p, "main", StoreOf(p)>> \in held'
    PROVE  SightOf(p)'
  BY DEF SightOf

(* What the end of a run leaves of its sight. *)
LEMMA SightEnds ==
    ASSUME TypeInv, NEW p \in Runs, NEW code, Ends(p, code)
    PROVE  /\ SightOf(p)'
           /\ \A q \in Runs : q # p /\ SightOf(q) => SightOf(q)'
<1>a. p \in Procs /\ TypeOK
  BY Constants DEF TypeInv
<1>1. SightOf(p)'
  BY <1>a DEF Ends, SightOf, TypeOK
<1>2. ASSUME NEW q \in Runs, q # p, SightOf(q) PROVE SightOf(q)'
  <2>1. q \in Procs /\ pc'[q] = pc[q] /\ sees'[q] = sees[q]
    BY <1>a, <1>2, Constants DEF Ends, TypeOK
  <2>2. <<q, "main", StoreOf(q)>> \in held => <<q, "main", StoreOf(q)>> \in held'
    BY <1>2 DEF Ends, Without
  <2>3. QED
    BY <1>2, <2>1, <2>2, SightKept
<1>3. QED
  BY <1>1, <1>2

(* A run's own step keeps its sight true. *)
LEMMA OwnSight ==
    ASSUME TypeInv, NEW p \in Runs, SightOf(p), Run(p)
    PROVE  SightOf(p)'
<1>a. p \in Procs /\ StoreOf(p) \in {"d2", "d5"}
  BY Constants DEF Stores
<1>b. /\ pc \in [Procs -> AllPC] /\ sees \in [Runs -> Sights]
  BY DEF TypeInv, TypeOK, AllPC, Sights
<1>1. CASE OpenBackend(p)
  <2>1. <<p, "main", StoreOf(p)>> \in held'
    BY <1>1 DEF OpenBackend, Opens, LocksOf, Needs
  <2>2. QED
    BY <1>1, <1>a, <1>b, <2>1 DEF OpenBackend, Opens, SightOf
<1>2. CASE OpenReader(p)
  <2>1. <<p, "main", StoreOf(p)>> \in held'
    BY <1>2 DEF OpenReader, Opens, LocksOf, Needs
  <2>2. QED
    BY <1>2, <1>a, <1>b, <2>1 DEF OpenReader, Opens, SightOf
<1>3. CASE D2Unhealthy(p)
  BY <1>3, <1>a, <1>b DEF D2Unhealthy, SightOf, files
<1>4. CASE SkipIngest(p)
  BY <1>4, <1>a, <1>b DEF SkipIngest, Ingested, SightOf, files
<1>5. CASE Ingest(p)
  <2>1. sees'[p] # "none" /\ (sees'[p] = "in place" => sees[p] = "in place")
    BY <1>5, <1>b DEF Ingest, SightOf
  <2>2. pc'[p] \in {"search", "close"} /\ held' = held /\ pc[p] = "ingest"
    BY <1>5, <1>a, <1>b DEF Ingest, Ingested
  <2>3. QED
    BY <2>1, <2>2 DEF SightOf
<1>6. CASE CloseWriter(p)
  BY <1>6, <1>a, <1>b DEF CloseWriter, SightOf
<1>7. CASE Search(p)
  BY <1>7, <1>a, <1>b DEF Search, SightOf, files, runVars
<1>8. CASE OpenWalled(p)
  BY <1>8, <1>a, <1>b DEF OpenWalled, SightOf, runVars
<1>9. CASE TruncateReport(p) \/ WriteReport(p)
  BY <1>9, <1>a, <1>b DEF TruncateReport, WriteReport, SightOf, runVars
<1>10. CASE Exit(p) \/ Crash(p)
  BY <1>10, SightEnds DEF Exit, Crash
<1>11. QED
  BY <1>1, <1>2, <1>3, <1>4, <1>5, <1>6, <1>7, <1>8, <1>9, <1>10 DEF Run

(* The step of another run does not touch it. *)
LEMMA OtherSight ==
    ASSUME TypeInv, NEW p \in Runs, NEW q \in Runs, q # p, SightOf(q), Run(p)
    PROVE  SightOf(q)'
<1>1. pc'[q] = pc[q]
  BY RunMoves, Constants
<1>2. sees'[q] = sees[q]
  BY ZenonT(30) DEF TypeInv, TypeOK, Run, OpenBackend, D2Unhealthy, SkipIngest, Ingest, CloseWriter, OpenReader,
         Opens, Search, OpenWalled, TruncateReport, WriteReport, Exit, Crash, Ends, files, runVars
<1>3. \A h \in held : h[1] # p => h \in held'
  BY RunLocks DEF Takes, Without
<1>4. QED
  BY <1>1, <1>2, <1>3, SightKept

(* Removing a path leaves no run with a store in place and no lock on it. *)
LEMMA RemovedSight ==
    ASSUME TypeInv, NEW p \in Runs, SightOf(p), NEW r \in Paths, MayRemove(r),
           pc'[p] = pc[p]
    PROVE  SightOf(p)'
<1>1. CASE UNCHANGED <<held, filled, sees>>
  BY <1>1, SightKept
<1>2. CASE /\ held' = {h \in held : h[3] # r}
           /\ sees' = [q \in Runs |-> LeftBehind(r, q)]
  <2>1. CASE StoreOf(p) = r /\ sees[p] = "in place"
    BY <1>2, <2>1 DEF SightOf, LeftBehind
  <2>2. CASE ~(StoreOf(p) = r /\ sees[p] = "in place")
    <3>1. sees'[p] = sees[p]
      BY <1>2, <2>2 DEF LeftBehind
    <3>2. CASE sees[p] = "in place"
      BY <1>2, <2>2, <3>1, <3>2 DEF SightOf
    <3>3. CASE sees[p] # "in place"
      BY <1>2, <3>1, <3>3 DEF SightOf
    <3>4. QED
      BY <3>2, <3>3
  <2>3. QED
    BY <2>1, <2>2
<1>3. QED
  BY <1>1, <1>2 DEF MayRemove

(* A step keeps every run's sight true. *)
LEMMA SightedStep == TypeInv /\ Waiting /\ Sighted /\ [Next]_vars => Sighted'
<1> SUFFICES ASSUME TypeInv, Waiting, Sighted, [Next]_vars, NEW q \in Runs PROVE SightOf(q)'
  BY DEF Sighted
<1>a. SightOf(q) /\ q \in Procs /\ q # "d7" /\ q \notin Callers /\ TypeOK
  BY Constants DEF Sighted, TypeInv
<1>1. ASSUME NEW p \in Runs, Start(p) PROVE SightOf(q)'
  <2>1. CASE p = q
    BY <1>1, <1>a, <2>1 DEF Start, SightOf, files, runVars, TypeOK
  <2>2. CASE p # q
    BY <1>1, <1>a, <2>2, SightKept DEF Start, files, runVars, TypeOK
  <2>3. QED
    BY <2>1, <2>2
<1>2. ASSUME NEW p \in Runs, Run(p) PROVE SightOf(q)'
  BY <1>2, <1>a, OwnSight, OtherSight
<1>3. CASE D7 \/ \E c \in Callers : Caller(c)
  <2>1. pc'[q] = pc[q]
    BY <1>3, OthersMove
  <2>2. CASE D7Begins \/ D7Wipes
    BY <1>a, <2>1, <2>2, RemovedSight DEF D7Begins, D7Wipes, Paths
  <2>3. CASE D7Opens \/ D7Returns \/ D7Reports \/ D7Crashes \/ \E c \in Callers : Caller(c)
    <3>1. sees' = sees
      BY <2>3 DEF D7Opens, D7Returns, D7Reports, D7Crashes, Caller, CallerLocks, CallerWorks, CallerEnds, runVars
    <3>2. \A h \in held : h[1] = q => h \in held'
      BY <1>a, <2>3, CallerLocking DEF D7Opens, D7Returns, D7Reports, D7Crashes, Without
    <3>3. QED
      BY <1>a, <2>1, <3>1, <3>2, SightKept
  <2>4. QED
    BY <1>3, <2>2, <2>3 DEF D7
<1>4. ASSUME NEW r \in Paths, MayRemove(r), UNCHANGED pc PROVE SightOf(q)'
  BY <1>4, <1>a, RemovedSight
<1>5. CASE \/ \E k \in Stores : WipeStore(k)
           \/ \E r \in {"mig", "subproc"} : UnlinkLock(r)
  BY <1>4, <1>5 DEF WipeStore, UnlinkLock, Paths
<1>6. ASSUME NEW k \in Stores, RunScript(k) PROVE SightOf(q)'
  <2>1. CASE q = Child(k)
    <3>1. pc[q] = "off"
      BY <1>6, <2>1 DEF RunScript, Waiting, Before, Wiping, Stores
    <3>2. pc'[q] = "open" /\ UNCHANGED <<sees, held>>
      BY <1>6, <1>a, <2>1 DEF RunScript, files, runVars, TypeOK
    <3>3. QED
      BY <1>a, <3>1, <3>2 DEF SightOf
  <2>2. CASE q # Child(k)
    BY <1>6, <1>a, <2>2, SightKept DEF RunScript, files, runVars, TypeOK
  <2>3. QED
    BY <2>1, <2>2
<1>7. ASSUME NEW k \in Stores, ScriptTimesOut(k) PROVE SightOf(q)'
  BY <1>7, <1>a, SightEnds, Constants DEF ScriptTimesOut
<1>8. CASE UNCHANGED <<files, pc, runVars>>
  BY <1>8, <1>a, SightKept DEF files, runVars
<1>9. CASE G8Begins \/ Judge \/ G8Crashes \/ \E k \in Stores : ScriptEnds(k) \/ ReadReport(k)
  BY <1>8, <1>9 DEF G8Begins, Judge, G8Crashes, ScriptEnds, ReadReport
<1>10. QED
  BY <1>1, <1>2, <1>3, <1>5, <1>6, <1>7, <1>8, <1>9 DEF Next, G8, vars

(* At the start no child has run, and nobody sees a store. *)
LEMMA StartingPlaces == Init => Waiting /\ Sighted
<1>1. Init => Waiting
  <2>1. Init => pc[Child2] = "off" /\ pc[Child5] = "off" /\ g8 = <<"off", "all">>
    BY Constants DEF Init
  <2>2. QED
    BY <2>1 DEF Waiting, Child, After
<1>2. Init => Sighted
  <2>1. Init => \A p \in Runs : pc[p] \in {"off", "ended"}
    BY Constants DEF Init
  <2>2. QED
    BY <2>1 DEF Init, Sighted, SightOf
<1>3. QED
  BY <1>1, <1>2

-----------------------------------------------------------------------------
(* The verdict: what a child that exits with 0 has left behind.            *)

FreshReports == {r \in Report : r.since} \cup {Torn}

\* g8 has copied the report.
Copied(k) == After(k) \ {<<"read", k>>}

ToldBy(k) ==
    /\ sees[Child(k)] \in {"none", "in place"}
    /\ pc[Child(k)] \in {"walled", "report", "write", "exit"} /\ ~notes[Child(k)].fatal => k \in filled
    /\ rc[Child(k)] = "zero" => pc[Child(k)] = "ended" /\ k \in filled
    /\ pc[Child(k)] = "exit" \/ rc[Child(k)] = "zero" => report[k] \in FreshReports
    /\ g8 \in Copied(k) /\ rc[Child(k)] = "zero" => seen[k] \in FreshReports

Told == \A k \in Stores : ToldBy(k)

Judged ==
    verdict => /\ g8 = <<"ended", "all">>
               /\ \A k \in Stores : seen[k] \in Report /\ seen[k].since /\ k \in filled

(* A torn report is no report. *)
LEMMA TornReport == Torn \notin Report
<1>1. DOMAIN Torn = {"torn"}
  BY DEF Torn
<1>2. \A r \in Report : DOMAIN r = {"notes", "since"}
  BY DEF Report
<1>3. {"torn"} # {"notes", "since"}
  OBVIOUS
<1>4. QED
  BY <1>1, <1>2, <1>3

(* Once a child is off no more, its store has been wiped. *)
LEMMA StartedWiped ==
    ASSUME TypeInv, Waiting, NEW k \in Stores, pc[Child(k)] # "off"
    PROVE  Wiped(k) /\ g8 \notin Before(k)
<1>1. g8 \notin Before(k)
  BY DEF Waiting
<1>2. QED
  BY <1>1 DEF Before, Wiping, Wiped

(* A step that leaves a child alone, loses no memories of its store, and   *)
(* writes no stale report.                                                 *)
LEMMA ToldKept ==
    ASSUME NEW k \in Stores, ToldBy(k),
           pc'[Child(k)] = pc[Child(k)], sees'[Child(k)] = sees[Child(k)],
           notes'[Child(k)] = notes[Child(k)], rc'[Child(k)] = rc[Child(k)],
           k \in filled => k \in filled',
           \/ report'[k] = report[k]
           \/ report'[k] \in FreshReports
           \/ pc[Child(k)] = "off",
           g8' \in Copied(k) => g8 \in Copied(k), seen'[k] = seen[k]
    PROVE  ToldBy(k)'
  BY DEF ToldBy

(* A child's own step. *)
LEMMA ToldOwn ==
    ASSUME TypeInv, Waiting, NEW k \in Stores, ToldBy(k), SightOf(Child(k)), Run(Child(k))
    PROVE  ToldBy(k)'
<1> DEFINE c == Child(k)
<1>a. c \in Runs /\ c \in Procs /\ StoreOf(c) = k /\ k \in {"d2", "d5"}
  BY Constants DEF Stores
<1>b. /\ pc \in [Procs -> AllPC] /\ sees \in [Runs -> Sights] /\ notes \in [Runs -> Notes]
      /\ rc \in [Runs -> {"none", "zero", "nonzero"}] /\ report \in [Stores -> Report \cup {NoReport, Torn}]
      /\ filled \in SUBSET Stores
  BY DEF TypeInv, TypeOK, AllPC, Sights
<1>c. pc[c] \notin {"off", "ended"} /\ UNCHANGED g8Vars
  BY <1>a, RunMoves
<1>d. g8' \notin Copied(k) /\ seen' = seen /\ Wiped(k) /\ rc[c] # "zero"
  BY <1>c, StartedWiped DEF Waiting, Copied, g8Vars, ToldBy
<1>e. notes[c].fatal \in BOOLEAN
  BY <1>a, <1>b DEF Notes
<1> HIDE DEF c
<1>f. SUFFICES /\ sees'[c] \in {"none", "in place"}
               /\ pc'[c] \in {"walled", "report", "write", "exit"} /\ ~notes'[c].fatal => k \in filled'
               /\ rc'[c] = "zero" => pc'[c] = "ended" /\ k \in filled'
               /\ pc'[c] = "exit" \/ rc'[c] = "zero" => report'[k] \in FreshReports
  BY <1>d DEF ToldBy, c
<1>g. /\ sees[c] \in {"none", "in place"}
      /\ pc[c] \in {"walled", "report", "write", "exit"} /\ ~notes[c].fatal => k \in filled
      /\ pc[c] = "exit" => report[k] \in FreshReports
      /\ Run(c)
  BY DEF ToldBy, c
<1>1. CASE OpenBackend(c) \/ OpenReader(c)
  BY <1>1, <1>a, <1>b, <1>d DEF OpenBackend, OpenReader, Opens
<1>2. CASE D2Unhealthy(c)
  <2>1. notes'[c].fatal
    BY <1>2, <1>a, <1>b DEF D2Unhealthy, Notes
  <2>2. QED
    BY <1>2, <2>1, <1>a, <1>b, <1>d, <1>g DEF D2Unhealthy, files
<1>3. CASE SkipIngest(c)
  BY <1>3, <1>a, <1>b, <1>d, <1>g DEF SkipIngest, Ingested, files
<1>4. CASE Ingest(c)
  <2>1. pc'[c] \in {"search", "close"} /\ rc' = rc
    BY <1>4, <1>a, <1>b DEF Ingest, Ingested
  <2>2. sees'[c] = "in place"
    <3>1. sees[c] = "in place"
      BY <1>4, <1>g DEF Ingest, SightOf, c
    <3>2. QED
      BY <1>4, <3>1 DEF Ingest
  <2>3. QED
    BY <2>1, <2>2, <1>d
<1>5. CASE CloseWriter(c)
  BY <1>5, <1>a, <1>b, <1>d DEF CloseWriter
<1>6. CASE Search(c)
  <2>1. k \in filled
    BY <1>6, <1>a, <1>g DEF Search, Populated
  <2>2. QED
    BY <1>6, <2>1, <1>a, <1>b, <1>d, <1>g DEF Search, files, runVars
<1>7. CASE OpenWalled(c)
  BY <1>7, <1>a, <1>b, <1>d, <1>g DEF OpenWalled, runVars
<1>8. CASE TruncateReport(c)
  BY <1>8, <1>a, <1>b, <1>d, <1>g DEF TruncateReport, runVars
<1>9. CASE WriteReport(c)
  <2>1. Wiped(k) = TRUE
    BY <1>d DEF Wiped
  <2>2. report'[k] = [notes |-> notes[c], since |-> TRUE]
    BY <1>9, <1>a, <1>b, <2>1 DEF WriteReport
  <2>3. report'[k] \in FreshReports
    BY <2>2, <1>a, <1>b DEF FreshReports, Report
  <2>4. pc[c] = "write" /\ pc'[c] = "exit" /\ UNCHANGED <<filled, sees, notes, rc>>
    BY <1>9, <1>a, <1>b DEF WriteReport, runVars
  <2>5. QED
    BY <2>3, <2>4, <1>d, <1>g
<1>10. CASE Exit(c)
  <2>1. /\ pc[c] = "exit" /\ pc'[c] = "ended" /\ sees'[c] = "none"
        /\ rc'[c] = "zero" => ~notes[c].fatal
        /\ UNCHANGED <<filled, report>>
    BY <1>10, <1>a, <1>b DEF Exit, Ends
  <2>2. QED
    BY <2>1, <1>g
<1>11. CASE Crash(c)
  BY <1>11, <1>a, <1>b DEF Crash, Ends
<1>12. QED
  BY <1>g, <1>1, <1>2, <1>3, <1>4, <1>5, <1>6, <1>7, <1>8, <1>9, <1>10, <1>11 DEF Run

(* The step of another run. *)
LEMMA ToldOther ==
    ASSUME TypeInv, Waiting, NEW k \in Stores, ToldBy(k), NEW p \in Runs, p # Child(k), Run(p)
    PROVE  ToldBy(k)'
<1>a. Child(k) \in Runs /\ TypeOK
  BY Constants DEF TypeInv
<1>1. pc'[Child(k)] = pc[Child(k)] /\ UNCHANGED g8Vars
  BY <1>a, RunMoves, Constants
<1>2. /\ sees'[Child(k)] = sees[Child(k)] /\ notes'[Child(k)] = notes[Child(k)]
      /\ rc'[Child(k)] = rc[Child(k)] /\ filled \subseteq filled'
  BY <1>a, ZenonT(30) DEF TypeOK, Run, OpenBackend, D2Unhealthy, SkipIngest, Ingest, CloseWriter, OpenReader,
         Opens, Search, OpenWalled, TruncateReport, WriteReport, Exit, Crash, Ends, files, runVars
<1>3. \/ report'[k] = report[k]
      \/ report'[k] \in FreshReports
      \/ pc[Child(k)] = "off"
  <2>1. CASE TruncateReport(p)
    BY <1>a, <2>1 DEF TruncateReport, FreshReports, TypeOK
  <2>2. CASE WriteReport(p)
    <3>1. CASE StoreOf(p) = k /\ pc[Child(k)] # "off"
      <4>1. Wiped(k) = TRUE
        BY <3>1, StartedWiped DEF Wiped
      <4>2. report'[k] = [notes |-> notes[p], since |-> TRUE]
        BY <1>a, <2>2, <3>1, <4>1 DEF WriteReport, TypeOK
      <4>3. notes[p] \in Notes
        BY <1>a DEF TypeOK
      <4>4. QED
        BY <4>2, <4>3 DEF FreshReports, Report
    <3>2. CASE StoreOf(p) # k
      BY <1>a, <2>2, <3>2 DEF WriteReport, TypeOK
    <3>3. QED
      BY <3>1, <3>2
  <2>3. CASE ~TruncateReport(p) /\ ~WriteReport(p)
    BY <2>3 DEF Run, OpenBackend, D2Unhealthy, SkipIngest, Ingest, CloseWriter, OpenReader,
         Search, OpenWalled, Exit, Crash, files
  <2>4. QED
    BY <2>1, <2>2, <2>3
<1>4. QED
  BY <1>1, <1>2, <1>3, ToldKept DEF g8Vars

(* Nothing but g8, while it wipes, loses the memories of a store. *)
LEMMA ToldRemoved ==
    ASSUME TypeInv, NEW k \in Stores, ToldBy(k), NEW r \in Paths, MayRemove(r),
           r = k => pc[Child(k)] = "off" /\ sees[Child(k)] = "none",
           UNCHANGED <<report, notes, rc, seen>>, pc'[Child(k)] = pc[Child(k)],
           g8' \in Copied(k) => g8 \in Copied(k)
    PROVE  ToldBy(k)'
<1>a. Child(k) \in Runs /\ StoreOf(Child(k)) = k
  BY Constants
<1>1. sees'[Child(k)] = sees[Child(k)]
  BY <1>a DEF MayRemove, LeftBehind
<1>2. CASE r # k
  <2>1. k \in filled => k \in filled'
    BY <1>2 DEF MayRemove
  <2>2. QED
    BY <1>1, <2>1, ToldKept
<1>3. CASE r = k
  BY <1>1, <1>3 DEF ToldBy
<1>4. QED
  BY <1>2, <1>3

(* A step keeps Told. *)
LEMMA ToldStep == TypeInv /\ Waiting /\ Sighted /\ Told /\ [Next]_vars => Told'
<1> SUFFICES ASSUME TypeInv, Waiting, Sighted, Told, [Next]_vars, NEW k \in Stores PROVE ToldBy(k)'
  BY DEF Told
<1>a. /\ Child(k) \in Runs /\ Child(k) \in Procs /\ Child(k) \in {Child2, Child5} /\ StoreOf(Child(k)) = k
      /\ k \in {"d2", "d5"} /\ k \in Paths /\ ToldBy(k) /\ SightOf(Child(k)) /\ TypeOK
  BY Constants DEF Told, Sighted, TypeInv, Child, Stores
<1>1. ASSUME NEW p \in Runs, Start(p) PROVE ToldBy(k)'
  <2>1. UNCHANGED <<files, runVars, g8Vars>> /\ pc'[Child(k)] = pc[Child(k)]
    BY <1>1, <1>a DEF Start, TypeOK
  <2>2. QED
    BY <1>a, <2>1, ToldKept DEF files, runVars, g8Vars
<1>2. ASSUME NEW p \in Runs, Run(p) PROVE ToldBy(k)'
  BY <1>2, <1>a, ToldOwn, ToldOther
<1>3. CASE D7 \/ \E c \in Callers : Caller(c)
  <2>1. pc'[Child(k)] = pc[Child(k)] /\ UNCHANGED <<report, notes, rc, g8Vars>>
    BY <1>3, <1>a, OthersMove
  <2>2. CASE D7Begins \/ D7Wipes
    <3>1. MayRemove("mig") /\ "mig" # k /\ "mig" \in Paths
      BY <1>a, <2>2 DEF D7Begins, D7Wipes, Paths
    <3>2. QED
      BY <1>a, <2>1, <3>1, ToldRemoved DEF g8Vars
  <2>3. CASE D7Opens \/ D7Returns \/ D7Reports \/ D7Crashes \/ \E c \in Callers : Caller(c)
    <3>1. sees' = sees /\ filled' = filled
      BY <2>3 DEF D7Opens, D7Returns, D7Reports, D7Crashes, Caller, CallerLocks, CallerWorks, CallerEnds, runVars
    <3>2. QED
      BY <1>a, <2>1, <3>1, ToldKept DEF g8Vars
  <2>4. QED
    BY <1>3, <2>2, <2>3 DEF D7
<1>4. ASSUME NEW j \in Stores, WipeStore(j) PROVE ToldBy(k)'
  <2>1. g8 \in Before(k) /\ g8' \notin Copied(k)
    BY <1>4, <1>a DEF WipeStore, Before, Wiping, Copied, After, Stores
  <2>2. pc[Child(k)] = "off" /\ sees[Child(k)] = "none"
    BY <2>1, <1>a DEF Waiting, SightOf
  <2>3. MayRemove(j) /\ UNCHANGED <<report, notes, rc, seen, pc>> /\ j \in Paths
    BY <1>4 DEF WipeStore, Paths
  <2>4. QED
    BY <1>a, <2>1, <2>2, <2>3, ToldRemoved
<1>5. ASSUME NEW r \in {"mig", "subproc"}, UnlinkLock(r) PROVE ToldBy(k)'
  <2>1. g8' \notin Copied(k)
    BY <1>5, <1>a DEF UnlinkLock, Copied, After
  <2>2. MayRemove(r) /\ UNCHANGED <<report, notes, rc, seen, pc>> /\ r \in Paths /\ r # k
    BY <1>5, <1>a DEF UnlinkLock, Paths
  <2>3. QED
    BY <1>a, <2>1, <2>2, ToldRemoved
<1>6. ASSUME NEW j \in Stores, RunScript(j) PROVE ToldBy(k)'
  <2>1. g8' \in Copied(k) => g8 \in Copied(k)
    BY <1>6, <1>a DEF RunScript, Copied, After, Stores
  <2>2. CASE j # k
    BY <1>6, <1>a, <2>1, <2>2, ToldKept, Constants DEF RunScript, files, runVars, TypeOK
  <2>3. CASE j = k
    <3>1. pc[Child(k)] = "off" /\ pc'[Child(k)] = "open" /\ g8' \notin Copied(k)
      BY <1>6, <1>a, <2>3 DEF RunScript, Waiting, Before, Copied, After, TypeOK
    <3>2. UNCHANGED <<files, runVars, seen>>
      BY <1>6 DEF RunScript
    <3>3. QED
      BY <1>a, <3>1, <3>2 DEF ToldBy, files, runVars
  <2>4. QED
    BY <2>2, <2>3
<1>7. ASSUME NEW j \in Stores, ScriptTimesOut(j) PROVE ToldBy(k)'
  <2>1. g8' \notin Copied(k) /\ Ends(Child(j), "nonzero") /\ UNCHANGED <<filled, report, seen>>
    BY <1>7 DEF ScriptTimesOut, Copied, After
  <2>2. CASE j # k
    <3>1. Child(j) # Child(k) /\ Child(j) \in Runs
      BY <2>2, Constants
    <3>2. /\ pc'[Child(k)] = pc[Child(k)] /\ sees'[Child(k)] = sees[Child(k)]
          /\ notes'[Child(k)] = notes[Child(k)] /\ rc'[Child(k)] = rc[Child(k)]
      BY <1>a, <2>1, <3>1 DEF Ends, TypeOK
    <3>3. QED
      BY <1>a, <2>1, <3>2, ToldKept
  <2>3. CASE j = k
    BY <1>a, <2>1, <2>3 DEF Ends, ToldBy, TypeOK
  <2>4. QED
    BY <2>2, <2>3
<1>8. ASSUME NEW j \in Stores, ReadReport(j) PROVE ToldBy(k)'
  <2>1. UNCHANGED <<files, pc, runVars>> /\ g8 = <<"read", j>> /\ seen' = [seen EXCEPT ![j] = report[j]]
    BY <1>8 DEF ReadReport
  <2>2. CASE j = k
    <3>1. seen'[k] = report[k]
      BY <2>1, <2>2 DEF TypeInv, TypeOK
    <3>2. QED
      BY <1>a, <2>1, <3>1 DEF ToldBy, files, runVars
  <2>3. CASE j # k
    <3>1. g8' \in Copied(k) => g8 \in Copied(k)
      BY <1>8, <1>a, <2>3 DEF ReadReport, Copied, After, Stores
    <3>2. seen'[k] = seen[k]
      BY <2>1, <2>3 DEF TypeInv, TypeOK
    <3>3. QED
      BY <1>a, <2>1, <3>1, <3>2, ToldKept DEF files, runVars
  <2>4. QED
    BY <2>2, <2>3
<1>9. CASE G8Begins \/ Judge \/ G8Crashes \/ \E j \in Stores : ScriptEnds(j)
  <2>1. UNCHANGED <<files, pc, runVars, seen>>
    BY <1>9 DEF G8Begins, Judge, G8Crashes, ScriptEnds
  <2>2. g8' \in Copied(k) => g8 \in Copied(k)
    <3>1. CASE G8Begins \/ Judge \/ G8Crashes
      <4>1. g8' \in {<<"wipe", "d2">>, <<"ended", "all">>}
        BY <3>1 DEF G8Begins, Judge, G8Crashes
      <4>2. QED
        BY <1>a, <4>1 DEF Copied, After
    <3>2. ASSUME NEW j \in Stores, ScriptEnds(j) PROVE g8' \in Copied(k) => g8 \in Copied(k)
      <4>1. g8 = <<"wait", j>> /\ g8' = <<"read", j>> /\ j \in {"d2", "d5"}
        BY <3>2 DEF ScriptEnds, Stores
      <4>2. QED
        BY <1>a, <4>1 DEF Copied, After
    <3>3. QED
      BY <1>9, <3>1, <3>2
  <2>3. QED
    BY <1>a, <2>1, <2>2, ToldKept DEF files, runVars
<1>10. CASE UNCHANGED vars
  BY <1>10, <1>a, ToldKept DEF vars, files, runVars, g8Vars
<1>11. QED
  BY <1>1, <1>2, <1>3, <1>4, <1>5, <1>6, <1>7, <1>8, <1>9, <1>10 DEF Next, G8

(* A step keeps the verdict true. *)
LEMMA JudgedStep == TypeInv /\ Told /\ Judged /\ [Next]_vars => Judged'
<1> SUFFICES ASSUME TypeInv, Told, Judged, [Next]_vars, verdict'
             PROVE  /\ g8' = <<"ended", "all">>
                    /\ \A k \in Stores : seen'[k] \in Report /\ seen'[k].since /\ k \in filled'
  BY DEF Judged
<1>1. CASE Judge
  <2>1. g8 = <<"judge", "all">> /\ g8' = <<"ended", "all">> /\ UNCHANGED <<filled, seen>>
    BY <1>1 DEF Judge, files
  <2>2. ASSUME NEW k \in Stores PROVE seen[k] \in Report /\ seen[k].since /\ k \in filled
    <3>1. rc[Child(k)] = "zero" /\ seen[k] \in Report
      BY <1>1, <2>2 DEF Judge, CriteriaMet
    <3>2. g8 \in Copied(k)
      BY <2>1 DEF Copied, After
    <3>3. seen[k] \in FreshReports /\ k \in filled
      BY <3>1, <3>2 DEF Told, ToldBy
    <3>4. QED
      BY <3>1, <3>3, TornReport DEF FreshReports
  <2>3. QED
    BY <2>1, <2>2
<1>2. CASE ~Judge
  <2>1. verdict' = verdict
    <3>1. ASSUME NEW p \in Runs, Start(p) \/ Run(p) PROVE verdict' = verdict
      BY <3>1, RunMoves DEF Start, g8Vars
    <3>2. CASE G8Begins \/ G8 \/ G8Crashes
      BY <1>2, <3>2 DEF G8Begins, G8, G8Crashes, WipeStore, RunScript, ScriptEnds, ScriptTimesOut,
                        ReadReport, UnlinkLock
    <3>3. CASE D7 \/ \E c \in Callers : Caller(c)
      BY <3>3, OthersMove DEF g8Vars
    <3>4. QED
      BY <3>1, <3>2, <3>3 DEF Next, vars, g8Vars
  <2>2. g8 = <<"ended", "all">> /\ \A k \in Stores : seen[k] \in Report /\ seen[k].since /\ k \in filled
    BY <2>1 DEF Judged
  <2>3. ~(G8Begins \/ G8 \/ G8Crashes)
    BY <2>2 DEF G8Begins, G8, G8Crashes, Judge, WipeStore, RunScript, ScriptEnds, ScriptTimesOut,
                ReadReport, UnlinkLock
  <2>4. UNCHANGED g8Vars /\ \A k \in Stores : k \in filled => k \in filled'
    <3>1. ASSUME NEW p \in Runs, Start(p) \/ Run(p) PROVE UNCHANGED g8Vars /\ filled \subseteq filled'
      <4>1. UNCHANGED g8Vars
        BY <3>1, RunMoves DEF Start
      <4>2. filled \subseteq filled'
        BY <3>1 DEF Start, Run, OpenBackend, D2Unhealthy, SkipIngest, Ingest, CloseWriter, OpenReader,
               Search, OpenWalled, TruncateReport, WriteReport, Exit, Crash, files
      <4>3. QED
        BY <4>1, <4>2
    <3>2. CASE D7 \/ \E c \in Callers : Caller(c)
      <4>1. UNCHANGED g8Vars
        BY <3>2, OthersMove
      <4>2. filled' = filled \/ MayRemove("mig")
        BY <3>2 DEF D7, D7Begins, D7Opens, D7Wipes, D7Returns, D7Reports, D7Crashes, Caller,
                    CallerLocks, CallerWorks, CallerEnds
      <4>3. QED
        BY <4>1, <4>2 DEF MayRemove, Stores
    <3>3. QED
      BY <2>3, <3>1, <3>2 DEF Next, vars, files
  <2>5. QED
    BY <2>2, <2>4 DEF g8Vars
<1>3. QED
  BY <1>1, <1>2

(***************************************************************************)
(* A verdict of "pass" is about this capture.                              *)
(***************************************************************************)
THEOREM VerdictsAreFresh == Spec => []VerdictIsFresh
<1>1. Init => Waiting /\ Sighted
  BY StartingPlaces
<1>2. Init => Told
  <2>1. Init => /\ \A k \in Stores : Child(k) \in Runs /\ pc[Child(k)] \in {"off", "ended"}
                /\ g8 = <<"off", "all">>
    BY Constants DEF Init
  <2>2. QED
    BY <2>1 DEF Init, Told, ToldBy
<1>3. Init => Judged
  BY DEF Init, Judged
<1>4. Judged => VerdictIsFresh
  BY DEF Judged, VerdictIsFresh
<1>5. QED
  BY <1>1, <1>2, <1>3, <1>4, TypeInit, TypeStep, WaitingStep, SightedStep, ToldStep, JudgedStep,
     PTL DEF Spec

=============================================================================
