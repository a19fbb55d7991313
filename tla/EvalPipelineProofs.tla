------------------------- MODULE EvalPipelineProofs -------------------------
(***************************************************************************)
(* Proofs about EvalPipeline and Injection, for any transcripts, sessions, *)
(* arms and runners.  One theorem, OneRowEach, is about runs one after the *)
(* other, and says so.                                                     *)
(***************************************************************************)
EXTENDS EvalPipeline, FiniteSetTheorems, TLAPS

(***************************************************************************)
(* The start of a session.                                                 *)
(***************************************************************************)

\* As many records as there are blocks: each block has one of its own.
Fits(H, R) == \E f \in [H -> R] : \A t, u \in H : f[t] = f[u] => t = u

LEMMA FitsFewer ==
    ASSUME NEW H, NEW R, NEW G \in SUBSET H, NEW Q, R \subseteq Q, Fits(H, R)
    PROVE  Fits(G, Q)
<1>1. PICK f \in [H -> R] : \A t, u \in H : f[t] = f[u] => t = u
  BY DEF Fits
<1> DEFINE g == [t \in G |-> f[t]]
<1>2. g \in [G -> Q]
  BY <1>1
<1>3. \A t, u \in G : g[t] = g[u] => t = u
  BY <1>1
<1>4. QED
  BY <1>2, <1>3 DEF Fits

LEMMA FitsOneMore ==
    ASSUME NEW H, NEW R, NEW x, x \notin H, NEW y, y \notin R, Fits(H, R)
    PROVE  Fits(H \cup {x}, R \cup {y})
<1>1. PICK f \in [H -> R] : \A t, u \in H : f[t] = f[u] => t = u
  BY DEF Fits
<1> DEFINE g == [t \in H \cup {x} |-> IF t = x THEN y ELSE f[t]]
<1>2. g \in [H \cup {x} -> R \cup {y}]
  BY <1>1
<1>3. \A t \in H : g[t] = f[t] /\ g[t] \in R
  BY <1>1
<1>4. g[x] = y
  OBVIOUS
<1> HIDE DEF g
<1>5. \A t, u \in H \cup {x} : g[t] = g[u] => t = u
  BY <1>1, <1>3, <1>4
<1>6. QED
  BY <1>2, <1>5 DEF Fits

\* The runs that hold a retrieval of arm a: its block is printed or may yet be.
Holders(a) == {t \in Transcripts : arm[t] = a /\ (stage[t] = "logged" \/ printed[t])}

Records(a) == {i \in DOMAIN log : log[i].arm = a /\ log[i].status = "OK"}

\* A retriever prints as the last thing it does.
PrintedLast == \A t \in Transcripts : printed[t] => stage[t] \notin {"new", "logged"}

\* No record says which session it is about.
Unidentified == \A i \in DOMAIN log : log[i].session = None

BlocksStaged == \A t \in Codex : printed[t] => \E i \in DOMAIN staged : staged[i] = t

Backed == \A a \in Arms : Fits(Holders(a), Records(a))

StartInv ==
    /\ InjectionTypeOK
    /\ PrintedLast
    /\ Unidentified
    /\ BlocksStaged
    /\ NoOlderBlock
    /\ Backed

LEMMA StartInit == InjectionInit => StartInv
<1> SUFFICES ASSUME InjectionInit PROVE StartInv
  OBVIOUS
<1>1. InjectionTypeOK
  BY DEF InjectionInit, InjectionTypeOK, Stage
<1>2. PrintedLast /\ Unidentified /\ BlocksStaged /\ NoOlderBlock
  BY InjectionAssumption
  DEF InjectionInit, PrintedLast, Unidentified, BlocksStaged, NoOlderBlock, Arrived
<1>3. ASSUME NEW a \in Arms PROVE Fits(Holders(a), Records(a))
  <2>1. Holders(a) = {}
    BY DEF InjectionInit, Holders
  <2> DEFINE f == [t \in {} |-> t]
  <2>2. f \in [{} -> Records(a)]
    OBVIOUS
  <2>3. QED
    BY <2>1, <2>2 DEF Fits
<1>4. QED
  BY <1>1, <1>2, <1>3 DEF StartInv, Backed

(* What the log says is only ever added to.                                *)
LEMMA LogGrows ==
    ASSUME log \in Seq(LogRecord), NEW a \in Arms, NEW status \in {"OK", "FAILED"},
           log' = Append(log, Entry(a, status)), Unidentified
    PROVE  /\ log' \in Seq(LogRecord)
           /\ Unidentified'
           /\ \A b \in Arms : Records(b) \subseteq Records(b)'
           /\ status = "OK" => /\ Len(log) + 1 \notin Records(a)
                               /\ Records(a) \cup {Len(log) + 1} \subseteq Records(a)'
<1>1. Entry(a, status) \in LogRecord
  BY DEF Entry, LogRecord
<1>2. log' \in Seq(LogRecord) /\ Len(log') = Len(log) + 1
  BY <1>1
<1>3. /\ \A i \in DOMAIN log : i \in DOMAIN log' /\ log'[i] = log[i]
      /\ Len(log) + 1 \in DOMAIN log' /\ Len(log) + 1 \notin DOMAIN log
      /\ log'[Len(log) + 1] = Entry(a, status)
      /\ \A i \in DOMAIN log' : i \in DOMAIN log \/ i = Len(log) + 1
  BY <1>1
<1>4. Entry(a, status).session = None /\ Entry(a, status).arm = a /\ Entry(a, status).status = status
  BY DEF Entry
<1>5. Unidentified'
  BY <1>3, <1>4 DEF Unidentified
<1>6. QED
  BY <1>2, <1>3, <1>4, <1>5 DEF Records

(* Every run keeps what it holds, or less: enough records remain.          *)
LEMMA BackedKept ==
    ASSUME Backed,
           \A b \in Arms : Holders(b)' \subseteq Holders(b) /\ Records(b) \subseteq Records(b)'
    PROVE  Backed'
<1>1. ASSUME NEW b \in Arms PROVE Fits(Holders(b)', Records(b)')
  BY FitsFewer DEF Backed
<1>2. QED
  BY <1>1 DEF Backed

(* No run starts to see or to print anything, and no block is staged.       *)
LEMMA StagingKept ==
    ASSUME NEW t \in Transcripts, PrintedLast, BlocksStaged, NoOlderBlock,
           UNCHANGED <<printed, staged, context>>,
           NEW s \in {"logged", "retrieved"}, stage' = [stage EXCEPT ![t] = s],
           stage[t] \in {"new", "logged"}, s = "logged" => ~printed[t],
           stage \in [Transcripts -> Stage], Codex \subseteq Transcripts
    PROVE  PrintedLast' /\ BlocksStaged' /\ NoOlderBlock'
<1>1. PrintedLast'
  BY DEF PrintedLast
<1>2. BlocksStaged'
  BY DEF BlocksStaged
<1>3. \A u \in Codex : Arrived(u)' => Arrived(u)
  BY DEF Arrived
<1>4. NoOlderBlock'
  BY <1>3 DEF NoOlderBlock
<1>5. QED
  BY <1>1, <1>2, <1>4

LEMMA LogsKeep ==
    ASSUME StartInv, NEW t \in Transcripts, NEW a \in Arms, RetrieverLogs(t, a)
    PROVE  StartInv'
<1>1. /\ stage[t] = "new" /\ stage' = [stage EXCEPT ![t] = "logged"]
      /\ arm' = [arm EXCEPT ![t] = a]
      /\ log' = Append(log, Entry(a, "OK"))
      /\ UNCHANGED <<printed, staged, context>>
  BY DEF RetrieverLogs
<1>2. ~printed[t] /\ t \notin Holders(a)
  BY <1>1 DEF StartInv, PrintedLast, Holders
<1>3. /\ log' \in Seq(LogRecord)
      /\ Unidentified'
      /\ \A b \in Arms : Records(b) \subseteq Records(b)'
      /\ Len(log) + 1 \notin Records(a)
      /\ Records(a) \cup {Len(log) + 1} \subseteq Records(a)'
  BY <1>1, LogGrows DEF StartInv, InjectionTypeOK
<1>4. InjectionTypeOK'
  BY <1>1, <1>3 DEF StartInv, InjectionTypeOK, Stage
<1>5. PrintedLast' /\ BlocksStaged' /\ NoOlderBlock'
  BY <1>1, <1>2, StagingKept, InjectionAssumption DEF StartInv, InjectionTypeOK
<1>6. ASSUME NEW b \in Arms PROVE Fits(Holders(b)', Records(b)')
  <2>1. CASE b = a
    <3>1. Fits(Holders(a) \cup {t}, Records(a) \cup {Len(log) + 1})
      BY <1>2, <1>3, FitsOneMore DEF StartInv, Backed
    <3>2. Holders(a)' \subseteq Holders(a) \cup {t}
      BY <1>1 DEF Holders, StartInv, InjectionTypeOK
    <3>3. QED
      BY <1>3, <2>1, <3>1, <3>2, FitsFewer
  <2>2. CASE b # a
    <3>1. Holders(b)' \subseteq Holders(b)
      BY <1>1, <2>2 DEF Holders, StartInv, InjectionTypeOK
    <3>2. QED
      BY <1>3, <3>1, FitsFewer DEF StartInv, Backed
  <2>3. QED
    BY <2>1, <2>2
<1>7. Backed'
  BY <1>6 DEF Backed
<1>8. QED
  BY <1>3, <1>4, <1>5, <1>7 DEF StartInv

LEMMA BailsKeep ==
    ASSUME StartInv, NEW t \in Transcripts, NEW a \in Arms, RetrieverBails(t, a)
    PROVE  StartInv'
<1>1. /\ stage[t] = "new" /\ stage' = [stage EXCEPT ![t] = "retrieved"]
      /\ arm' = [arm EXCEPT ![t] = a]
      /\ log' = Append(log, Entry(a, "FAILED"))
      /\ UNCHANGED <<printed, staged, context>>
  BY DEF RetrieverBails
<1>2. ~printed[t]
  BY <1>1 DEF StartInv, PrintedLast
<1>3. /\ log' \in Seq(LogRecord)
      /\ Unidentified'
      /\ \A b \in Arms : Records(b) \subseteq Records(b)'
  BY <1>1, LogGrows DEF StartInv, InjectionTypeOK
<1>4. InjectionTypeOK'
  BY <1>1, <1>3 DEF StartInv, InjectionTypeOK, Stage
<1>5. PrintedLast' /\ BlocksStaged' /\ NoOlderBlock'
  BY <1>1, StagingKept, InjectionAssumption DEF StartInv, InjectionTypeOK
<1>6. \A b \in Arms : Holders(b)' \subseteq Holders(b)
  BY <1>1, <1>2 DEF Holders, StartInv, InjectionTypeOK
<1>7. Backed'
  BY <1>3, <1>6, BackedKept DEF StartInv
<1>8. QED
  BY <1>3, <1>4, <1>5, <1>7 DEF StartInv

LEMMA DiesKeeps ==
    ASSUME StartInv, NEW t \in Transcripts, NEW a \in Arms, RetrieverDies(t, a)
    PROVE  StartInv'
<1>1. /\ stage[t] \in {"new", "logged"} /\ stage' = [stage EXCEPT ![t] = "retrieved"]
      /\ arm' = [arm EXCEPT ![t] = a] \/ arm' = arm
      /\ UNCHANGED <<printed, staged, context, log>>
  BY DEF RetrieverDies
<1>2. ~printed[t]
  BY <1>1 DEF StartInv, PrintedLast
<1>3. Unidentified' /\ \A b \in Arms : Records(b) \subseteq Records(b)'
  BY <1>1 DEF StartInv, Unidentified, Records
<1>4. InjectionTypeOK'
  BY <1>1 DEF StartInv, InjectionTypeOK, Stage
<1>5. PrintedLast' /\ BlocksStaged' /\ NoOlderBlock'
  BY <1>1, StagingKept, InjectionAssumption DEF StartInv, InjectionTypeOK
<1>6. \A b \in Arms : Holders(b)' \subseteq Holders(b)
  BY <1>1, <1>2 DEF Holders, StartInv, InjectionTypeOK
<1>7. Backed'
  BY <1>3, <1>6, BackedKept DEF StartInv
<1>8. QED
  BY <1>3, <1>4, <1>5, <1>7 DEF StartInv

LEMMA PrintsKeep ==
    ASSUME StartInv, NEW t \in Transcripts, RetrieverPrints(t)
    PROVE  StartInv'
<1>1. /\ stage[t] = "logged" /\ stage' = [stage EXCEPT ![t] = "retrieved"]
      /\ printed' = [printed EXCEPT ![t] = TRUE]
      /\ staged' = IF t \in Codex THEN Append(staged, t) ELSE staged
      /\ UNCHANGED <<arm, context, log>>
  BY DEF RetrieverPrints
<1>2. staged \in Seq(Transcripts) /\ staged' \in Seq(Transcripts)
  BY <1>1 DEF StartInv, InjectionTypeOK
<1>3. InjectionTypeOK'
  BY <1>1, <1>2 DEF StartInv, InjectionTypeOK, Stage
<1>4. PrintedLast' /\ Unidentified'
  BY <1>1 DEF StartInv, InjectionTypeOK, PrintedLast, Unidentified
<1>5. \A i \in DOMAIN staged : i \in DOMAIN staged' /\ staged'[i] = staged[i]
  BY <1>1, <1>2
<1>6. t \in Codex => \E i \in DOMAIN staged' : staged'[i] = t
  <2>1. t \in Codex => Len(staged) + 1 \in DOMAIN staged' /\ staged'[Len(staged) + 1] = t
    BY <1>1, <1>2
  <2>2. QED
    BY <2>1
<1>7. BlocksStaged'
  <2>1. ASSUME NEW u \in Codex, printed'[u] PROVE \E i \in DOMAIN staged' : staged'[i] = u
    <3>1. CASE u = t
      BY <1>6, <2>1, <3>1
    <3>2. CASE u # t
      <4>1. printed[u]
        BY <1>1, <2>1, <3>2, InjectionAssumption DEF StartInv, InjectionTypeOK
      <4>2. QED
        BY <1>5, <4>1 DEF StartInv, BlocksStaged
    <3>3. QED
      BY <3>1, <3>2
  <2>2. QED
    BY <2>1 DEF BlocksStaged
<1>8. NoOlderBlock'
  <2>1. ASSUME NEW u \in Codex, Arrived(u)', printed'[u]
        PROVE  \E i, j \in DOMAIN staged' :
                  staged'[i] = u /\ staged'[j] = context'[u] /\ i <= j
    <3>1. Arrived(u) /\ printed[u] /\ context'[u] = context[u]
      BY <1>1, <2>1, InjectionAssumption DEF Arrived, StartInv, InjectionTypeOK
    <3>2. PICK i, j \in DOMAIN staged : staged[i] = u /\ staged[j] = context[u] /\ i <= j
      BY <3>1 DEF StartInv, NoOlderBlock
    <3>3. QED
      BY <1>5, <3>1, <3>2
  <2>2. QED
    BY <2>1 DEF NoOlderBlock
<1>9. \A b \in Arms : Holders(b)' \subseteq Holders(b) /\ Records(b) \subseteq Records(b)'
  BY <1>1 DEF Holders, Records, StartInv, InjectionTypeOK
<1>10. Backed'
  BY <1>9, BackedKept DEF StartInv
<1>11. QED
  BY <1>3, <1>4, <1>7, <1>8, <1>10 DEF StartInv

LEMMA LaunchKeeps ==
    ASSUME StartInv, NEW t \in Transcripts, Launch(t)
    PROVE  StartInv'
<1>1. /\ stage[t] = "retrieved" /\ stage' = [stage EXCEPT ![t] = "live"]
      /\ context' = [context EXCEPT ![t] = IF t \in Codex THEN StagedBlock
                                           ELSE IF printed[t] THEN t ELSE None]
      /\ UNCHANGED <<arm, printed, staged, log>>
  BY DEF Launch
<1>2. staged \in Seq(Transcripts)
  BY DEF StartInv, InjectionTypeOK
<1>3. StagedBlock \in Transcripts \cup {None}
  BY <1>2 DEF StagedBlock
<1>4. InjectionTypeOK'
  <2>1. context' \in [Transcripts -> Transcripts \cup {None}]
    BY <1>1, <1>3 DEF StartInv, InjectionTypeOK
  <2>2. QED
    BY <1>1, <2>1 DEF StartInv, InjectionTypeOK, Stage
<1>5. PrintedLast' /\ Unidentified' /\ BlocksStaged'
  BY <1>1 DEF StartInv, InjectionTypeOK, PrintedLast, Unidentified, BlocksStaged
<1>6. ASSUME NEW u \in Codex, Arrived(u)', printed'[u]
      PROVE  \E i, j \in DOMAIN staged' :
                staged'[i] = u /\ staged'[j] = context'[u] /\ i <= j
  <2>1. CASE u = t
    <3>1. PICK i \in DOMAIN staged : staged[i] = t
      BY <1>1, <1>6, <2>1 DEF StartInv, BlocksStaged
    <3>2. i \in 1..Len(staged) /\ Len(staged) \in DOMAIN staged /\ i <= Len(staged)
      BY <1>2, <3>1
    <3>3. context'[t] = staged[Len(staged)]
      BY <1>1, <1>2, <1>6, <2>1, <3>2 DEF StagedBlock, StartInv, InjectionTypeOK
    <3>4. QED
      BY <1>1, <2>1, <3>1, <3>2, <3>3
  <2>2. CASE u # t
    <3>1. Arrived(u) /\ printed[u] /\ context'[u] = context[u]
      BY <1>1, <1>6, <2>2, InjectionAssumption DEF Arrived, StartInv, InjectionTypeOK
    <3>2. PICK i, j \in DOMAIN staged : staged[i] = u /\ staged[j] = context[u] /\ i <= j
      BY <3>1 DEF StartInv, NoOlderBlock
    <3>3. QED
      BY <1>1, <3>1, <3>2
  <2>3. QED
    BY <2>1, <2>2
<1>7. NoOlderBlock'
  BY <1>6 DEF NoOlderBlock
<1>8. \A b \in Arms : Holders(b)' \subseteq Holders(b) /\ Records(b) \subseteq Records(b)'
  BY <1>1 DEF Holders, Records, StartInv, InjectionTypeOK
<1>9. Backed'
  BY <1>8, BackedKept DEF StartInv
<1>10. QED
  BY <1>4, <1>5, <1>7, <1>9 DEF StartInv

LEMMA StartNext == StartInv /\ [InjectionNext]_injectionVars => StartInv'
<1> SUFFICES ASSUME StartInv, [InjectionNext]_injectionVars PROVE StartInv'
  OBVIOUS
<1>1. ASSUME NEW t \in Transcripts, InjectionStep(t) PROVE StartInv'
  BY <1>1, LogsKeep, BailsKeep, DiesKeeps, PrintsKeep, LaunchKeeps
  DEF InjectionStep
<1>2. CASE UNCHANGED injectionVars
  BY <1>2
  DEF injectionVars, StartInv, InjectionTypeOK, PrintedLast, Unidentified, BlocksStaged,
      NoOlderBlock, Arrived, Backed, Holders, Records
<1>3. QED
  BY <1>1, <1>2 DEF InjectionNext

LEMMA HoldersPrinted ==
    ASSUME StartInv PROVE BlocksLogged
<1>1. ASSUME NEW a \in Arms
      PROVE  LET printers == {t \in Transcripts : printed[t] /\ arm[t] = a}
             IN  Fits(printers, Records(a))
  BY FitsFewer DEF StartInv, Backed, Holders
<1>2. QED
  BY <1>1 DEF BlocksLogged, Fits, Records

(***************************************************************************)
(* The runners.                                                            *)
(***************************************************************************)

\* A runner about to write has a row.
RowReady == \A r \in Runners : pc[r] = "append" => row[r] \in [of: Transcripts, is: Row]

RunnerType ==
    /\ rows \in Seq(Row)
    /\ tail \in {"clean", "cut", "whole"}
    /\ tail = "whole" => rows # <<>>
    /\ pc \in [Runners -> {"off", "arms", "list", "scan", "append"}]
    /\ seen \in [Runners -> SUBSET Sessions]
    /\ arms \in [Runners -> [Sessions -> Arms \cup {"unknown"}]]
    /\ todo \in [Runners -> SUBSET Transcripts]
    /\ row \in [Runners -> [of: Transcripts, is: Row] \cup {NoRow}]
    /\ cap \in [Runners -> Caps \cup {0}]
    /\ processed \in [Runners -> Nat]
    /\ faults \in 0..MaxFaults

RunnerInv == RunnerType /\ RowReady

RunnersRest == UNCHANGED <<rows, tail, runnerVars, faults>>

LEMMA StepKinds ==
    ASSUME Next
    PROVE  \/ InjectionNext /\ RunnersRest
           \/ \E r \in Runners : /\ RunnerStep(r) \/ AppendBreaks(r) \/ Crash(r)
                                 /\ UNCHANGED injectionVars
  BY DEF Next, RunnerStep, AppendBreaks, Crash, Stop, ReadSeen, LoadArms, ListTranscripts,
         PassOver, Measure, AppendRow, Finish, RunnersRest

LEMMA StartInvNext == StartInv /\ [Next]_vars => StartInv'
  BY StepKinds, StartNext DEF vars

(* What the file is after a row was written behind whatever it ended in.   *)
LEMMA AppendedFacts ==
    ASSUME rows \in Seq(Row), tail \in {"clean", "cut", "whole"}, tail = "whole" => rows # <<>>,
           NEW new \in Row
    PROVE  /\ Appended(new) \in Seq(Row)
           /\ SessionsIn(Appended(new)) \subseteq SessionsIn(rows) \cup {new.session}
           /\ tail = "clean" => Appended(new) # <<>>
           /\ \A i \in DOMAIN Appended(new) :
                 \/ i \in DOMAIN rows /\ Appended(new)[i] = rows[i]
                 \/ i = Len(rows) + 1 /\ Appended(new)[i] = new
<1>1. CASE tail = "clean"
  <2>1. Appended(new) = Append(rows, new)
    BY <1>1 DEF Appended
  <2>2. Append(rows, new) \in Seq(Row) /\ Append(rows, new) # <<>>
    OBVIOUS
  <2>3. \A i \in DOMAIN Append(rows, new) :
           \/ i \in DOMAIN rows /\ Append(rows, new)[i] = rows[i]
           \/ i = Len(rows) + 1 /\ Append(rows, new)[i] = new
    OBVIOUS
  <2>4. QED
    BY <2>1, <2>2, <2>3 DEF SessionsIn
<1>2. CASE tail = "cut"
  BY <1>2 DEF Appended, SessionsIn
<1>3. CASE tail = "whole"
  <2>1. Appended(new) = SubSeq(rows, 1, Len(rows) - 1)
    BY <1>3 DEF Appended
  <2>2. Len(rows) - 1 \in 0..Len(rows)
    BY <1>3
  <2>3. SubSeq(rows, 1, Len(rows) - 1) \in Seq(Row)
    BY <2>2
  <2>4. \A i \in DOMAIN SubSeq(rows, 1, Len(rows) - 1) :
           i \in DOMAIN rows /\ SubSeq(rows, 1, Len(rows) - 1)[i] = rows[i]
    BY <2>2
  <2>5. QED
    BY <1>3, <2>1, <2>3, <2>4 DEF SessionsIn
<1>4. QED
  BY <1>1, <1>2, <1>3

(* No record names a session, so no session is assigned an arm.            *)
LEMMA NoneAssigned ==
    ASSUME Unidentified
    PROVE  ArmAssignments = Unassigned
<1>1. \A s \in Sessions : {i \in DOMAIN log : log[i].session = s} = {}
  BY InjectionAssumption DEF Unidentified
<1>2. QED
  BY <1>1 DEF ArmAssignments, Unassigned

LEMMA RunnerInit == Init => RunnerInv
<1> SUFFICES ASSUME Init PROVE RunnerInv
  OBVIOUS
<1>1. RunnerType
  BY RunnerAssumption DEF Init, RunnerType, Unassigned
<1>2. QED
  BY <1>1 DEF Init, RunnerInv, RowReady

LEMMA RunnerSteps ==
    ASSUME RunnerInv, StartInv, NEW r \in Runners, RunnerStep(r)
    PROVE  RunnerInv'
<1> USE DEF RunnerInv
<1>1. CASE ReadSeen(r)
  <2>1. SessionsIn(rows) \subseteq Sessions
    <3>1. \A i \in DOMAIN rows : rows[i] \in Row
      BY DEF RunnerType
    <3>2. QED
      BY <3>1 DEF SessionsIn, Row
  <2>2. RunnerType'
    BY <1>1, <2>1 DEF ReadSeen, RunnerType
  <2>3. RowReady'
    BY <1>1 DEF ReadSeen, RunnerType, RowReady
  <2>4. QED
    BY <2>2, <2>3
<1>2. CASE LoadArms(r)
  <2>1. ArmAssignments \in [Sessions -> Arms \cup {"unknown"}]
    BY NoneAssigned DEF StartInv, Unassigned
  <2>2. RunnerType'
    BY <1>2, <2>1 DEF LoadArms, RunnerType
  <2>3. RowReady'
    BY <1>2 DEF LoadArms, RunnerType, RowReady
  <2>4. QED
    BY <2>2, <2>3
<1>3. CASE ListTranscripts(r)
  <2>1. RunnerType'
    BY <1>3 DEF ListTranscripts, RunnerType
  <2>2. RowReady'
    BY <1>3 DEF ListTranscripts, RunnerType, RowReady
  <2>3. QED
    BY <2>1, <2>2
<1>4. ASSUME NEW t \in Transcripts, PassOver(r, t) PROVE RunnerInv'
  <2>1. RunnerType'
    BY <1>4 DEF PassOver, Scans, RunnerType
  <2>2. RowReady'
    BY <1>4 DEF PassOver, RunnerType, RowReady
  <2>3. QED
    BY <2>1, <2>2
<1>5. ASSUME NEW t \in Transcripts, Measure(r, t) PROVE RunnerInv'
  <2> DEFINE it == [of |-> t, is |-> [session |-> SessionOf[t], arm |-> arms[r][SessionOf[t]]]]
  <2>1. it \in [of: Transcripts, is: Row]
    BY InjectionAssumption DEF RunnerType, Row
  <2>2. row' = [row EXCEPT ![r] = it]
    BY <1>5 DEF Measure
  <2> HIDE DEF it
  <2>3. RunnerType'
    BY <1>5, <2>1, <2>2 DEF Measure, RunnerType
  <2>4. RowReady'
    BY <1>5, <2>1, <2>2 DEF Measure, RunnerType, RowReady
  <2>5. QED
    BY <2>3, <2>4
<1>6. CASE AppendRow(r)
  <2>1. row[r] \in [of: Transcripts, is: Row]
    BY <1>6 DEF AppendRow, RowReady
  <2>2. row[r].is \in Row /\ row[r].is.session \in Sessions
    BY <2>1 DEF Row
  <2>3. rows' \in Seq(Row)
    BY <1>6, <2>2, AppendedFacts DEF AppendRow, RunnerType
  <2>4. RunnerType'
    BY <1>6, <2>2, <2>3 DEF AppendRow, RunnerType
  <2>5. RowReady'
    BY <1>6 DEF AppendRow, RunnerType, RowReady
  <2>6. QED
    BY <2>4, <2>5
<1>7. CASE Finish(r)
  <2>1. RunnerType'
    BY <1>7 DEF Finish, Stop, RunnerType
  <2>2. RowReady'
    BY <1>7 DEF Finish, Stop, RunnerType, RowReady
  <2>3. QED
    BY <2>1, <2>2
<1>8. QED
  BY <1>1, <1>2, <1>3, <1>4, <1>5, <1>6, <1>7 DEF RunnerStep

LEMMA RunnerFaults ==
    ASSUME RunnerInv, NEW r \in Runners, AppendBreaks(r) \/ Crash(r)
    PROVE  RunnerInv'
<1> USE DEF RunnerInv
<1>1. faults' \in 0..MaxFaults
  BY RunnerAssumption DEF AppendBreaks, Crash, Fault, RunnerType
<1>2. Stop(r)
  BY DEF AppendBreaks, Crash
<1>3. RowReady'
  BY <1>2 DEF Stop, RunnerType, RowReady
<1>4. rows' \in Seq(Row) /\ tail' \in {"clean", "cut", "whole"} /\ (tail' = "whole" => rows' # <<>>)
  <2>1. CASE Crash(r)
    BY <2>1 DEF Crash, RunnerType
  <2>2. CASE AppendBreaks(r)
    <3>1. row[r].is \in Row
      BY <2>2 DEF AppendBreaks, RowReady
    <3>2. /\ Appended(row[r].is) \in Seq(Row)
          /\ tail = "clean" => Appended(row[r].is) # <<>>
      BY <3>1, AppendedFacts DEF RunnerType
    <3>3. QED
      BY <2>2, <3>2 DEF AppendBreaks, RunnerType
  <2>3. QED
    BY <2>1, <2>2
<1>5. RunnerType'
  BY <1>1, <1>2, <1>4 DEF Stop, RunnerType
<1>6. QED
  BY <1>3, <1>5

LEMMA RunnerInvNext == RunnerInv /\ StartInv /\ [Next]_vars => RunnerInv'
<1> SUFFICES ASSUME RunnerInv, StartInv, [Next]_vars PROVE RunnerInv'
  OBVIOUS
<1>1. CASE RunnersRest \/ UNCHANGED vars
  BY <1>1 DEF RunnersRest, vars, runnerVars, RunnerInv, RunnerType, RowReady
<1>2. QED
  BY <1>1, StepKinds, RunnerSteps, RunnerFaults

(***************************************************************************)
(* The type invariant of the pipeline.                                     *)
(***************************************************************************)
THEOREM TypeCorrect == Spec => []TypeOK
<1>1. Init => StartInv /\ RunnerInv
  BY StartInit, RunnerInit DEF Init
<1>2. StartInv /\ RunnerInv => TypeOK
  BY DEF StartInv, RunnerInv, RunnerType, TypeOK
<1>3. QED
  BY <1>1, <1>2, StartInvNext, RunnerInvNext, PTL DEF Spec

(***************************************************************************)
(* Provenance: no more blocks than records of a retrieval, for each arm.   *)
(***************************************************************************)
THEOREM BlocksHaveRecords == Spec => []BlocksLogged
<1>1. Init => StartInv
  BY StartInit DEF Init
<1>2. QED
  BY <1>1, StartInvNext, HoldersPrinted, PTL DEF Spec

(***************************************************************************)
(* A Codex session never sees a block older than its own.                  *)
(***************************************************************************)
THEOREM BlocksAreNoOlder == Spec => []NoOlderBlock
<1>1. Init => StartInv
  BY StartInit DEF Init
<1>2. StartInv => NoOlderBlock
  BY DEF StartInv
<1>3. QED
  BY <1>1, <1>2, StartInvNext, PTL DEF Spec

(***************************************************************************)
(* One row per session, for runs one after the other.                      *)
(***************************************************************************)
OneRunner == \A r, q \in Runners : r = q

Distinct == \A i, j \in DOMAIN rows : rows[i].session = rows[j].session => i = j

RowInv == Distinct /\ SeenCoversFile

(* A row of a session the file does not have, written behind whatever the  *)
(* file ends in.                                                           *)
LEMMA AppendedDistinct ==
    ASSUME RunnerInv, Distinct, NEW new \in Row, new.session \notin SessionsIn(rows),
           rows' = Appended(new)
    PROVE  Distinct'
<1>1. \A i \in DOMAIN rows' :
         \/ i \in DOMAIN rows /\ rows'[i] = rows[i]
         \/ i = Len(rows) + 1 /\ rows'[i] = new
  BY AppendedFacts DEF RunnerInv, RunnerType
<1>2. \A i \in DOMAIN rows : rows[i].session # new.session
  BY DEF SessionsIn
<1>3. ASSUME NEW i \in DOMAIN rows', NEW j \in DOMAIN rows',
             rows'[i].session = rows'[j].session
      PROVE  i = j
  BY <1>1, <1>2, <1>3 DEF Distinct
<1>4. QED
  BY <1>3 DEF Distinct

LEMMA RowInvInit == Init => RowInv
<1> SUFFICES ASSUME Init PROVE RowInv
  OBVIOUS
<1>1. rows = <<>> /\ pc = [r \in Runners |-> "off"]
  BY DEF Init
<1>2. Distinct
  BY <1>1 DEF Distinct
<1>3. SeenCoversFile
  BY <1>1 DEF SeenCoversFile
<1>4. QED
  BY <1>2, <1>3 DEF RowInv

LEMMA RowInvSteps ==
    ASSUME OneRunner, RunnerInv, RowInv, NEW r \in Runners, RunnerStep(r)
    PROVE  RowInv'
<1> USE DEF RowInv
<1>1. \A q \in Runners : q = r
  BY DEF OneRunner
<1>2. CASE rows' = rows /\ ~AppendRow(r)
  <2>1. Distinct'
    BY <1>2 DEF Distinct
  <2>2. SessionsIn(rows') = SessionsIn(rows)
    BY <1>2 DEF SessionsIn
  <2>3. pc'[r] # "off" => SessionsIn(rows) \subseteq seen'[r]
    BY <1>2
    DEF RunnerStep, ReadSeen, LoadArms, ListTranscripts, PassOver, Scans, Measure, Finish, Stop,
        RunnerInv, RunnerType, SeenCoversFile
  <2>4. pc'[r] = "append" => row'[r].is.session \notin seen'[r]
    <3>1. CASE \E t \in Transcripts : Measure(r, t)
      BY <3>1 DEF Measure, Scans, RunnerInv, RunnerType
    <3>2. CASE ~\E t \in Transcripts : Measure(r, t)
      BY <1>2, <3>2
      DEF RunnerStep, ReadSeen, LoadArms, ListTranscripts, PassOver, Scans, Finish, Stop,
          RunnerInv, RunnerType, SeenCoversFile
    <3>3. QED
      BY <3>1, <3>2
  <2>5. QED
    BY <1>1, <2>1, <2>2, <2>3, <2>4 DEF SeenCoversFile
<1>3. CASE AppendRow(r)
  <2>1. pc[r] = "append" /\ rows' = Appended(row[r].is)
    BY <1>3 DEF AppendRow
  <2>2. row[r].is \in Row
    BY <2>1 DEF RunnerInv, RowReady
  <2>3. /\ row[r].is.session \notin seen[r]
        /\ SessionsIn(rows) \subseteq seen[r]
    BY <2>1 DEF SeenCoversFile
  <2>4. Distinct'
    BY <2>1, <2>2, <2>3, AppendedDistinct
  <2>5. SessionsIn(rows') \subseteq seen'[r]
    <3>1. SessionsIn(Appended(row[r].is)) \subseteq SessionsIn(rows) \cup {row[r].is.session}
      BY <2>2, AppendedFacts DEF RunnerInv, RunnerType
    <3>2. seen'[r] = seen[r] \cup {row[r].is.session}
      BY <1>3 DEF AppendRow, RunnerInv, RunnerType
    <3>3. SessionsIn(rows') = SessionsIn(Appended(row[r].is))
      BY <2>1
    <3>4. QED
      BY <2>3, <3>1, <3>2, <3>3
  <2>6. pc'[r] = "scan"
    BY <1>3 DEF AppendRow, RunnerInv, RunnerType
  <2>7. SessionsIn(rows)' \subseteq seen'[r]
    BY <2>5 DEF SessionsIn
  <2>8. QED
    BY <1>1, <2>4, <2>6, <2>7 DEF SeenCoversFile
<1>4. QED
  BY <1>2, <1>3
  DEF RunnerStep, ReadSeen, LoadArms, ListTranscripts, PassOver, Measure, Finish

LEMMA RowInvFaults ==
    ASSUME OneRunner, RunnerInv, RowInv, NEW r \in Runners, AppendBreaks(r) \/ Crash(r)
    PROVE  RowInv'
<1> USE DEF RowInv
<1>1. Stop(r)
  BY DEF AppendBreaks, Crash
<1>2. \A q \in Runners : pc'[q] = "off"
  BY <1>1 DEF OneRunner, Stop, RunnerInv, RunnerType
<1>3. SeenCoversFile'
  BY <1>2 DEF SeenCoversFile
<1>4. Distinct'
  <2>1. CASE rows' = rows
    BY <2>1 DEF Distinct
  <2>2. CASE rows' = Appended(row[r].is) /\ pc[r] = "append"
    <3>1. row[r].is \in Row /\ row[r].is.session \notin SessionsIn(rows)
      BY <2>2 DEF RunnerInv, RowReady, SeenCoversFile
    <3>2. QED
      BY <2>2, <3>1, AppendedDistinct
  <2>3. QED
    BY <2>1, <2>2 DEF AppendBreaks, Crash
<1>5. QED
  BY <1>3, <1>4

LEMMA RowInvNext ==
    ASSUME OneRunner
    PROVE  RowInv /\ RunnerInv /\ [Next]_vars => RowInv'
<1> SUFFICES ASSUME RowInv, RunnerInv, [Next]_vars PROVE RowInv'
  OBVIOUS
<1>1. CASE RunnersRest \/ UNCHANGED vars
  BY <1>1 DEF RunnersRest, vars, runnerVars, RowInv, Distinct, SeenCoversFile, SessionsIn
<1>2. QED
  BY <1>1, StepKinds, RowInvSteps, RowInvFaults

LEMMA DistinctRows ==
    ASSUME Distinct PROVE OneRowPerSession
<1>1. ASSUME NEW s \in Sessions PROVE Cardinality(RowsOf(s)) <= 1
  <2>1. CASE RowsOf(s) = {}
    BY <2>1, FS_EmptySet
  <2>2. ASSUME NEW i \in RowsOf(s) PROVE Cardinality(RowsOf(s)) <= 1
    <3>1. RowsOf(s) = {i}
      BY <2>2 DEF RowsOf, Distinct
    <3>2. Cardinality({i}) = 1
      BY FS_Singleton
    <3>3. QED
      BY <3>1, <3>2
  <2>3. QED
    BY <2>1, <2>2
<1>2. QED
  BY <1>1 DEF OneRowPerSession

(***************************************************************************)
(* One row per session, when runs follow each other: crashes, torn writes  *)
(* and the rows lost behind them make no second row.                       *)
(***************************************************************************)
THEOREM OneRowEach ==
    ASSUME OneRunner
    PROVE  Spec => []OneRowPerSession
<1>1. Init => StartInv /\ RunnerInv /\ RowInv
  BY StartInit, RunnerInit, RowInvInit DEF Init
<1>2. RowInv => OneRowPerSession
  BY DistinctRows DEF RowInv
<1>3. RowInv /\ RunnerInv /\ [Next]_vars => RowInv'
  BY RowInvNext
<1>4. QED
  BY <1>1, <1>2, <1>3, StartInvNext, RunnerInvNext, PTL DEF Spec

=============================================================================
