----------------------------- MODULE Injection -----------------------------
(***************************************************************************)
(* The start of a CLI session under an arm of the experiment.              *)
(*                                                                         *)
(* Claude Code runs the skill's retriever (injection/claude_code_skill/    *)
(* retriever.py) and puts what it prints into the session's context.       *)
(* Codex is started after inject.sh, which runs the same retriever and     *)
(* stages what it prints in ./AGENTS.md.roomd-mem, where Codex reads it.   *)
(* Every retrieval is logged to ~/.roomd/mem_inject_log.jsonl, the only    *)
(* trace of the arm a session ran under.                                   *)
(*                                                                         *)
(* A transcript is one run of a CLI.  The Codex runs share a directory.    *)
(***************************************************************************)
EXTENDS Naturals, Sequences

CONSTANTS
    Transcripts,  \* runs of a CLI, one transcript file each
    Codex,        \* those that are started through inject.sh
    Sessions,     \* session ids
    SessionOf,    \* the session id found in a transcript
    Arms,         \* null, random, mem0, ...
    None

ASSUME InjectionAssumption ==
    /\ Codex \subseteq Transcripts
    /\ SessionOf \in [Transcripts -> Sessions]
    /\ None \notin Transcripts
    /\ None \notin Arms
    /\ None \notin Sessions

VARIABLES
    stage,    \* where each CLI run is
    arm,      \* $ROOMD_MEM_ARM of each run, None before it starts
    printed,  \* whether its retriever printed a block
    staged,   \* AGENTS.md.roomd-mem: the runs that wrote it, the last one wins
    context,  \* whose block the model sees, None for no block
    log       \* mem_inject_log.jsonl

injectionVars == <<stage, arm, printed, staged, context, log>>

\* A run that is over is still "live": its transcript stays what it is.
Stage == {"new", "logged", "retrieved", "live"}

\* FAILED stands for INIT-FAILED, UNHEALTHY and SEARCH-FAILED.
LogRecord == [session: Sessions \cup {None}, arm: Arms, status: {"OK", "FAILED"}]

InjectionTypeOK ==
    /\ stage \in [Transcripts -> Stage]
    /\ arm \in [Transcripts -> Arms \cup {None}]
    /\ printed \in [Transcripts -> BOOLEAN]
    /\ staged \in Seq(Transcripts)
    /\ context \in [Transcripts -> Transcripts \cup {None}]
    /\ log \in Seq(LogRecord)

InjectionInit ==
    /\ stage = [t \in Transcripts |-> "new"]
    /\ arm = [t \in Transcripts |-> None]
    /\ printed = [t \in Transcripts |-> FALSE]
    /\ staged = <<>>
    /\ context = [t \in Transcripts |-> None]
    /\ log = <<>>

-----------------------------------------------------------------------------

\* The scope the retriever logs has no session_id, and neither has the record.
Entry(a, status) == [session |-> None, arm |-> a, status |-> status]

\* The search came back, with hits or without; the block is printed only after
\* the record is written.
RetrieverLogs(t, a) ==
    /\ stage[t] = "new"
    /\ stage' = [stage EXCEPT ![t] = "logged"]
    /\ arm' = [arm EXCEPT ![t] = a]
    /\ log' = Append(log, Entry(a, "OK"))
    /\ UNCHANGED <<printed, staged, context>>

\* The backend cannot be built, is unhealthy, or raises: the retriever logs it,
\* prints nothing and exits with 0.
RetrieverBails(t, a) ==
    /\ stage[t] = "new"
    /\ stage' = [stage EXCEPT ![t] = "retrieved"]
    /\ arm' = [arm EXCEPT ![t] = a]
    /\ log' = Append(log, Entry(a, "FAILED"))
    /\ UNCHANGED <<printed, staged, context>>

\* It dies and has printed nothing: before the record (inspect and the log
\* itself are unguarded) or after it.  The session goes on without it.
RetrieverDies(t, a) ==
    /\ \/ stage[t] = "new" /\ arm' = [arm EXCEPT ![t] = a]
       \/ stage[t] = "logged" /\ arm[t] = a /\ arm' = arm
    /\ stage' = [stage EXCEPT ![t] = "retrieved"]
    /\ UNCHANGED <<printed, staged, context, log>>

\* Mutant: inject.sh under `set -o noclobber`.
RetrieverPrintsOnce(t) ==
    /\ stage[t] = "logged"
    /\ stage' = [stage EXCEPT ![t] = "retrieved"]
    /\ printed' = [printed EXCEPT ![t] = TRUE]
    /\ staged' = IF t \in Codex /\ staged = <<>> THEN <<t>> ELSE staged
    /\ UNCHANGED <<arm, context, log>>

\* Mutant: the block is printed before anything is logged.
RetrieverPrintsFirst(t) ==
    /\ stage[t] = "new"
    /\ stage' = [stage EXCEPT ![t] = "retrieved"]
    /\ arm' \in {[arm EXCEPT ![t] = a] : a \in Arms}
    /\ printed' = [printed EXCEPT ![t] = TRUE]
    /\ staged' = IF t \in Codex THEN Append(staged, t) ELSE staged
    /\ UNCHANGED <<context, log>>

\* The block, or the part of it that was flushed when the retriever died: a
\* block is whatever was printed of one.  It is never empty: with no hits it
\* says so.  inject.sh ignores the exit code, overwrites the staged file with
\* what was printed, and leaves it alone when nothing was.
RetrieverPrints(t) ==
    /\ stage[t] = "logged"
    /\ stage' = [stage EXCEPT ![t] = "retrieved"]
    /\ printed' = [printed EXCEPT ![t] = TRUE]
    /\ staged' = IF t \in Codex THEN Append(staged, t) ELSE staged
    /\ UNCHANGED <<arm, context, log>>

StagedBlock == IF staged = <<>> THEN None ELSE staged[Len(staged)]

Launch(t) ==
    /\ stage[t] = "retrieved"
    /\ stage' = [stage EXCEPT ![t] = "live"]
    /\ context' = [context EXCEPT
                     ![t] = IF t \in Codex THEN StagedBlock
                            ELSE IF printed[t] THEN t ELSE None]
    /\ UNCHANGED <<arm, printed, staged, log>>

InjectionStep(t) ==
    \/ \E a \in Arms : RetrieverLogs(t, a) \/ RetrieverBails(t, a) \/ RetrieverDies(t, a)
    \/ RetrieverPrints(t)
    \/ Launch(t)

InjectionNext == \E t \in Transcripts : InjectionStep(t)

InjectionSpec == InjectionInit /\ [][InjectionNext]_injectionVars

-----------------------------------------------------------------------------
(* Properties.                                                             *)

Arrived(t) == stage[t] = "live"

(***************************************************************************)
(* Provenance (SKILL.md): no block reaches a model without a record of a   *)
(* successful retrieval, whoever wrote the block: there are at least as    *)
(* many records for an arm as transcripts whose retriever printed under it.*)
(***************************************************************************)
BlocksLogged ==
    \A a \in Arms :
        LET printers == {t \in Transcripts : printed[t] /\ arm[t] = a}
            records  == {i \in DOMAIN log : log[i].arm = a /\ log[i].status = "OK"}
        IN  \E f \in [printers -> records] :
               \A t, u \in printers : f[t] = f[u] => t = u

(***************************************************************************)
(* A Codex session whose own retrieval printed a block sees that block or  *)
(* one staged after it, never an older one.                                *)
(***************************************************************************)
NoOlderBlock ==
    \A t \in Codex :
        Arrived(t) /\ printed[t] =>
            \E i, j \in DOMAIN staged :
                staged[i] = t /\ staged[j] = context[t] /\ i <= j

=============================================================================
