# A verification of the agent-memory evaluation harness

TLA+ models of the memory layer, the session-start injection, the cross-worktree
governance, the evaluation runner and the scripts that gather evidence, of this repository
(`src/code`), with TLC configurations and TLAPS proofs. Line numbers refer to the files under `src/code`.

Run a check with `tlc -config MCx_y.cfg MCx.tla`, a proof with `tlapm XProofs.tla`.

## 1. The system

The repository measures whether external memory helps coding agents. A CLI session
(Claude Code or Codex) starts; a hook runs a *retriever* that asks one of several
*memory backends* for memories, logs what it did, and injects a block into the session.
Transcripts are later normalised by *adapters* and measured by an *evaluation runner*,
which is to know from the injection log under which *arm* of the experiment a session ran.
A governance layer (GCMP) shares memories between git worktrees.

| Component | State it keeps | Operations | Talks to |
|---|---|---|---|
| `memory/base.py` health contract | one `BackendHealth` per backend object | `_record_error`, `_record_op`, `inspect` | every backend |
| `memory/mem0_backend.py` | a qdrant folder (open in one process at a time), health | `add`, `search`, `inspect`, `clear` | mem0, qdrant, the claude CLI |
| `memory/claude_cli_llm.py` | a spend meter per process | `generate_response`, with one retry | called by mem0 inside `add` |
| `memory/mem0_subprocess.py`, `_mem0_subprocess_worker.py` | the wrapper's health; a machine-wide flock | one worker process per call; a lock timeout, a call timeout, kill | the in-process backend, in the worker |
| `injection/` (`retriever.py`, `inject.sh`) | injection log, `./AGENTS.md.roomd-mem` | retrieve, log, print; stage | a backend; read by the CLI |
| `eval/runner.py`, `eval/metrics.py` | results JSONL | `run_eval` | transcripts, injection log |
| `governance/cross_worktree.py` (GCMP) | views of worktrees; marks on memory objects | fork, cross query, promotion scan | any backend |
| `memory/random_backend.py`, `null_backend.py` | a list of live objects; nothing | `add`, `search`, `clear` | tests, GCMP |
| `memory/letta_backend.py`, `hindsight_backend.py`, `cognee_backend.py` | a cached agent or bank id, health | `add`, `search`, `clear`, `close` | a server or an engine |
| `adapters/` | none | JSONL to turns; tool uses joined with their results | files |
| `scripts/` g8, d2, d5, d7 | persistent stores, reports, two lock files under the home directory | wipe, run, ingest, search, report, judge | the in-process backend; each other, through those files |
| `eval/stats.py` | none | paired tests and effect sizes over arms | called by the reports |
| `calibration/`, `reporting/`, `paper_build.py` | none | numerics, formatting | files |

### What is hard about it, and what makes each part correct

* **Subprocess backend.** Several processes run workers in parallel; a worker polls a flock,
  opens a folder qdrant locks for itself, runs one operation that may take a minute or hang,
  and can be killed at any point by its caller's timeout. Correct means: the flock excludes,
  no lock outlives its owner, a repeated add stores nothing twice, a call takes effect as one
  step and not after it was reported finished, and everybody gets an answer.
* **In-process mem0 backend.** mem0 swallows the failures of its extractor and only logs them;
  the backend listens to that logger. Correct means: "nothing to extract" and "the extraction
  failed" stay distinguishable, every one of a dozen returns counts its call, a backend that
  failed says so and stays inert, money is bounded.
* **Injection.** Two files are shared by sessions that start at the same time, and a retriever
  may die between its log record and its block. Correct means: nothing reaches a model without
  a log record, and a session does not get an older session's block.
* **Evaluation runner.** The results file is append-only, is read once per run, and can end in
  a torn line after a crash. Correct means: one row per session, and every session that can be
  measured is, whatever broke in between.
* **GCMP.** Searching is how memories are listed, searching changes their counters, and the
  random backend hands out its own objects, on which queries, forks and promotions leave marks.
  Correct means: the counters the promotion policy reads stay honest and the marks traceable.
* **Adapters.** Calls of tools overlap, a session may be read while it grows, lines may be
  unreadable and records may lack an id; a result is also written into an event of an earlier
  turn. Correct means: results find their own uses, nothing stays behind in the table of
  pending uses, and what is counted as a retry followed a failure.
* **Evidence scripts.** g8 removes stores and lock files whoever has them open, runs two scripts
  that may crash, hang or find a store that was not wiped, and copies whatever reports lie
  there. Correct means: a verdict is about this capture, what the unlinked lock costs is
  bounded, a check of a store can open it, and g8 comes to an end.
* **Pure algorithms.** An answer of the CLI is prose with JSON in it, with braces and quotes
  inside strings; arms are compared task by task with gaps. Correct means: the object is found
  whole, test and paired effect size are about the same pairs, and it is known when the third
  number reported beside them, Cliff's delta, is about the same tasks.
* **Letta, Hindsight, Cognee.** The look-up and the creation of a container are two requests;
  any request may fail after it was served, or be served after nobody waits for it. Correct
  means: the health contract on every path, and a bounded number of containers.

## 2. Modules

| Module | Models | Main correspondences |
|---|---|---|
| `BackendHealth` | `memory/base.py` | `Health` is `BackendHealth` without texts, latencies and time stamps; `RecordError`, `RecordOp` are the two helpers |
| `HealthContract` | the abstract specification of a backend's health record: what an evaluator may rely on of `base.py`'s contract, with no stores or servers | implemented by `Mem0Backend` and `RemoteBackends`, each under its own mapping (`Contract`); what it leaves out of `base.py` is below |
| `Mem0Ops` | the effect of each `Mem0Backend` return on the health record | one operator per return; used by the two modules below |
| `Mem0Backend` | `mem0_backend.py` with `claude_cli_llm.py`, in one process after another | `pc` follows `add`: `ask` (first run of the CLI), `retry` (second), `write` (mem0 stores and `add` looks at the ids it is told); `UserId` is the hash of a scope, in which scopes may meet |
| `Mem0Subprocess` | wrapper, worker, flock, folder, timeouts, processes that go behind the wrapper's back | `pc` follows the worker's `main`: `import`, `poll`, `init`, `op`, `commit`, `reply`, `exited`; `Collect` and `Kill` are the two ways `subprocess.run` ends; `overstayed` remembers a worker that took longer than its bound |
| `AtMostOnceStore` | the abstract specification: a store on which a call takes effect as one step, at most once, before it returns; a clear may leave any part | implemented by `Mem0Subprocess` under the mapping `Phase` |
| `Injection` | `retriever.py`, `inject.sh`, the start of a CLI run | `staged` is `AGENTS.md.roomd-mem`, `log` the injection log |
| `EvalPipeline` | `run_eval`; extends `Injection` (shares log and transcripts) | one action per phase of a run; `tail` says how the results file ends |
| `GCMP` | `cross_worktree.py` over `random_backend.py` | one action per method; a scan is atomic, as the code runs in one thread |
| `RemoteBackends` | construction, `add`, `search` of the three server backends and Letta's `clear` | `resolve` and `create` are the two requests of `_ensure_agent`; `late` are creations on their way to the server that nobody waits for any more; `kind` chooses the backend |
| `ToolCorrelation` | both adapters and `count_retries` | each action writes one record of a transcript and extends what a parse of the file so far returns: `turns`, `events` (all `tool_events` in order), `pending` (the dictionary of that name) |
| `EvidenceCapture` | g8, d2, d5, d7 and callers of the subprocess backend, over the files they share | `pc` follows the `main` of a run of d2 or d5, `g8` and `d7` theirs; `held` are locks on the files *at their paths*, `sees` what an open backend still has of a store folder that was removed |
| `JsonExtraction` | `_extract_first_json_object`, `_strip_code_fences` | `Read` is one turn of the scanning loop, `Scans` the loop: the reader's state after each character |
| `Statistics` | pairing, test and effect sizes of `eval/stats.py` | `Mask` is the mask of `pairwise_wilcoxon`, `PairedDifferences` that of `cohens_d` |
| `Computations` | the inputs of the two modules above | grows an input by one piece per step |
| `Mem0SubprocessProofs`, `Mem0BackendProofs`, `EvalPipelineProofs`, `GCMPProofs`, `RemoteBackendsProofs`, `ToolCorrelationProofs`, `EvidenceCaptureProofs`, `ComputationsProofs` | proofs about the module of that name (`EvalPipelineProofs`: `Injection` too; `ComputationsProofs`: `JsonExtraction` and `Statistics` too) | section 5 |
| `MC...` | instances for TLC | |

`HealthContract` is not all of `base.py:49-61`. An add of substantive text that returns nothing
must be *loud*: it counts an error and leaves the backend unhealthy, or it raises the soft
signal `n_zero_extract_on_substantive`. `base.py:56-58` asks for the error every time; the soft
signal is the exception that the in-process backend takes when mem0 logged no failure
(`mem0_backend.py:280`) and that `tests/test_honest_mem_invariants.py` allows. The server
backends have no soft signal (`soft` is mapped to 0) and so keep the rule as it is written.
Two rules are left out because the backends do not keep them: that an unknown count is never
reported as a number (`base.py:54-55`; `mem0_backend.py:401` reports 0), and that errors come with a
`last_error` (the tests' third invariant; a backend that never started counts refusals without
one, `mem0_backend.py:182`). The wrapper `Mem0Subprocess` does not implement the contract: that
is the violation `subprocess_uncounted`.

Operations that look atomic are atomic in the code as well: a single process between two
interactions with the outside (a lock, a file, a server, a subprocess).
An `add` of mem0 is split into reading the store and writing it (`AddExtracts`, `AddCommits`),
since nothing in mem0 makes the two one. The definitions marked *Mutant* are plausible bugs:
each replaces the definition it precedes in a copy of the module and must break the property
it is listed with in `PROJECT.json`.

## 3. Runs

| Run | Instance | What it shows |
|---|---|---|
| `subprocess_safety` | 2 callers, 2 scopes, 2 facts, 3 calls each of add, inspect and clear, all timeouts 0; symmetry, and a view without health records | exclusion, no duplicate fact, refinement of `AtMostOnceStore` with clears that stop half-way |
| `subprocess_operations` | 2 callers with 1 call each of add or search, 1 outsider, timeouts with room for them, fairness; operations may overstay or hang | locks end with their owner, no recorded error is forgotten, workers never conflict with each other, nobody times out before somebody has overstayed, every call returns |
| `backend_contract` | 2 processes of 2 calls, 3 scopes of which 2 share a `user_id`, 2 facts | the backend implements `HealthContract`; every call is counted; the spend bound; the trace of an empty-handed add |
| `eval_sessions` | 2 Codex transcripts of one session and 1 Claude Code session, runs told to measure 1 or 2, 1 arm, 2 faults, fairness | blocks are logged before they are shown and a session never gets an older one; one row per session, for good, for every session |
| `gcmp_sharing` | 3 worktrees, 3 views, 2 memories, 3 policies, 4 searches | promotions are earned, by hits that were searches, and marks on shared objects traceable, re-forks included |
| `remote_contract` | 2 clients, 3 processes of 2 calls, 2 scopes, 1 creation whose answer is lost, all three backends | each backend implements `HealthContract`; every call is counted; no add comes back empty without an error; the look-up race is bounded |
| `transcript_tools` | 3 calls of 2 tools, one of them without an id, both CLIs, 1 message, 1 unreadable line, 2 ticks | uses and results find each other; a counted retry followed a failure |
| `evidence_capture` | g8 with its two children, beside one of: a second d2, a second d5, d7, three callers; everybody but g8 may crash or hang, g8 may be killed; fairness | a pass is about this capture; the flock excludes until its file is removed and lets in one too many after that; g8 ends |
| `computations` | every object with a key and a value of up to 2 characters (letters, braces, colons, escapes), 1 symbol of prose before and after; every pair of samples of up to 4 tasks with gaps | the object is found whole; which pairs test and effect sizes speak of |
| `subprocess_uncounted`, `eval_arm_unknown`, `d5_wall_unread` | small instances; the last that of `evidence_capture` | violations: see section 6 |

**Why the bounds are enough.** The races of the subprocess backend need two processes that
share a scope, three calls per process (an add, one that is killed or clears, and a repetition)
and two scopes (the wrapper's own and an override); two facts let an add write, and a clear
take, a part. Timeouts of 0 let a worker be killed and a poll given up at *any* moment, so
`subprocess_safety` covers every choice of timeouts; there the clocks stand still. Its view
leaves out the health records, which are written and never read by a step: states that differ
in nothing else have the same steps, and none of the three properties reads a record. Its
symmetry is sound because callers (each with `Home` for its scope) and facts are
interchangeable and the properties are safety properties. `subprocess_operations` uses a tick
as unit and keeps the order lock timeout < call timeout that the code has (60 s, 90 s). Its
callers have one call each, as `NobodyTimesOut` asks; two of them make one wait for the other,
and `TimeoutsLeaveRoom` says it for any number.

For a health record two calls matter, the one that fails and one that comes after; three scopes
are one alone and two that meet in a `user_id`. In `eval_sessions` a run may measure one session
or two (`Caps`, `--max-sessions`), so that it is cut off with sessions left and starts over; a
torn line destroys at most the row behind it, and with two faults a row can be torn, the next
swallowed, and the repair interrupted. All its transcripts parse (`Corrupt` is empty), so that
two sessions are to be measured; that a transcript that does not parse is passed over is in the
model and covered by the proofs, which hold for any `Corrupt`. Promotion needs a memory
that becomes eligible by its second hit (`m1`) and one that never does (`m2`); three views are
a root, a fork, and a fork of that or a second fork of the same name. The race of two
look-ups needs two clients, and a third process is one that starts again where a creation was
lost; a scope then sees the agent of a dead process, of a live one, and a late one within
three agents. Answers are lost in one of the two scopes. Two calls with ids can overlap in
every way, in one record or in several, and a third without an id shows what the table does
with it; a window of one tick, in a transcript of two, has errors inside it, on its boundary
(`< 60.0`) and outside it. The two calls with ids are interchangeable, so `transcript_tools`
uses symmetry, as `remote_contract` does for its clients (both check safety only). For the
scripts, every hazard is between g8 and one other party (`Casts`), which keeps the instance
small; three callers are the least that could show a third in the section. Stores and reports
start in every state an earlier run leaves (the constants allow any set of parties, and the
proofs cover them all). A string of two characters is the shortest in which an escape, a quote
and a brace meet; four tasks put a gap in one arm, in the other, in both and in neither, with
two values to compare.

**Bounds that are not in the code** are constants and stand in guards: `MaxCalls`, `MaxOpens`,
`MaxFaults`, `MaxAdds`, `MaxSearches`, `MaxViews`, `MaxAgents`, `MaxStrays` (by scope), `MaxMessages`,
`MaxUnreadable`, `MaxTime`, `MaxUnits`, `MaxProse`, `MaxTasks`, `Values`, `Casts`. `Caps` are the values
of `--max-sessions`. `MaxImport` (start-up of a worker) and `MaxHold` (time under the flock) do
not bound the environment: a worker that outlasts one of them has `overstayed`. `MinPairs` is in the code (5) and 2 in the run, so that four
tasks reach both sides of it.
Deadlock is checked only in `eval_sessions` and `eval_arm_unknown`: everywhere else the
actors stop when they have made their calls, the scripts have ended or the input is complete.

## 4. Fairness

* `Mem0Subprocess!FairSpec`: time passes (`Tick`), `subprocess.run` returns when the worker has
  died and enforces its timeout (`Collect`, `Kill`), the polling loop runs (`Acquire`,
  `GiveUp`). Nothing is assumed of the operation itself: mem0, qdrant or the CLI may hang
  for ever, and so may an outsider that has the folder. The flock is given to any of those who poll, in no order.
  A worker may take any time, and `overstayed` records that one took longer than its bound; only
  `NobodyTimesOut` looks at it. `Tick` cannot pass a timeout that is due, a dead worker that has not been collected or a
  poll that would get the lock: the code reacts to each within a polling interval of 0.1 s, the smallest tick.
* `EvalPipeline!FairSpec`: a runner is started again and again and gets through its run. Nothing is
  assumed of sessions, which may never start or end. The repository starts the runner from a
  Makefile; "again and again" is what its resumption is written for (`runner.py:102`).

* `EvidenceCapture!Spec`: weak fairness of g8's own steps, among them its timeout of 600 s
  (`loop4_g8_d2_d5_fresh_capture.py:68`). Nothing is assumed of d2, d5, d7 or the callers: they may
  hang. `CaptureEnds` therefore holds because of the timeout alone, and for g8 only.

The contract `HealthContract` and the other specifications state no fairness and are used for safety only.

## 5. What is proved

Theorems hold for every value of the constants that satisfies the named assumption of the
module: any number of processes, scopes, sessions, worktrees and calls, any timeouts and
bounds. The assumptions say that distinct things are distinct (a `None` is no worktree,
tool, scope or Boolean; a gap is no number; a brace is no letter), that bounds are naturals, and, where a proof counts, that what is counted is
finite: `IsFiniteSet(Facts)`, `IsFiniteSet(Worktrees)`, `IsFiniteSet(Clients)`. TLC evaluates
them in every run. Two theorems have a hypothesis of their own: `OneRowEach` needs `OneRunner`, since without it the
property does not hold, and `TimeoutsLeaveRoom` needs finitely many callers, since the budget of the
timeouts is stated with their number.

Every invariant, action property and refinement that a passing run checks is a theorem; what is
left to TLC is liveness.

| Module | Theorem | Property | Strengthening, and why it is needed |
|---|---|---|---|
| `Mem0SubprocessProofs` | `TypeCorrect` | `TypeOK` | finiteness of the stores and of the ids a worker carries: a count of memories is a cardinality |
| | `LocksNeverLeak` | `LocksFollowLife` | inductive with the type invariant: every way out of the critical section (return, exit, kill) releases both locks |
| | `MutualExclusion` | `OneWorkerAtATime` | the flock has one owner, and by `LocksFollowLife` who is critical owns it |
| | `OnlyOutsidersConflict` | `NoMutualConflict` | who opens the folder owns the flock, so a folder that is taken is taken by an outsider |
| | `NoFactTwice` | `NoDuplicateFacts` | `ChosenIsNew`: between its read and its write, a worker's records are still new to the scope, because nobody else can be at `op` or `commit` |
| | `ErrorsNeverForgotten` | `ErrorsRemembered` | the health record changes only when a call returns |
| | `Implements` | `AtMostOnce` | `PhaseInv`: the `done` flag and the reply of a worker follow its `pc`; every action maps to `Start`, `Apply`, `Return` or a stutter |
| | `TimeoutsLeaveRoom` | `NobodyTimesOut` | `BudgetInv`, as long as nobody has overstayed: a caller that polls for the flock has waited no more ticks than the turns of the others have lasted, a turn that is over counting as `MaxHold`. Those ticks are counted as the cardinality of a set of pairs (caller, tick of its turn), which takes the place of a sum over the callers: a tick adds a pair for whoever holds the flock, and the set stays within (N - 1) x `MaxHold` |
| `Mem0BackendProofs` | `TypeCorrect`, `HealthIsAlwaysHonest`, `CallsCounted`, `SpendIsBounded` | `TypeOK`, `HealthIsHonest`, `EveryCallCounted`, `SpendBounded` | one invariant: the call in progress is not counted yet, and the answers given *plus those the phase of the add may still ask for* (two at `ask`, one at `retry`) are at most twice the calls; a lemma per return of `Mem0Ops` |
| | `NoSilentAdd` | `EmptyHandedLeavesTrace` | an action property, from the invariant and the four returns of a written add, about the ids that come back and not about what was stored |
| | `ImplementsContract` | `HonorsContract` | one lemma per return of `Mem0Ops`: each ends its call as the contract's `Return` does, counting it once, or twice when the answer could not be read and health is lost; an add that returns nothing is loud by `Signal` or by its error |
| `RemoteBackendsProofs` | `TypeCorrect`, `HealthIsAlwaysHonest`, `CallsCounted`, `NoSilentAdd` | `TypeOK`, `HealthIsHonest`, `EveryCallCounted`, `EmptyHandedIsCounted` | an invariant per client, so that a step of one leaves those of the others alone |
| | `ImplementsContract` | `HonorsContract` | per client; a call is counted once by whichever request ended it, or twice when `_record_op` was followed by an exception, which makes the backend unhealthy; a step of one client stutters for the others |
| | `AgentsAreBounded` | `AgentsBounded` | agents, pending creations and late ones of a scope are counted together: a step removes some, trades one for another, adds a late one together with a lost answer, or adds a creation when there is no agent, and then all of them are creations by different clients, or late, of which there are no more than answers lost |
| `EvalPipelineProofs` | `BlocksHaveRecords`, `BlocksAreNoOlder` | `BlocksLogged`, `NoOlderBlock` | `Backed`: the logged retrievals that did not die fit into the records one to one; a block that was printed is in `staged`, before whatever replaced it |
| | `TypeCorrect` | `TypeOK` | a runner about to append holds a row for a transcript it has |
| | `OneRowEach` | `OneRowPerSession` | `SeenCoversFile`: what the one runner believes to be in the file is no less than what is there, in spite of rows lost behind a torn line; without it the property is not inductive, and with two runners it is false |
| `GCMPProofs` | `PromotionsAreEarned` | `PromotionEarned` | more hits never make a memory less eligible; the types of the memory objects |
| | `MarksAreTraceable` | `InheritanceTraceable` | views stay as they were forked, forks alone write a mark, and every other step keeps it or takes it off |
| | `TypeCorrect` | `TypeOK` | what a query writes is the *name* of a worktree: sorting by score always returns somebody. That a finite set has a maximum is shown by well-foundedness of the strict subset, which needs no induction |
| `ToolCorrelationProofs` | `TypeCorrect`, `ResultsAreNamed`, `TheTableIsExact`, `UsesAreCompleted` | `TypeOK`, `ResultsNamed`, `PendingIsOpen`, `UseHoldsItsResult` | `PendingIsOpen` is the core: the table of pending uses holds exactly the open calls. It needs that a call has one use (`OneUse`) and that events exist only for calls that were made (`Lived`) |
| | `RetriesFollowFailures` | `RetryHasFailure` | `Blamed`: an event with an error belongs to a call of a Claude Code session that failed |
| `EvidenceCaptureProofs` | `TypeCorrect` | `TypeOK` | inductive as it stands |
| | `OverlapsAreBounded` | `OverlapBounded` | `OneHolder`: the file at the lock's path is locked by one caller at most; `Strays`: who is in the section without that lock got there before the unlink, which makes a stray of the one holder there was, and none before it |
| | `VerdictsAreFresh` | `VerdictIsFresh` | `Waiting`: where g8 is tells which children may have run, so what it saw was written since; `Told`: a child of g8 never loses its folder, since the wipes are over when it starts, and one that exits with 0 has left memories in it and a report written since |
| `ComputationsProofs` | `InputsTyped` | | what the steps build is a text without a brace before the object, or samples of integers and gaps |
| | `ObjectsExtracted` | `ExtractsTheObject` | the scanner's fold exists as a recursive function (`RecursionExists`); `Passes(t, x, y)` says that reading `t` takes the scanner from state `x` to `y` and meets no end of an object on the way, and it composes over concatenation, so that units, strings, values and objects pass in turn |
| | `StatisticsAgree` | `EffectSizesAgree` | the differences of the masked samples are those of the pairs without a gap; Cliff's delta is over the product of what each arm knows, which has the size of the mask's square exactly when both know the mask (`CliffDeltaOfPairs`), and exchanging the arms exchanges its cardinalities |

`PendingIsOpen` and `SeenCoversFile` are strengthenings, and no run checks them by themselves.

Induction over numbers is not available as a theorem with an operator for a parameter. The
proofs that need it state it of a *set* of numbers, which is a first-order statement
(`AllNumbers`: a set that holds 0, and the successor of what it holds, holds all naturals), and
apply it to the set of those numbers for which the claim is true. So what a fold computes can be proved for
texts of any length.

**Only model-checked**: `EveryCallReturns`, `EverySessionMeasured` and `CaptureEnds`, since
liveness under fairness is out of the prover's reach.

## 6. What the models show about the code

Violations found by a run:

* `subprocess_uncounted`: a worker whose backend starts up unhealthy answers `ok: False` with
  return code 0; the wrapper returns an empty result and records nothing
  (`mem0_subprocess.py:114`), although every operation is to "surface its own error" (`:82`). A
  worker whose add failed silently answers `ok: True`, and the wrapper takes over two fields of its
  health (`:142`): `healthy` stays true and `n_errors` 0, against `base.py:56-58`.
* `eval_arm_unknown`: the retriever logs no session id, so the runner's join by session id
  finds nothing and the arm is "unknown" (`retriever.py:124`, `runner.py:77`).
* `d5_wall_unread`: d5 confirms the wall between scopes "by reading under cli=claude_code"
  (`d5_cross_cli_bridging.py:221`) with a second backend on a folder its own reader holds locked,
  for the reason d5 itself gives at `:175`; refused, the backend counts 0 memories, walls or no walls.

Seen while reading, modelled as they are (or outside the model), and not the subject of a run:

* when the retriever prints nothing, Codex reads the block an earlier session left in the
  directory (`inject.sh:41`); `NoOlderBlock` is about sessions whose own retrieval printed;
* `count_retries` counts uses without an output (`metrics.py:134`), and the Claude Code adapter
  gives a use the output of its result (`claude_code_jsonl.py:266`): in a finished session a
  retry counts only if its own result is missing;
* the wrapper sets `n_memories` to 0 after a `clear` that failed (`mem0_subprocess.py:186`);
* an add that returns no id on substantive input, of which mem0 logged nothing, raises the soft
  signal and leaves the backend healthy (`mem0_backend.py:280`), where `base.py:56-58` asks for an
  error; a count that fails is reported as 0 (`:388-401`), where `base.py:54-55` asks to raise; a
  refused call counts an error and sets no `last_error` (`:182`), where the third invariant of
  `tests/test_honest_mem_invariants.py` asks for one. `HealthContract` leaves these three out;
* mem0 names a memory it has kept or changed in its answer, so an add that changes nothing may
  return ids (`mem0_backend.py:252-257`) and is then not empty-handed;
* two scopes whose hash is the same, or that differ only in keys the hash ignores, share memories
  and are cleared together (`mem0_backend.py:61-72`);
* an exception after `_record_op` counts a call twice, in the server backends too
  (`letta_backend.py:260`, `hindsight_backend.py:265`, `cognee_backend.py:141`);
* the spend meter misses the first answer of the CLI when the second run raises, and two
  unreadable answers in a row leave the backend healthy (`claude_cli_llm.py:279`);
* with two runners at once a session can get two rows (`runner.py:102`); a session in progress
  is measured once and its row never revised (`:130`);
* the promotion cooldown reads `last_promotion_attempt_utc`, which nothing writes
  (`cross_worktree.py:166`); a promotion scan is a search and can make a memory eligible by
  counting a hit; a cap of 0 lets one inherited memory through (`:112`); a fork marks memories and copies none;
* `source_worktree` is written into shared objects (`cross_worktree.py:320`) by every query of any worktree,
  so an object that is shared keeps the mark of an earlier query;
* the error of a failed call is also on the event of its use, so a use made in parallel with
  it can count as a retry of a failure nobody knew of yet (`metrics.py:130`); the inputs are
  not compared, although the docstring asks for a similar one; Codex events never carry an error
  (`codex_rollout_jsonl.py:300`), so a Codex session has no retries;
* Codex calls without a `call_id` share one entry of the table (`codex_rollout_jsonl.py:265`):
  a result is given to the last of them;
* Letta's agent of the first scope serves every later scope of the object
  (`letta_backend.py:122`), where the header says one agent per scope; two clients can each
  create one, and so can a creation that timed out and is served late; `clear` leaves `n_memories`, and in a process that has not used the agent yet it deletes nothing;
* Hindsight stores every scope override in the bank of the object's own scope
  (`hindsight_backend.py:63`); Cognee counts a repeated text twice and its `clear` prunes the
  data of every scope (`cognee_backend.py:169`), and an add whose second step fails still
  counts a memory (`:106`);
* d7 removes mem0's migrations folder "if no other instance is alive" (`d7_silent_failure_hunt.py:99`)
  and never looks; its header speaks of a subprocess per `--case <n>` (`:13`), and all cases run in
  one process; its cases 2 and 3 pass without a backend that opened;
* g8 copies a report as "fresh-captured" whatever the child returned
  (`loop4_g8_d2_d5_fresh_capture.py:117`): after a crash that is an old one, and only the return
  code keeps it out of the verdict; it unlinks lock files that may be held (`:104`), after which
  two workers can be under "the" flock, and no third (`OverlapBounded`);
* `_extract_first_json_object` starts at the first brace (`claude_cli_llm.py:368`): a brace in the
  prose before the object makes it give up;
* Cliff's delta drops the missing values of each arm on its own (`stats.py:168-177`), so it is
  reported beside a paired test and a paired effect size (`reporting/honest_mem.py:160-164`) and may
  be about other tasks; `EffectSizesAgree` says when it is not;
* `cohens_d` divides by a deviation that is 0 when all differences are equal (`stats.py:151`);
  the least kappa leaves out pairs that have none (`stats.py:258`), where the report asks for all
  pairs (`reporting/honest_mem.py`);
* `loop4_g1_hook_e2e.py:143` reads off what a hook logged as the growth of a shared log, and
  counts a session that runs meanwhile; `g2_pass` is True whenever there were data
  (`loop4_g2_pddc_real_data.py:315`);
* `update_memory_state` treats a clock set back as no time elapsed and stores the earlier time
  as the last review (`decay.py:339`).

## 7. What is not modelled, and why

* Decay calibration (`calibration/decay.py`): formulas over real numbers, which TLC does not
  have, without state shared with anybody. Ranking, scores and promotion *numbers* likewise;
  of the statistics, what scipy returns, the bootstrap and kappa.
* Reporting and `paper_build.py`: formatting.
* The metadata of a transcript (session id, worktree, branch), the texts, inputs and outputs
  in it, and messages that mix results of tools with other blocks; texts of blocks and errors.
  A transcript in `ToolCorrelation` has one use and at most one result per call, and calls of
  one tool count as similar.
* The metrics of a row other than the count of retries.
* `NullBackend`, which only counts its calls.
* The contents of the Letta, Hindsight and Cognee stores and `n_memories` there.
* The patching of mem0's provider registry by `claude_cli_llm.py`.
* Of an answer of the CLI, objects nested deeper than one empty object inside another; the
  scanner's proof is about strings and braces in them.
* d7's verdict: a case looks at one backend that nobody else opens, and which cases pass without
  one is a table in its `main` (section 6), whatever the locks do.
* In `EvidenceCapture`, what the scripts print and measure, the numbers in their reports, and a
  removal of a folder that fails half way: a folder goes whole or stays.
* The other scripts (g1, g2, g7, d6): drivers that run one part once, in sequence. The parallel
  calls of g7 are what `Mem0Subprocess` models.

## 8. Plan

All modules planned are written, and what is provable of what the runs check is proved. Worth adding:

1. The retriever, with the in-process backend it opens, as the outsider of `Mem0Subprocess`:
   what a session's start does to the calls of the wrappers.
2. The contents of the Letta agents in `RemoteBackends`, to state what a shared, deleted or
   twice-created agent means for what a search can find.
3. The other metrics that depend on the order of events (conflicts, re-explanations), next to
   `count_retries`; a transcript in which a resumed session repeats earlier records.
4. `Mem0Ops` inside `HealthContract`: that what the worker of `Mem0Subprocess` writes into its
   answer is the record of a backend that honours the contract, so that a wrapper that took it
   over whole could be shown to honour it too.
