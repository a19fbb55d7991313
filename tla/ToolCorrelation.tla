-------------------------- MODULE ToolCorrelation --------------------------
(***************************************************************************)
(* What the adapters (adapters/claude_code_jsonl.py,                       *)
(* adapters/codex_rollout_jsonl.py) make of a session whose transcript     *)
(* grows.  A call of a tool leaves a use in the transcript and, when the   *)
(* tool is done, a result; the adapters join the two by id.  They read the *)
(* file from its first line every time, so each action writes a record and *)
(* extends what a parse up to there yields: the turns, their tool events   *)
(* and the table of pending uses.  eval/metrics.py counts retries on that. *)
(*                                                                         *)
(* Texts, inputs and outputs are left out.  Calls of a tool are similar.   *)
(***************************************************************************)
EXTENDS Naturals, Sequences, FiniteSets, Functions

CONSTANTS
    Calls,      \* calls of tools in the session
    Tools,
    ToolOf,     \* the tool of each call
    Anonymous,  \* calls whose records carry no id
    Clis,       \* the CLIs that write transcripts
    Window,     \* how long after an error a use counts as a retry (60 s)
    None,
    MaxTime, MaxMessages, MaxUnreadable  \* bounds

ASSUME CallAssumption ==
    /\ ToolOf \in [Calls -> Tools]
    /\ Anonymous \subseteq Calls
    /\ Clis \subseteq {"claude_code", "codex"}
    /\ None \notin Calls \cup Tools \cup BOOLEAN
    /\ {Window, MaxTime, MaxMessages, MaxUnreadable} \subseteq Nat

VARIABLES
    cli,
    clock,      \* the timestamp of the last record
    outcome,    \* what became of each call
    unreadable, \* lines that are no JSON so far (bound)
    turns,      \* Session.turns: role and timestamp
    events,     \* the tool events of all turns, in order
    pending     \* id -> index of the use that waits for its result

vars == <<cli, clock, outcome, unreadable, turns, events, pending>>

Outcome == {"new", "running", "ok", "failed"}

Turn == [role: {"user", "assistant", "tool", "system"}, ts: Nat]

\* Which call an event is about is not in the event: the properties use it.
\* is_error is None until a result says otherwise.
ToolEvent == [call: Calls, id: Calls \cup {None}, kind: {"use", "result"},
              tool: Tools \cup {None}, output: BOOLEAN,
              is_error: BOOLEAN \cup {None}, turn: Nat]

TypeOK ==
    /\ cli \in Clis
    /\ clock \in Nat
    /\ outcome \in [Calls -> Outcome]
    /\ unreadable \in 0..MaxUnreadable
    /\ turns \in Seq(Turn)
    /\ events \in Seq(ToolEvent)
    /\ \A i \in DOMAIN events : events[i].turn \in DOMAIN turns
    /\ DOMAIN pending \subseteq Calls \cup {None}
    /\ \A id \in DOMAIN pending : pending[id] \in DOMAIN events

Init ==
    /\ cli \in Clis
    /\ clock = 1
    /\ outcome = [c \in Calls |-> "new"]
    /\ unreadable = 0
    /\ turns = <<>>
    /\ events = <<>>
    /\ pending = <<>>

-----------------------------------------------------------------------------
(* Records.                                                                *)

IdOf(c) == IF c \in Anonymous THEN None ELSE c

\* A Claude Code message can hold several blocks, a Codex record is one item.
Batches(S) ==
    {<<c>> : c \in S} \cup
    {<<p[1], p[2]>> : p \in {q \in S \X S : cli = "claude_code" /\ q[1] # q[2]}}

\* The next record is written at this time or a later one.
Written == clock' \in clock..MaxTime

NewTurn(role) == turns' = Append(turns, [role |-> role, ts |-> clock'])

CallsOf(b) == {b[i] : i \in DOMAIN b}

Become(b, new) ==
    outcome' = [c \in Calls |-> IF c \in CallsOf(b) THEN new[c] ELSE outcome[c]]

-----------------------------------------------------------------------------
(* Uses.                                                                   *)

\* Mutant: the turn of an event is set before the turn is there.
UseEventEarly(c) ==
    [call |-> c, id |-> IdOf(c), kind |-> "use", tool |-> ToolOf[c],
     output |-> FALSE, is_error |-> None, turn |-> Len(turns)]

UseEvent(c) ==
    [call |-> c, id |-> IdOf(c), kind |-> "use", tool |-> ToolOf[c],
     output |-> FALSE, is_error |-> None, turn |-> Len(turns) + 1]

\* A Claude Code use without an id is not waited for; for Codex the missing
\* id is an id like any other.
AwaitedIn(b) ==
    {IdOf(c) : c \in CallsOf(b)} \ (IF cli = "claude_code" THEN {None} ELSE {})

ReadUses(b) ==
    /\ NewTurn("assistant")
    /\ events' = events \o [i \in DOMAIN b |-> UseEvent(b[i])]
    /\ pending' = [id \in DOMAIN pending \cup AwaitedIn(b) |->
                     IF id \in AwaitedIn(b)
                     THEN Len(events) + (CHOOSE i \in DOMAIN b : IdOf(b[i]) = id)
                     ELSE pending[id]]

-----------------------------------------------------------------------------
(* Results.                                                                *)

\* Codex records do not say whether a call failed.
IsError(how) == cli = "claude_code" /\ how = "failed"

ResultEvent(c, how) ==
    [call |-> c, id |-> IdOf(c), kind |-> "result",
     tool |-> IF IdOf(c) \in DOMAIN pending THEN events[pending[IdOf(c)]].tool ELSE None,
     output |-> TRUE, is_error |-> IsError(how), turn |-> Len(turns) + 1]

\* Mutant: the use is not completed, as in the Codex adapter.
NotCompleted(b, how) == events

\* The Claude Code adapter writes a result into the event of its use.
Completed(b, how) ==
    [i \in DOMAIN events |->
        IF \E c \in CallsOf(b) : IdOf(c) \in DOMAIN pending /\ pending[IdOf(c)] = i
        THEN [events[i] EXCEPT !.output = TRUE,
                               !.is_error = IsError(how[events[i].call])]
        ELSE events[i]]

\* Mutant: the table of pending uses does not outlive the next record.
ReadResultsAndForget(b, how) ==
    /\ NewTurn("tool")
    /\ events' = (IF cli = "claude_code" THEN Completed(b, how) ELSE events)
                 \o [i \in DOMAIN b |-> ResultEvent(b[i], how[b[i]])]
    /\ pending' = <<>>

\* A result nobody waits for is kept as "<unmatched>".
ReadResults(b, how) ==
    /\ NewTurn("tool")
    /\ events' = (IF cli = "claude_code" THEN Completed(b, how) ELSE events)
                 \o [i \in DOMAIN b |-> ResultEvent(b[i], how[b[i]])]
    /\ pending' = Restrict(pending, DOMAIN pending \ {IdOf(c) : c \in CallsOf(b)})

-----------------------------------------------------------------------------
(* The transcript grows.  A line that is no JSON is skipped, and what it    *)
(* stood for has happened all the same.                                     *)

Unreadable ==
    /\ unreadable < MaxUnreadable
    /\ unreadable' = unreadable + 1
    /\ UNCHANGED <<turns, events, pending>>

CallTools(b) ==
    /\ Written
    /\ Become(b, [c \in CallsOf(b) |-> "running"])
    /\ \/ ReadUses(b) /\ UNCHANGED unreadable
       \/ Unreadable
    /\ UNCHANGED cli

ReturnResults(b, how) ==
    /\ Written
    /\ Become(b, how)
    /\ \/ ReadResults(b, how) /\ UNCHANGED unreadable
       \/ Unreadable
    /\ UNCHANGED cli

Messages == {i \in DOMAIN turns : \A j \in DOMAIN events : events[j].turn # i}

\* A message, reasoning, or a record only its CLI understands.
Message(role) ==
    /\ Cardinality(Messages) < MaxMessages
    /\ Written
    /\ NewTurn(role)
    /\ UNCHANGED <<cli, outcome, unreadable, events, pending>>

CallsThatAre(o) == {c \in Calls : outcome[c] = o}

Next ==
    \/ \E b \in Batches(CallsThatAre("new")) : CallTools(b)
    \/ \E b \in Batches(CallsThatAre("running")) :
          \E how \in [CallsOf(b) -> {"ok", "failed"}] : ReturnResults(b, how)
    \/ \E role \in {"user", "assistant", "system"} : Message(role)

Spec == Init /\ [][Next]_vars

-----------------------------------------------------------------------------
(* eval/metrics.py: count_retries                                          *)

Ts(i) == turns[events[i].turn].ts

\* The error of the tool that was seen last before event i.
LastError(i) ==
    LET errors == {j \in 1..(i - 1) : events[j].is_error = TRUE
                                      /\ events[j].tool = events[i].tool}
    IN  IF errors = {} THEN None ELSE CHOOSE j \in errors : \A k \in errors : k <= j

\* Mutant: any error makes the next use a retry, whatever its tool.
CountedOfAnyTool ==
    {i \in DOMAIN events :
        /\ events[i].is_error # TRUE
        /\ ~events[i].output
        /\ \E j \in 1..(i - 1) : events[j].is_error = TRUE /\ Ts(i) - Ts(j) < Window}

\* The events count_retries counts.
Counted ==
    {i \in DOMAIN events :
        /\ events[i].is_error # TRUE
        /\ ~events[i].output
        /\ LastError(i) # None /\ Ts(i) - Ts(LastError(i)) < Window}

-----------------------------------------------------------------------------
(* Properties.                                                             *)

EventsOf(c, kind) == {i \in DOMAIN events : events[i].call = c /\ events[i].kind = kind}

(***************************************************************************)
(* A result that carries an id is given the tool of its call, and is       *)
(* unmatched only if the line with the use could not be read, however uses *)
(* and results of several calls overlap.  A Claude Code result without an  *)
(* id is never given the tool of some other call.                          *)
(***************************************************************************)
ResultsNamed ==
    \A c \in Calls : \A i \in EventsOf(c, "result") :
        /\ c \notin Anonymous =>
              events[i].tool = (IF EventsOf(c, "use") = {} THEN None ELSE ToolOf[c])
        /\ c \in Anonymous /\ cli = "claude_code" => events[i].tool = None

(***************************************************************************)
(* The table holds a call exactly while its use was read and its result    *)
(* was not: nothing is forgotten between the two and nothing stays behind. *)
(***************************************************************************)
PendingIsOpen ==
    \A c \in Calls \ Anonymous :
        /\ c \in DOMAIN pending <=>
              EventsOf(c, "use") # {} /\ EventsOf(c, "result") = {}
        /\ c \in DOMAIN pending => pending[c] \in EventsOf(c, "use")

(***************************************************************************)
(* schema.py:45: a tool event is a complete pair of use and result.  In a  *)
(* Claude Code session the use of a call with an id holds a result as soon *)
(* as one was read for it, with the verdict of its own call.               *)
(***************************************************************************)
UseHoldsItsResult ==
    cli = "claude_code" =>
        \A c \in Calls \ Anonymous : \A i \in EventsOf(c, "use") :
            IF EventsOf(c, "result") = {}
            THEN ~events[i].output /\ events[i].is_error = None
            ELSE events[i].output /\ events[i].is_error = (outcome[c] = "failed")

(***************************************************************************)
(* A use is counted as a retry only after a use or result of the same tool *)
(* whose call failed.  That the failure was known when the use was made is *)
(* not said: the error is on the event of the earlier use.                 *)
(***************************************************************************)
RetryHasFailure ==
    \A i \in Counted : \E j \in 1..(i - 1) :
        /\ outcome[events[j].call] = "failed"
        /\ ToolOf[events[j].call] = events[i].tool
        /\ Ts(i) - Ts(j) < Window

=============================================================================
