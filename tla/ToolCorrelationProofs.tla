----------------------- MODULE ToolCorrelationProofs -----------------------
(***************************************************************************)
(* Proofs about ToolCorrelation, for any calls, tools and identifiers, and *)
(* transcripts of any length.                                              *)
(***************************************************************************)
EXTENDS ToolCorrelation, SequenceTheorems, FiniteSetTheorems, WellFoundedInduction, TLAPS

(***************************************************************************)
(* What a record adds.                                                     *)
(***************************************************************************)

LEMMA BatchFacts ==
    ASSUME NEW S, NEW b \in Batches(S)
    PROVE  /\ b \in Seq(S) /\ Len(b) \in Nat /\ DOMAIN b = 1..Len(b)
           /\ CallsOf(b) \subseteq S
           /\ \A i, j \in DOMAIN b : b[i] = b[j] => i = j
<1>1. CASE \E c \in S : b = <<c>>
  <2>1. PICK c \in S : b = <<c>>
    BY <1>1
  <2>2. b \in Seq(S) /\ DOMAIN b = 1..1 /\ Len(b) = 1 /\ b[1] = c
    BY <2>1
  <2>3. QED
    BY <2>2 DEF CallsOf
<1>2. CASE \E p \in S \X S : b = <<p[1], p[2]>> /\ p[1] # p[2]
  <2>1. PICK c \in S, d \in S : b = <<c, d>> /\ c # d
    BY <1>2
  <2>2. b \in Seq(S) /\ DOMAIN b = 1..2 /\ Len(b) = 2 /\ b[1] = c /\ b[2] = d
    BY <2>1
  <2>3. QED
    BY <2>1, <2>2 DEF CallsOf
<1>3. QED
  BY <1>1, <1>2 DEF Batches

LEMMA IdFacts ==
    ASSUME NEW c \in Calls
    PROVE  /\ IdOf(c) \in Calls \cup {None}
           /\ c \in Anonymous => IdOf(c) = None
           /\ c \notin Anonymous => IdOf(c) = c
           /\ \A d \in Calls : d \notin Anonymous /\ IdOf(c) = d => c = d
  BY CallAssumption DEF IdOf

LEMMA TurnAdded ==
    ASSUME turns \in Seq(Turn), clock \in Nat, Written,
           NEW role \in {"user", "assistant", "tool", "system"}, NewTurn(role)
    PROVE  /\ clock' \in Nat
           /\ turns' \in Seq(Turn)
           /\ Len(turns) + 1 \in DOMAIN turns'
           /\ \A i \in DOMAIN turns : i \in DOMAIN turns' /\ turns'[i] = turns[i]
<1>1. clock' \in Nat
  BY CallAssumption DEF Written
<1>2. [role |-> role, ts |-> clock'] \in Turn
  BY <1>1 DEF Turn
<1> DEFINE new == [role |-> role, ts |-> clock']
<1>3. turns' = Append(turns, new)
  BY DEF NewTurn
<1> HIDE DEF new
<1>4. new \in Turn
  BY <1>2 DEF new
<1>5. QED
  BY <1>1, <1>3, <1>4

IsUse(e, c) ==
    /\ e \in ToolEvent
    /\ e.call = c /\ e.kind = "use" /\ e.tool = ToolOf[c]
    /\ e.output = FALSE /\ e.is_error = None /\ e.turn = Len(turns) + 1

LEMMA UseEventFacts ==
    ASSUME NEW c \in Calls, turns \in Seq(Turn)
    PROVE  IsUse(UseEvent(c), c)
<1> DEFINE e == UseEvent(c)
<1>1. IdOf(c) \in Calls \cup {None} /\ ToolOf[c] \in Tools /\ Len(turns) + 1 \in Nat
  BY IdFacts, CallAssumption
<1>2. PICK no \in BOOLEAN : no = FALSE
  OBVIOUS
<1>3. e = [call |-> c, id |-> IdOf(c), kind |-> "use", tool |-> ToolOf[c],
           output |-> no, is_error |-> None, turn |-> Len(turns) + 1]
  BY <1>2 DEF UseEvent
<1> HIDE DEF e
<1>4. e \in ToolEvent
  BY <1>1, <1>3 DEF ToolEvent
<1>5. IsUse(e, c)
  BY <1>2, <1>3, <1>4 DEF IsUse
<1>6. QED
  BY <1>5 DEF e

\* The tool the adapter finds for a result.
FoundTool(c) == IF IdOf(c) \in DOMAIN pending THEN events[pending[IdOf(c)]].tool ELSE None

IsResult(e, c, how) ==
    /\ e.call = c /\ e.kind = "result" /\ e.tool = FoundTool(c)
    /\ e.output = TRUE /\ e.is_error = IsError(how) /\ e.turn = Len(turns) + 1

LEMMA ResultEventFacts ==
    ASSUME TypeOK, NEW c \in Calls, NEW how \in {"ok", "failed"}
    PROVE  ResultEvent(c, how) \in ToolEvent /\ IsResult(ResultEvent(c, how), c, how)
<1> DEFINE e == ResultEvent(c, how)
<1>1. IdOf(c) \in Calls \cup {None} /\ Len(turns) + 1 \in Nat
  BY IdFacts DEF TypeOK
<1>2. FoundTool(c) \in Tools \cup {None}
  <2>1. CASE IdOf(c) \in DOMAIN pending
    <3>1. events[pending[IdOf(c)]] \in ToolEvent
      BY <2>1 DEF TypeOK
    <3>2. QED
      BY <2>1, <3>1 DEF FoundTool, ToolEvent
  <2>2. QED
    BY <2>1 DEF FoundTool
<1>3. PICK yes \in BOOLEAN : yes = TRUE
  OBVIOUS
<1>4. PICK err \in BOOLEAN : err = IsError(how)
  BY DEF IsError
<1>5. e = [call |-> c, id |-> IdOf(c), kind |-> "result", tool |-> FoundTool(c),
           output |-> yes, is_error |-> err, turn |-> Len(turns) + 1]
  BY <1>3, <1>4 DEF ResultEvent, FoundTool
<1> HIDE DEF e
<1>6. e \in ToolEvent
  BY <1>1, <1>2, <1>5 DEF ToolEvent
<1>7. IsResult(e, c, how)
  BY <1>3, <1>4, <1>5 DEF IsResult
<1>8. QED
  BY <1>6, <1>7 DEF e

\* The use events that get a result.
Answered(b) == {i \in DOMAIN events :
                  \E c \in CallsOf(b) : IdOf(c) \in DOMAIN pending /\ pending[IdOf(c)] = i}

IsCompletion(done, b, how) ==
    /\ done \in Seq(ToolEvent) /\ Len(done) = Len(events)
    /\ \A i \in DOMAIN events :
          /\ done[i].call = events[i].call /\ done[i].kind = events[i].kind
          /\ done[i].tool = events[i].tool /\ done[i].turn = events[i].turn
          /\ i \notin Answered(b) => done[i] = events[i]
          /\ i \in Answered(b) =>
                /\ done[i].output = TRUE
                /\ done[i].is_error = IsError(how[events[i].call])

LEMMA CompletedFacts ==
    ASSUME TypeOK, NEW b, NEW how
    PROVE  IsCompletion(Completed(b, how), b, how)
<1> DEFINE done == Completed(b, how)
<1>1. events \in Seq(ToolEvent) /\ Len(events) \in Nat /\ DOMAIN events = 1..Len(events)
  BY DEF TypeOK
<1>2. PICK yes \in BOOLEAN : yes = TRUE
  OBVIOUS
<1>3. DOMAIN done = 1..Len(events)
  BY <1>1 DEF Completed
<1>4. ASSUME NEW i \in DOMAIN events
      PROVE  /\ done[i] \in ToolEvent
             /\ done[i].call = events[i].call /\ done[i].kind = events[i].kind
             /\ done[i].tool = events[i].tool /\ done[i].turn = events[i].turn
             /\ i \notin Answered(b) => done[i] = events[i]
             /\ i \in Answered(b) =>
                   /\ done[i].output = TRUE
                   /\ done[i].is_error = IsError(how[events[i].call])
  <2>1. events[i] \in ToolEvent
    BY <1>1
  <2>2. CASE i \notin Answered(b)
    BY <2>1, <2>2 DEF Completed, Answered
  <2>3. CASE i \in Answered(b)
    <3>1. PICK err \in BOOLEAN : err = IsError(how[events[i].call])
      BY DEF IsError
    <3>2. done[i] = [events[i] EXCEPT !.output = yes, !.is_error = err]
      BY <1>2, <2>3, <3>1 DEF Completed, Answered
    <3>3. QED
      BY <1>2, <2>1, <2>3, <3>1, <3>2 DEF ToolEvent
  <2>4. QED
    BY <2>2, <2>3
<1>5. done \in [1..Len(events) -> ToolEvent]
  <2>1. done = [i \in 1..Len(events) |-> done[i]]
    BY <1>1 DEF Completed
  <2>2. QED
    BY <1>1, <1>4, <2>1
<1>6. done \in Seq(ToolEvent) /\ Len(done) = Len(events)
  <2> HIDE DEF done
  <2>1. QED
    BY <1>1, <1>3, <1>5
<1>7. QED
  <2> HIDE DEF done
  <2>1. IsCompletion(done, b, how)
    BY <1>4, <1>6 DEF IsCompletion
  <2>2. QED
    BY <2>1 DEF done

\* Sequence t is s with the n elements of f behind it.
Extends(s, n, f, t) ==
    /\ t \in Seq(ToolEvent)
    /\ \A i \in DOMAIN s : i \in DOMAIN t /\ t[i] = s[i]
    /\ \A k \in 1..n : Len(s) + k \in DOMAIN t /\ t[Len(s) + k] = f[k]
    /\ \A i \in DOMAIN t : i \in DOMAIN s \/ \E k \in 1..n : i = Len(s) + k

LEMMA Lengthened ==
    ASSUME NEW s \in Seq(ToolEvent), NEW n \in Nat, NEW f \in [1..n -> ToolEvent],
           NEW t \in Seq(ToolEvent), Len(t) = Len(s) + n,
           \A i \in 1..Len(s) + n : t[i] = IF i <= Len(s) THEN s[i] ELSE f[i - Len(s)]
    PROVE  Extends(s, n, f, t)
<1>1. Len(s) \in Nat /\ DOMAIN s = 1..Len(s) /\ DOMAIN t = 1..(Len(s) + n)
  OBVIOUS
<1>2. \A i \in DOMAIN s : i \in DOMAIN t /\ t[i] = s[i]
  BY <1>1
<1>3. \A k \in 1..n : Len(s) + k \in DOMAIN t /\ t[Len(s) + k] = f[k]
  <2>1. ASSUME NEW k \in 1..n
        PROVE  Len(s) + k \in 1..Len(s) + n /\ ~(Len(s) + k <= Len(s)) /\ (Len(s) + k) - Len(s) = k
    BY <1>1
  <2>2. QED
    BY <1>1, <2>1
<1>4. ASSUME NEW i \in DOMAIN t, i \notin DOMAIN s PROVE \E k \in 1..n : i = Len(s) + k
  <2>1. i - Len(s) \in 1..n /\ i = Len(s) + (i - Len(s))
    BY <1>1, <1>4
  <2>2. QED
    BY <2>1
<1>5. QED
  BY <1>2, <1>3, <1>4 DEF Extends

LEMMA Extended ==
    ASSUME NEW s \in Seq(ToolEvent), NEW n \in Nat, NEW f \in [1..n -> ToolEvent],
           NEW t, t = s \o f
    PROVE  Extends(s, n, f, t)
<1>1. f \in Seq(ToolEvent) /\ Len(f) = n
  OBVIOUS
<1>2. /\ t \in Seq(ToolEvent) /\ Len(t) = Len(s) + n
      /\ \A i \in 1..Len(s) + n : t[i] = IF i <= Len(s) THEN s[i] ELSE f[i - Len(s)]
  BY <1>1, ConcatProperties
<1>3. QED
  BY <1>2, Lengthened

\* The events of the record, behind those there were.
Behind(b) ==
    /\ \A k \in DOMAIN b : Len(events) + k \in DOMAIN events' /\ Len(events) + k \notin DOMAIN events
    /\ \A i \in DOMAIN events : i \in DOMAIN events'
    /\ \A i \in DOMAIN events' : i \in DOMAIN events \/ \E k \in DOMAIN b : i = Len(events) + k

LEMMA UsesWritten ==
    ASSUME TypeOK, NEW S \in SUBSET Calls, NEW b \in Batches(S), ReadUses(b)
    PROVE  /\ events' \in Seq(ToolEvent)
           /\ Behind(b)
           /\ \A i \in DOMAIN events : events'[i] = events[i]
           /\ \A k \in DOMAIN b : events'[Len(events) + k] = UseEvent(b[k])
<1> DEFINE f == [k \in DOMAIN b |-> UseEvent(b[k])]
<1>1. events \in Seq(ToolEvent) /\ DOMAIN events = 1..Len(events) /\ Len(events) \in Nat
  BY DEF TypeOK
<1>2. b \in Seq(S) /\ Len(b) \in Nat /\ DOMAIN b = 1..Len(b)
  BY BatchFacts
<1>3. ASSUME NEW k \in DOMAIN b PROVE UseEvent(b[k]) \in ToolEvent
  <2>1. b[k] \in Calls /\ turns \in Seq(Turn)
    BY <1>2 DEF TypeOK
  <2>2. QED
    BY <2>1, UseEventFacts DEF IsUse
<1>4. f \in [1..Len(b) -> ToolEvent]
  BY <1>2, <1>3
<1>5. events' = events \o f
  BY DEF ReadUses
<1>6. \A k \in DOMAIN b : f[k] = UseEvent(b[k])
  OBVIOUS
<1> HIDE DEF f
<1>7. Extends(events, Len(b), f, events')
  BY <1>1, <1>2, <1>4, <1>5, Extended
<1>8. \A k \in 1..Len(b) : Len(events) + k \notin 1..Len(events)
  BY <1>1, <1>2
<1>9. QED
  BY <1>1, <1>2, <1>6, <1>7, <1>8 DEF Behind, Extends

LEMMA ResultsWritten ==
    ASSUME TypeOK, NEW S \in SUBSET Calls, NEW b \in Batches(S),
           NEW how \in [CallsOf(b) -> {"ok", "failed"}], ReadResults(b, how)
    PROVE  /\ events' \in Seq(ToolEvent)
           /\ Behind(b)
           /\ \A i \in DOMAIN events :
                 events'[i] = IF cli = "claude_code" THEN Completed(b, how)[i] ELSE events[i]
           /\ \A k \in DOMAIN b : events'[Len(events) + k] = ResultEvent(b[k], how[b[k]])
<1> DEFINE f == [k \in DOMAIN b |-> ResultEvent(b[k], how[b[k]])]
<1> DEFINE base == IF cli = "claude_code" THEN Completed(b, how) ELSE events
<1>1. events \in Seq(ToolEvent) /\ DOMAIN events = 1..Len(events) /\ Len(events) \in Nat
  BY DEF TypeOK
<1>2. base \in Seq(ToolEvent) /\ DOMAIN base = 1..Len(events) /\ Len(base) = Len(events)
  <2>1. base \in Seq(ToolEvent) /\ Len(base) = Len(events)
    <3>1. Completed(b, how) \in Seq(ToolEvent) /\ Len(Completed(b, how)) = Len(events)
      BY CompletedFacts DEF IsCompletion
    <3>2. QED
      BY <1>1, <3>1
  <2> HIDE DEF base
  <2>2. QED
    BY <1>1, <2>1
<1>3. b \in Seq(S) /\ Len(b) \in Nat /\ DOMAIN b = 1..Len(b)
  BY BatchFacts
<1>4. ASSUME NEW k \in DOMAIN b PROVE ResultEvent(b[k], how[b[k]]) \in ToolEvent
  <2>1. b[k] \in Calls /\ how[b[k]] \in {"ok", "failed"}
    BY <1>3 DEF CallsOf
  <2>2. QED
    BY <2>1, ResultEventFacts
<1>5. f \in [1..Len(b) -> ToolEvent]
  BY <1>3, <1>4
<1>6. events' = base \o f
  BY DEF ReadResults
<1>7. \A k \in DOMAIN b : f[k] = ResultEvent(b[k], how[b[k]])
  OBVIOUS
<1>8. \A i \in DOMAIN events : base[i] = IF cli = "claude_code" THEN Completed(b, how)[i] ELSE events[i]
  OBVIOUS
<1> HIDE DEF f, base
<1>9. Extends(base, Len(b), f, events')
  BY <1>2, <1>3, <1>5, <1>6, Extended
<1>10. \A k \in 1..Len(b) : Len(events) + k \notin 1..Len(events)
  BY <1>1, <1>3
<1>11. QED
  BY <1>1, <1>2, <1>3, <1>7, <1>8, <1>9, <1>10 DEF Behind, Extends

(***************************************************************************)
(* The invariant.                                                          *)
(***************************************************************************)

\* A call has no events before it is made, and no result before it ended.
Lived ==
    \A c \in Calls :
        /\ outcome[c] = "new" => EventsOf(c, "use") = {}
        /\ outcome[c] \in {"new", "running"} => EventsOf(c, "result") = {}

OneUse == \A c \in Calls : \A i, j \in EventsOf(c, "use") : i = j

Tooled ==
    \A i \in DOMAIN events :
        /\ events[i].kind = "use" => events[i].tool = ToolOf[events[i].call]
        /\ events[i].kind = "result" => events[i].output = TRUE

Blamed ==
    \A i \in DOMAIN events : events[i].is_error = TRUE =>
        cli = "claude_code" /\ outcome[events[i].call] = "failed"

\* Claude Code uses without an id are not waited for.
IdsAwaited == cli = "claude_code" => None \notin DOMAIN pending

CallInv ==
    /\ TypeOK
    /\ Lived
    /\ OneUse
    /\ Tooled
    /\ Blamed
    /\ IdsAwaited
    /\ PendingIsOpen
    /\ ResultsNamed
    /\ UseHoldsItsResult

LEMMA EventTyped ==
    ASSUME TypeOK, NEW i \in DOMAIN events
    PROVE  /\ events[i].call \in Calls /\ events[i].kind \in {"use", "result"}
           /\ i \in EventsOf(events[i].call, events[i].kind)
<1>1. events[i] \in ToolEvent
  BY DEF TypeOK
<1>2. QED
  BY <1>1 DEF ToolEvent, EventsOf

(***************************************************************************)
(* A record with uses.                                                     *)
(***************************************************************************)
LEMMA UsesSets ==
    ASSUME TypeOK, Lived, NEW b \in Batches(CallsThatAre("new")), ReadUses(b)
    PROVE  /\ \A c \in Calls : EventsOf(c, "result")' = EventsOf(c, "result")
           /\ \A c \in Calls \ CallsOf(b) : EventsOf(c, "use")' = EventsOf(c, "use")
           /\ \A k \in DOMAIN b : /\ EventsOf(b[k], "use") = {}
                                  /\ EventsOf(b[k], "result") = {}
                                  /\ EventsOf(b[k], "use")' = {Len(events) + k}
<1>1. CallsThatAre("new") \in SUBSET Calls
  BY DEF CallsThatAre
<1>2. /\ Behind(b)
      /\ \A i \in DOMAIN events : events'[i] = events[i]
      /\ \A k \in DOMAIN b : events'[Len(events) + k] = UseEvent(b[k])
  BY <1>1, UsesWritten
<1>3. /\ \A k \in DOMAIN b : b[k] \in CallsOf(b) /\ b[k] \in Calls /\ outcome[b[k]] = "new"
      /\ \A k, l \in DOMAIN b : b[k] = b[l] => k = l
  BY BatchFacts DEF CallsOf, CallsThatAre
<1>4. \A k \in DOMAIN b : events'[Len(events) + k].call = b[k] /\ events'[Len(events) + k].kind = "use"
  <2>1. \A k \in DOMAIN b : IsUse(UseEvent(b[k]), b[k])
    BY <1>3, UseEventFacts DEF TypeOK
  <2>2. QED
    BY <1>2, <2>1 DEF IsUse
<1>5. ASSUME NEW c \in Calls PROVE EventsOf(c, "result")' = EventsOf(c, "result")
  BY <1>2, <1>4 DEF EventsOf, Behind
<1>6. ASSUME NEW c \in Calls \ CallsOf(b) PROVE EventsOf(c, "use")' = EventsOf(c, "use")
  BY <1>2, <1>3, <1>4 DEF EventsOf, Behind
<1>7. ASSUME NEW k \in DOMAIN b
      PROVE  /\ EventsOf(b[k], "use") = {}
             /\ EventsOf(b[k], "result") = {}
             /\ EventsOf(b[k], "use")' = {Len(events) + k}
  <2>1. EventsOf(b[k], "use") = {} /\ EventsOf(b[k], "result") = {}
    BY <1>3 DEF Lived
  <2>2. \A i \in DOMAIN events' :
           events'[i].call = b[k] /\ events'[i].kind = "use" <=> i = Len(events) + k
    BY <1>2, <1>3, <1>4, <2>1 DEF EventsOf, Behind
  <2>3. Len(events) + k \in DOMAIN events'
    BY <1>2 DEF Behind
  <2>4. QED
    BY <2>1, <2>2, <2>3 DEF EventsOf
<1>8. QED
  BY <1>5, <1>6, <1>7

LEMMA UsesPending ==
    ASSUME TypeOK, NEW b \in Batches(CallsThatAre("new")), ReadUses(b)
    PROVE  /\ DOMAIN pending' = DOMAIN pending \cup AwaitedIn(b)
           /\ \A id \in DOMAIN pending \ AwaitedIn(b) : pending'[id] = pending[id]
           /\ \A id \in AwaitedIn(b) : \E k \in DOMAIN b :
                 IdOf(b[k]) = id /\ pending'[id] = Len(events) + k
           /\ \A c \in Calls \ Anonymous : c \in AwaitedIn(b) <=> c \in CallsOf(b)
           /\ AwaitedIn(b) \subseteq Calls \cup {None}
<1>1. pending' = [id \in DOMAIN pending \cup AwaitedIn(b) |->
                     IF id \in AwaitedIn(b)
                     THEN Len(events) + (CHOOSE i \in DOMAIN b : IdOf(b[i]) = id)
                     ELSE pending[id]]
  BY DEF ReadUses
<1>2. ASSUME NEW id \in AwaitedIn(b)
      PROVE  \E k \in DOMAIN b : IdOf(b[k]) = id /\ pending'[id] = Len(events) + k
  <2>1. \E k \in DOMAIN b : IdOf(b[k]) = id
    BY <1>2 DEF AwaitedIn, CallsOf
  <2> DEFINE k == CHOOSE i \in DOMAIN b : IdOf(b[i]) = id
  <2>2. k \in DOMAIN b /\ IdOf(b[k]) = id
    BY <2>1
  <2>3. pending'[id] = Len(events) + k
    BY <1>1, <1>2
  <2> HIDE DEF k
  <2>4. QED
    BY <2>2, <2>3
<1>3. CallsOf(b) \subseteq Calls
  BY BatchFacts DEF CallsThatAre
<1>4. ASSUME NEW c \in Calls \ Anonymous PROVE c \in AwaitedIn(b) <=> c \in CallsOf(b)
  <2>1. c # None /\ IdOf(c) = c
    BY CallAssumption, IdFacts
  <2>2. \A d \in CallsOf(b) : IdOf(d) = c => d = c
    BY <1>3, IdFacts
  <2>3. QED
    BY <2>1, <2>2 DEF AwaitedIn
<1>5. AwaitedIn(b) \subseteq Calls \cup {None}
  BY <1>3, IdFacts DEF AwaitedIn
<1>6. QED
  BY <1>1, <1>2, <1>4, <1>5

LEMMA UsesKeep ==
    ASSUME CallInv, NEW b \in Batches(CallsThatAre("new")), CallTools(b), ReadUses(b)
    PROVE  CallInv'
<1> USE DEF CallInv
<1> DEFINE n == Len(events)
<1>1. /\ events' \in Seq(ToolEvent)
      /\ Behind(b)
      /\ \A i \in DOMAIN events : events'[i] = events[i]
      /\ \A k \in DOMAIN b : events'[n + k] = UseEvent(b[k])
  BY UsesWritten DEF CallsThatAre
<1>2. /\ \A c \in Calls : EventsOf(c, "result")' = EventsOf(c, "result")
      /\ \A c \in Calls \ CallsOf(b) : EventsOf(c, "use")' = EventsOf(c, "use")
      /\ \A k \in DOMAIN b : /\ EventsOf(b[k], "use") = {}
                             /\ EventsOf(b[k], "result") = {}
                             /\ EventsOf(b[k], "use")' = {n + k}
  BY UsesSets
<1>3. /\ DOMAIN pending' = DOMAIN pending \cup AwaitedIn(b)
      /\ \A id \in DOMAIN pending \ AwaitedIn(b) : pending'[id] = pending[id]
      /\ \A id \in AwaitedIn(b) : \E k \in DOMAIN b :
            IdOf(b[k]) = id /\ pending'[id] = n + k
      /\ \A c \in Calls \ Anonymous : c \in AwaitedIn(b) <=> c \in CallsOf(b)
      /\ AwaitedIn(b) \subseteq Calls \cup {None}
  BY UsesPending
<1>4. /\ \A k \in DOMAIN b : b[k] \in CallsOf(b)
      /\ \A c \in CallsOf(b) : \E k \in DOMAIN b : c = b[k]
      /\ CallsOf(b) \subseteq Calls
      /\ \A c \in CallsOf(b) : outcome[c] = "new"
  BY BatchFacts DEF CallsOf, CallsThatAre
<1>5. /\ cli' = cli /\ unreadable' \in 0..MaxUnreadable
      /\ Written /\ NewTurn("assistant")
      /\ outcome' = [c \in Calls |-> IF c \in CallsOf(b) THEN "running" ELSE outcome[c]]
  BY CallAssumption DEF CallTools, ReadUses, Become, Unreadable, TypeOK
<1>6. /\ clock' \in Nat /\ turns' \in Seq(Turn) /\ Len(turns) + 1 \in DOMAIN turns'
      /\ \A i \in DOMAIN turns : i \in DOMAIN turns'
  BY <1>5, TurnAdded DEF TypeOK
<1>7. ASSUME NEW k \in DOMAIN b
      PROVE  /\ events'[n + k].call = b[k] /\ events'[n + k].kind = "use"
             /\ events'[n + k].tool = ToolOf[b[k]]
             /\ events'[n + k].output = FALSE /\ events'[n + k].is_error = None
             /\ events'[n + k].turn = Len(turns) + 1
  <2>1. IsUse(UseEvent(b[k]), b[k])
    BY <1>4, UseEventFacts DEF TypeOK
  <2>2. QED
    BY <1>1, <2>1 DEF IsUse
<1> HIDE DEF n
<1>8. TypeOK'
  <2>1. \A i \in DOMAIN events' : events'[i].turn \in DOMAIN turns'
    <3>1. ASSUME NEW i \in DOMAIN events PROVE events'[i].turn \in DOMAIN turns'
      BY <1>1, <1>6 DEF TypeOK
    <3>2. ASSUME NEW k \in DOMAIN b PROVE events'[n + k].turn \in DOMAIN turns'
      BY <1>6, <1>7
    <3>3. QED
      BY <1>1, <3>1, <3>2 DEF Behind, n
  <2>2. DOMAIN pending' \subseteq Calls \cup {None}
    BY <1>3 DEF TypeOK
  <2>3. \A id \in DOMAIN pending' : pending'[id] \in DOMAIN events'
    BY <1>1, <1>3 DEF Behind, TypeOK, n
  <2>4. outcome' \in [Calls -> Outcome]
    BY <1>5 DEF TypeOK, Outcome
  <2>5. QED
    BY <1>1, <1>5, <1>6, <2>1, <2>2, <2>3, <2>4 DEF TypeOK
<1>9. Lived'
  BY <1>2, <1>4, <1>5 DEF Lived
<1>10. OneUse'
  BY <1>2, <1>4 DEF OneUse
<1>11. Tooled'
  <2>1. ASSUME NEW i \in DOMAIN events
        PROVE  /\ events'[i].kind = "use" => events'[i].tool = ToolOf[events'[i].call]
               /\ events'[i].kind = "result" => events'[i].output = TRUE
    BY <1>1 DEF Tooled
  <2>2. ASSUME NEW k \in DOMAIN b
        PROVE  /\ events'[n + k].kind = "use" => events'[n + k].tool = ToolOf[events'[n + k].call]
               /\ events'[n + k].kind = "result" => events'[n + k].output = TRUE
    BY <1>7
  <2>3. ASSUME NEW i \in DOMAIN events'
        PROVE  /\ events'[i].kind = "use" => events'[i].tool = ToolOf[events'[i].call]
               /\ events'[i].kind = "result" => events'[i].output = TRUE
    <3>1. CASE i \in DOMAIN events
      BY <2>1, <3>1
    <3>2. CASE \E k \in DOMAIN b : i = n + k
      BY <2>2, <3>2
    <3>3. QED
      BY <1>1, <3>1, <3>2 DEF Behind, n
  <2>4. QED
    BY <2>3 DEF Tooled
<1>12. Blamed'
  <2>1. ASSUME NEW i \in DOMAIN events', events'[i].is_error = TRUE
        PROVE  cli' = "claude_code" /\ outcome'[events'[i].call] = "failed"
    <3>1. CASE i \in DOMAIN events
      <4>1. cli = "claude_code" /\ outcome[events[i].call] = "failed"
        BY <1>1, <2>1, <3>1 DEF Blamed
      <4>2. events[i].call \in Calls /\ events[i].call \notin CallsOf(b)
        BY <1>4, <3>1, <4>1, EventTyped
      <4>3. QED
        BY <1>1, <1>5, <3>1, <4>1, <4>2
    <3>2. CASE \E k \in DOMAIN b : i = n + k
      <4>1. events'[i].is_error = None
        BY <1>7, <3>2
      <4>2. None # TRUE
        BY CallAssumption
      <4>3. QED
        BY <2>1, <4>1, <4>2
    <3>3. QED
      BY <1>1, <3>1, <3>2 DEF Behind, n
  <2>2. QED
    BY <2>1 DEF Blamed
<1>13. IdsAwaited'
  BY <1>3, <1>5 DEF IdsAwaited, AwaitedIn
<1>14. PendingIsOpen'
  <2>1. ASSUME NEW c \in Calls \ Anonymous
        PROVE  /\ c \in DOMAIN pending' <=>
                     EventsOf(c, "use")' # {} /\ EventsOf(c, "result")' = {}
               /\ c \in DOMAIN pending' => pending'[c] \in EventsOf(c, "use")'
    <3>1. CASE c \in CallsOf(b)
      <4>1. c \in AwaitedIn(b)
        BY <1>3, <3>1
      <4>2. PICK k \in DOMAIN b : IdOf(b[k]) = c /\ pending'[c] = n + k
        BY <1>3, <4>1
      <4>3. b[k] = c
        BY <1>4, <4>2, IdFacts
      <4>4. QED
        BY <1>2, <1>3, <4>1, <4>2, <4>3
    <3>2. CASE c \notin CallsOf(b)
      BY <1>2, <1>3, <3>2 DEF PendingIsOpen
    <3>3. QED
      BY <3>1, <3>2
  <2>2. QED
    BY <2>1 DEF PendingIsOpen
<1>15. ResultsNamed'
  <2>1. ASSUME NEW c \in Calls, NEW i \in EventsOf(c, "result")'
        PROVE  /\ c \notin Anonymous =>
                     events'[i].tool = (IF EventsOf(c, "use")' = {} THEN None ELSE ToolOf[c])
               /\ c \in Anonymous /\ cli' = "claude_code" => events'[i].tool = None
    <3>1. i \in EventsOf(c, "result") /\ events'[i] = events[i]
      BY <1>1, <1>2, <2>1 DEF EventsOf
    <3>2. c \notin CallsOf(b)
      BY <1>4, <3>1 DEF Lived
    <3>3. QED
      BY <1>2, <1>5, <3>1, <3>2 DEF ResultsNamed
  <2>2. QED
    BY <2>1 DEF ResultsNamed
<1>16. UseHoldsItsResult'
  <2>1. ASSUME NEW c \in Calls \ Anonymous, NEW i \in EventsOf(c, "use")', cli = "claude_code"
        PROVE  IF EventsOf(c, "result")' = {}
               THEN ~events'[i].output /\ events'[i].is_error = None
               ELSE events'[i].output /\ events'[i].is_error = (outcome'[c] = "failed")
    <3>1. CASE c \in CallsOf(b)
      <4>1. PICK k \in DOMAIN b : c = b[k]
        BY <1>4, <3>1
      <4>2. i = n + k /\ EventsOf(c, "result")' = {}
        BY <1>2, <2>1, <4>1
      <4>3. QED
        BY <1>7, <4>2
    <3>2. CASE c \notin CallsOf(b)
      <4>1. i \in EventsOf(c, "use") /\ events'[i] = events[i] /\ outcome'[c] = outcome[c]
        BY <1>1, <1>2, <1>5, <2>1, <3>2 DEF EventsOf
      <4>2. QED
        BY <1>2, <2>1, <4>1 DEF UseHoldsItsResult
    <3>3. QED
      BY <3>1, <3>2
  <2>2. QED
    BY <1>5, <2>1 DEF UseHoldsItsResult
<1>17. QED
  BY <1>8, <1>9, <1>10, <1>11, <1>12, <1>13, <1>14, <1>15, <1>16

(***************************************************************************)
(* A record with results.                                                  *)
(***************************************************************************)

\* An event that stays as it is, or is the use a result is written into.
Kept(b, how, i) ==
    /\ events'[i].call = events[i].call /\ events'[i].kind = events[i].kind
    /\ events'[i].tool = events[i].tool /\ events'[i].turn = events[i].turn
    /\ \/ events'[i] = events[i] /\ (cli = "claude_code" => i \notin Answered(b))
       \/ /\ cli = "claude_code" /\ i \in Answered(b)
          /\ events'[i].output = TRUE
          /\ events'[i].is_error = IsError(how[events[i].call])

LEMMA ResultsEvents ==
    ASSUME TypeOK, NEW S \in SUBSET Calls, NEW b \in Batches(S),
           NEW how \in [CallsOf(b) -> {"ok", "failed"}], ReadResults(b, how)
    PROVE  /\ events' \in Seq(ToolEvent)
           /\ Behind(b)
           /\ \A i \in DOMAIN events : Kept(b, how, i)
           /\ \A k \in DOMAIN b : IsResult(events'[Len(events) + k], b[k], how[b[k]])
<1>1. /\ events' \in Seq(ToolEvent)
      /\ Behind(b)
      /\ \A i \in DOMAIN events :
            events'[i] = IF cli = "claude_code" THEN Completed(b, how)[i] ELSE events[i]
      /\ \A k \in DOMAIN b : events'[Len(events) + k] = ResultEvent(b[k], how[b[k]])
  BY ResultsWritten
<1>2. ASSUME NEW i \in DOMAIN events PROVE Kept(b, how, i)
  <2>1. CASE cli = "claude_code"
    <3>1. events'[i] = Completed(b, how)[i]
      BY <1>1, <2>1
    <3>2. IsCompletion(Completed(b, how), b, how)
      BY CompletedFacts
    <3>3. QED
      BY <2>1, <3>1, <3>2 DEF Kept, IsCompletion
  <2>2. CASE cli # "claude_code"
    BY <1>1, <2>2 DEF Kept
  <2>3. QED
    BY <2>1, <2>2
<1>3. ASSUME NEW k \in DOMAIN b
      PROVE  IsResult(events'[Len(events) + k], b[k], how[b[k]])
  <2>1. b[k] \in Calls /\ how[b[k]] \in {"ok", "failed"}
    BY BatchFacts DEF CallsOf
  <2>2. IsResult(ResultEvent(b[k], how[b[k]]), b[k], how[b[k]])
    BY <2>1, ResultEventFacts
  <2>3. QED
    BY <1>1, <2>2
<1>4. QED
  BY <1>1, <1>2, <1>3

LEMMA ResultsSets ==
    ASSUME TypeOK, Lived, NEW b \in Batches(CallsThatAre("running")),
           NEW how \in [CallsOf(b) -> {"ok", "failed"}], ReadResults(b, how)
    PROVE  /\ \A c \in Calls : EventsOf(c, "use")' = EventsOf(c, "use")
           /\ \A c \in Calls \ CallsOf(b) : EventsOf(c, "result")' = EventsOf(c, "result")
           /\ \A k \in DOMAIN b : /\ EventsOf(b[k], "result") = {}
                                  /\ EventsOf(b[k], "result")' = {Len(events) + k}
<1>1. CallsThatAre("running") \in SUBSET Calls
  BY DEF CallsThatAre
<1>2. /\ Behind(b)
      /\ \A i \in DOMAIN events : Kept(b, how, i)
      /\ \A k \in DOMAIN b : IsResult(events'[Len(events) + k], b[k], how[b[k]])
  BY <1>1, ResultsEvents
<1>3. /\ \A k \in DOMAIN b : b[k] \in CallsOf(b) /\ b[k] \in Calls /\ outcome[b[k]] = "running"
      /\ \A k, l \in DOMAIN b : b[k] = b[l] => k = l
  BY BatchFacts DEF CallsOf, CallsThatAre
<1>4. /\ \A k \in DOMAIN b : events'[Len(events) + k].call = b[k]
                             /\ events'[Len(events) + k].kind = "result"
      /\ \A i \in DOMAIN events : events'[i].call = events[i].call
                                  /\ events'[i].kind = events[i].kind
  BY <1>2 DEF IsResult, Kept
<1>5. ASSUME NEW c \in Calls PROVE EventsOf(c, "use")' = EventsOf(c, "use")
  BY <1>2, <1>4 DEF EventsOf, Behind
<1>6. ASSUME NEW c \in Calls \ CallsOf(b) PROVE EventsOf(c, "result")' = EventsOf(c, "result")
  BY <1>2, <1>3, <1>4 DEF EventsOf, Behind
<1>7. ASSUME NEW k \in DOMAIN b
      PROVE  /\ EventsOf(b[k], "result") = {}
             /\ EventsOf(b[k], "result")' = {Len(events) + k}
  <2>1. EventsOf(b[k], "result") = {}
    BY <1>3 DEF Lived
  <2>2. \A i \in DOMAIN events' :
           events'[i].call = b[k] /\ events'[i].kind = "result" <=> i = Len(events) + k
    BY <1>2, <1>3, <1>4, <2>1 DEF EventsOf, Behind
  <2>3. Len(events) + k \in DOMAIN events'
    BY <1>2 DEF Behind
  <2>4. QED
    BY <2>1, <2>2, <2>3 DEF EventsOf
<1>8. QED
  BY <1>5, <1>6, <1>7

(* The uses answered by a record are those of its calls with an id.        *)
LEMMA AnsweredUses ==
    ASSUME TypeOK, PendingIsOpen, IdsAwaited, OneUse, cli = "claude_code",
           NEW S \in SUBSET Calls, NEW b \in Batches(S),
           \A c \in S : EventsOf(c, "result") = {}
    PROVE  \A i \in DOMAIN events :
              i \in Answered(b) <=> /\ events[i].kind = "use"
                                    /\ events[i].call \in CallsOf(b) \ Anonymous
<1>1. CallsOf(b) \subseteq S
  BY BatchFacts
<1>2. ASSUME NEW i \in DOMAIN events, NEW c \in CallsOf(b),
             IdOf(c) \in DOMAIN pending, pending[IdOf(c)] = i
      PROVE  events[i].kind = "use" /\ events[i].call = c /\ c \notin Anonymous
  <2>1. c \notin Anonymous /\ IdOf(c) = c
    BY <1>1, <1>2, IdFacts DEF IdsAwaited
  <2>2. QED
    BY <1>1, <1>2, <2>1 DEF PendingIsOpen, EventsOf
<1>3. ASSUME NEW i \in DOMAIN events, events[i].kind = "use",
             events[i].call \in CallsOf(b) \ Anonymous
      PROVE  i \in Answered(b)
  <2> DEFINE c == events[i].call
  <2>1. c \in Calls \ Anonymous /\ IdOf(c) = c /\ i \in EventsOf(c, "use")
        /\ EventsOf(c, "result") = {}
    BY <1>1, <1>3, IdFacts DEF EventsOf
  <2>2. c \in DOMAIN pending /\ pending[c] \in EventsOf(c, "use")
    BY <2>1 DEF PendingIsOpen
  <2>3. pending[c] = i
    BY <2>1, <2>2 DEF OneUse
  <2>4. QED
    BY <1>3, <2>1, <2>2, <2>3 DEF Answered
<1>4. QED
  BY <1>2, <1>3 DEF Answered

LEMMA ResultsKeep ==
    ASSUME CallInv, NEW b \in Batches(CallsThatAre("running")),
           NEW how \in [CallsOf(b) -> {"ok", "failed"}],
           ReturnResults(b, how), ReadResults(b, how)
    PROVE  CallInv'
<1> USE DEF CallInv
<1> DEFINE n == Len(events)
<1>1. /\ events' \in Seq(ToolEvent)
      /\ Behind(b)
      /\ \A i \in DOMAIN events : Kept(b, how, i)
      /\ \A k \in DOMAIN b : IsResult(events'[n + k], b[k], how[b[k]])
  BY ResultsEvents DEF CallsThatAre
<1>2. /\ \A c \in Calls : EventsOf(c, "use")' = EventsOf(c, "use")
      /\ \A c \in Calls \ CallsOf(b) : EventsOf(c, "result")' = EventsOf(c, "result")
      /\ \A k \in DOMAIN b : /\ EventsOf(b[k], "result") = {}
                             /\ EventsOf(b[k], "result")' = {n + k}
  BY ResultsSets
<1>3. /\ \A k \in DOMAIN b : b[k] \in CallsOf(b)
      /\ \A c \in CallsOf(b) : \E k \in DOMAIN b : c = b[k]
      /\ CallsOf(b) \subseteq Calls
      /\ \A c \in CallsOf(b) : outcome[c] = "running" /\ how[c] \in {"ok", "failed"}
  BY BatchFacts DEF CallsOf, CallsThatAre
<1>4. cli = "claude_code" =>
        \A i \in DOMAIN events :
           i \in Answered(b) <=> /\ events[i].kind = "use"
                                 /\ events[i].call \in CallsOf(b) \ Anonymous
  BY AnsweredUses DEF CallsThatAre, Lived
<1>5. /\ cli' = cli /\ unreadable' \in 0..MaxUnreadable
      /\ Written /\ NewTurn("tool")
      /\ outcome' = [c \in Calls |-> IF c \in CallsOf(b) THEN how[c] ELSE outcome[c]]
  BY CallAssumption DEF ReturnResults, ReadResults, Become, Unreadable, TypeOK
<1>6. /\ clock' \in Nat /\ turns' \in Seq(Turn) /\ Len(turns) + 1 \in DOMAIN turns'
      /\ \A i \in DOMAIN turns : i \in DOMAIN turns'
  BY <1>5, TurnAdded DEF TypeOK
<1>7. /\ DOMAIN pending' = DOMAIN pending \ {IdOf(c) : c \in CallsOf(b)}
      /\ \A id \in DOMAIN pending' : pending'[id] = pending[id]
  BY DEF ReadResults, Restrict
<1>8. /\ \A c \in CallsOf(b) \ Anonymous : c \notin DOMAIN pending'
      /\ \A c \in (Calls \ Anonymous) \ CallsOf(b) : c \in DOMAIN pending' <=> c \in DOMAIN pending
  BY <1>3, <1>7, IdFacts
<1>9. ASSUME NEW i \in DOMAIN events', i \notin DOMAIN events
      PROVE  \E k \in DOMAIN b : i = n + k
  BY <1>1, <1>9 DEF Behind
<1>10. \A i \in DOMAIN events : i \in DOMAIN events'
  BY <1>1 DEF Behind
<1> HIDE DEF n
<1>11. TypeOK'
  <2>1. ASSUME NEW i \in DOMAIN events' PROVE events'[i].turn \in DOMAIN turns'
    <3>1. CASE i \in DOMAIN events
      BY <1>1, <1>6, <3>1 DEF Kept, TypeOK
    <3>2. CASE i \notin DOMAIN events
      BY <1>1, <1>6, <1>9, <3>2 DEF IsResult
    <3>3. QED
      BY <3>1, <3>2
  <2>2. DOMAIN pending' \subseteq Calls \cup {None}
    BY <1>7 DEF TypeOK
  <2>3. \A id \in DOMAIN pending' : pending'[id] \in DOMAIN events'
    BY <1>7, <1>10 DEF TypeOK
  <2>4. outcome' \in [Calls -> Outcome]
    BY <1>3, <1>5 DEF TypeOK, Outcome
  <2>5. QED
    BY <1>1, <1>5, <1>6, <2>1, <2>2, <2>3, <2>4 DEF TypeOK
<1>12. Lived'
  BY <1>2, <1>3, <1>5 DEF Lived
<1>13. OneUse'
  BY <1>2 DEF OneUse
<1>14. Tooled'
  <2>1. ASSUME NEW i \in DOMAIN events'
        PROVE  /\ events'[i].kind = "use" => events'[i].tool = ToolOf[events'[i].call]
               /\ events'[i].kind = "result" => events'[i].output = TRUE
    <3>1. CASE i \in DOMAIN events
      BY <1>1, <3>1 DEF Kept, Tooled
    <3>2. CASE i \notin DOMAIN events
      BY <1>1, <1>9, <3>2 DEF IsResult
    <3>3. QED
      BY <3>1, <3>2
  <2>2. QED
    BY <2>1 DEF Tooled
<1>15. Blamed'
  <2>1. ASSUME NEW i \in DOMAIN events', events'[i].is_error = TRUE
        PROVE  cli' = "claude_code" /\ outcome'[events'[i].call] = "failed"
    <3>1. CASE i \in DOMAIN events /\ events'[i] = events[i]
      <4>1. cli = "claude_code" /\ outcome[events[i].call] = "failed"
        BY <2>1, <3>1 DEF Blamed
      <4>2. events[i].call \in Calls /\ events[i].call \notin CallsOf(b)
        BY <1>3, <3>1, <4>1, EventTyped
      <4>3. QED
        BY <1>5, <3>1, <4>1, <4>2
    <3>2. CASE i \in DOMAIN events /\ events'[i] # events[i]
      <4>1. /\ cli = "claude_code" /\ i \in Answered(b)
            /\ events'[i].is_error = IsError(how[events[i].call])
            /\ events'[i].call = events[i].call
        BY <1>1, <3>2 DEF Kept
      <4>2. events[i].call \in CallsOf(b) /\ IsError(how[events[i].call])
        BY <1>4, <2>1, <3>2, <4>1
      <4>3. QED
        BY <1>3, <1>5, <4>1, <4>2 DEF IsError
    <3>3. CASE i \notin DOMAIN events
      <4>1. PICK k \in DOMAIN b : i = n + k
        BY <1>9, <3>3
      <4>2. events'[i].call = b[k] /\ events'[i].is_error = IsError(how[b[k]])
        BY <1>1, <4>1 DEF IsResult
      <4>3. IsError(how[b[k]])
        BY <2>1, <4>2
      <4>4. QED
        BY <1>3, <1>5, <4>2, <4>3 DEF IsError
    <3>4. QED
      BY <3>1, <3>2, <3>3
  <2>2. QED
    BY <2>1 DEF Blamed
<1>16. IdsAwaited'
  BY <1>5, <1>7 DEF IdsAwaited
<1>17. PendingIsOpen'
  <2>1. ASSUME NEW c \in Calls \ Anonymous
        PROVE  /\ c \in DOMAIN pending' <=>
                     EventsOf(c, "use")' # {} /\ EventsOf(c, "result")' = {}
               /\ c \in DOMAIN pending' => pending'[c] \in EventsOf(c, "use")'
    <3>1. CASE c \in CallsOf(b)
      BY <1>2, <1>3, <1>8, <3>1
    <3>2. CASE c \notin CallsOf(b)
      BY <1>2, <1>7, <1>8, <3>2 DEF PendingIsOpen
    <3>3. QED
      BY <3>1, <3>2
  <2>2. QED
    BY <2>1 DEF PendingIsOpen
<1>18. ResultsNamed'
  <2>1. ASSUME NEW c \in Calls, NEW i \in EventsOf(c, "result")'
        PROVE  /\ c \notin Anonymous =>
                     events'[i].tool = (IF EventsOf(c, "use")' = {} THEN None ELSE ToolOf[c])
               /\ c \in Anonymous /\ cli' = "claude_code" => events'[i].tool = None
    <3>1. CASE c \in CallsOf(b)
      <4>1. PICK k \in DOMAIN b : c = b[k] /\ EventsOf(c, "result") = {} /\ i = n + k
        BY <1>2, <1>3, <2>1, <3>1
      <4>2. events'[i].tool = FoundTool(c)
        BY <1>1, <4>1 DEF IsResult
      <4>3. ASSUME c \notin Anonymous
            PROVE  FoundTool(c) = IF EventsOf(c, "use") = {} THEN None ELSE ToolOf[c]
        <5>1. IdOf(c) = c
          BY <4>3, IdFacts
        <5>2. c \in DOMAIN pending <=> EventsOf(c, "use") # {}
          BY <4>1, <4>3 DEF PendingIsOpen
        <5>3. c \in DOMAIN pending => pending[c] \in EventsOf(c, "use")
          BY <4>3 DEF PendingIsOpen
        <5>4. c \in DOMAIN pending => events[pending[c]].tool = ToolOf[c]
          BY <5>3 DEF EventsOf, Tooled
        <5>5. QED
          BY <5>1, <5>2, <5>4 DEF FoundTool
      <4>4. c \in Anonymous /\ cli = "claude_code" => FoundTool(c) = None
        BY IdFacts DEF FoundTool, IdsAwaited
      <4>5. QED
        BY <1>2, <1>5, <4>2, <4>3, <4>4
    <3>2. CASE c \notin CallsOf(b)
      <4>1. i \in EventsOf(c, "result") /\ i \in DOMAIN events
        BY <1>2, <2>1, <3>2 DEF EventsOf
      <4>2. events'[i].tool = events[i].tool
        BY <1>1, <4>1 DEF Kept
      <4>3. QED
        BY <1>2, <1>5, <4>1, <4>2 DEF ResultsNamed
    <3>3. QED
      BY <3>1, <3>2
  <2>2. QED
    BY <2>1 DEF ResultsNamed
<1>19. UseHoldsItsResult'
  <2>1. ASSUME NEW c \in Calls \ Anonymous, NEW i \in EventsOf(c, "use")', cli = "claude_code"
        PROVE  IF EventsOf(c, "result")' = {}
               THEN ~events'[i].output /\ events'[i].is_error = None
               ELSE events'[i].output /\ events'[i].is_error = (outcome'[c] = "failed")
    <3>1. i \in EventsOf(c, "use") /\ i \in DOMAIN events
          /\ events[i].call = c /\ events[i].kind = "use"
      BY <1>2, <2>1 DEF EventsOf
    <3>2. CASE c \in CallsOf(b)
      <4>1. i \in Answered(b)
        BY <1>4, <2>1, <3>1, <3>2
      <4>2. events'[i].output = TRUE /\ events'[i].is_error = IsError(how[c])
        BY <1>1, <2>1, <3>1, <4>1 DEF Kept
      <4>3. EventsOf(c, "result")' # {}
        BY <1>2, <1>3, <3>2
      <4>4. IsError(how[c]) = (outcome'[c] = "failed")
        BY <1>3, <1>5, <2>1, <3>2 DEF IsError
      <4>5. QED
        BY <4>2, <4>3, <4>4
    <3>3. CASE c \notin CallsOf(b)
      <4>1. i \notin Answered(b)
        BY <1>4, <2>1, <3>1, <3>3
      <4>2. events'[i] = events[i] /\ outcome'[c] = outcome[c]
        BY <1>1, <1>5, <3>1, <3>3, <4>1 DEF Kept
      <4>3. QED
        BY <1>2, <2>1, <3>1, <3>3, <4>2 DEF UseHoldsItsResult
    <3>4. QED
      BY <3>2, <3>3
  <2>2. QED
    BY <1>5, <2>1 DEF UseHoldsItsResult
<1>20. QED
  BY <1>11, <1>12, <1>13, <1>14, <1>15, <1>16, <1>17, <1>18, <1>19

(***************************************************************************)
(* Lines that cannot be read, and messages.                                *)
(***************************************************************************)
LEMMA QuietKeeps ==
    ASSUME CallInv, UNCHANGED <<cli, events, pending>>,
           clock' \in Nat, unreadable' \in 0..MaxUnreadable,
           turns' \in Seq(Turn), \A i \in DOMAIN turns : i \in DOMAIN turns',
           outcome' \in [Calls -> Outcome],
           \A c \in Calls : \/ outcome'[c] = outcome[c]
                            \/ outcome[c] = "new" /\ outcome'[c] = "running"
                            \/ outcome[c] = "running" /\ outcome'[c] \in {"ok", "failed"}
    PROVE  CallInv'
<1> USE DEF CallInv
<1>1. \A c \in Calls : EventsOf(c, "use")' = EventsOf(c, "use")
                       /\ EventsOf(c, "result")' = EventsOf(c, "result")
  BY DEF EventsOf
<1>2. \A c \in Calls : outcome[c] = "failed" => outcome'[c] = "failed"
  OBVIOUS
<1>3. TypeOK'
  BY DEF TypeOK
<1>4. Lived'
  BY <1>1 DEF Lived
<1>5. OneUse' /\ Tooled' /\ IdsAwaited'
  BY <1>1 DEF OneUse, Tooled, IdsAwaited
<1>6. Blamed'
  BY <1>2, EventTyped DEF Blamed
<1>7. PendingIsOpen' /\ ResultsNamed'
  BY <1>1 DEF PendingIsOpen, ResultsNamed
<1>8. UseHoldsItsResult'
  <2>1. ASSUME NEW c \in Calls \ Anonymous, NEW i \in EventsOf(c, "use"), cli = "claude_code"
        PROVE  IF EventsOf(c, "result") = {}
               THEN ~events[i].output /\ events[i].is_error = None
               ELSE events[i].output /\ events[i].is_error = (outcome'[c] = "failed")
    <3>1. EventsOf(c, "result") # {} => outcome'[c] = outcome[c]
      BY DEF Lived
    <3>2. QED
      BY <2>1, <3>1 DEF UseHoldsItsResult
  <2>2. QED
    BY <1>1, <2>1 DEF UseHoldsItsResult
<1>9. QED
  BY <1>3, <1>4, <1>5, <1>6, <1>7, <1>8

LEMMA CallToolsKeeps ==
    ASSUME CallInv, NEW b \in Batches(CallsThatAre("new")), CallTools(b)
    PROVE  CallInv'
<1>1. CASE ReadUses(b)
  BY <1>1, UsesKeep
<1>2. CASE Unreadable
  <2>1. /\ UNCHANGED <<cli, turns, events, pending>>
        /\ clock' \in Nat /\ unreadable' \in 0..MaxUnreadable
    BY <1>2, CallAssumption DEF CallTools, Unreadable, Written, CallInv, TypeOK
  <2>2. CallsOf(b) \subseteq CallsThatAre("new")
    BY BatchFacts
  <2>3. outcome' = [c \in Calls |-> IF c \in CallsOf(b) THEN "running" ELSE outcome[c]]
    BY DEF CallTools, Become
  <2>4. /\ outcome' \in [Calls -> Outcome]
        /\ \A c \in Calls : \/ outcome'[c] = outcome[c]
                            \/ outcome[c] = "new" /\ outcome'[c] = "running"
    BY <2>2, <2>3 DEF CallsThatAre, CallInv, TypeOK, Outcome
  <2>5. QED
    BY <2>1, <2>4, QuietKeeps DEF CallInv, TypeOK
<1>3. QED
  BY <1>1, <1>2 DEF CallTools

LEMMA ReturnResultsKeeps ==
    ASSUME CallInv, NEW b \in Batches(CallsThatAre("running")),
           NEW how \in [CallsOf(b) -> {"ok", "failed"}], ReturnResults(b, how)
    PROVE  CallInv'
<1>1. CASE ReadResults(b, how)
  BY <1>1, ResultsKeep
<1>2. CASE Unreadable
  <2>1. /\ UNCHANGED <<cli, turns, events, pending>>
        /\ clock' \in Nat /\ unreadable' \in 0..MaxUnreadable
    BY <1>2, CallAssumption DEF ReturnResults, Unreadable, Written, CallInv, TypeOK
  <2>2. CallsOf(b) \subseteq CallsThatAre("running")
    BY BatchFacts
  <2>3. outcome' = [c \in Calls |-> IF c \in CallsOf(b) THEN how[c] ELSE outcome[c]]
    BY DEF ReturnResults, Become
  <2>4. /\ outcome' \in [Calls -> Outcome]
        /\ \A c \in Calls : \/ outcome'[c] = outcome[c]
                            \/ outcome[c] = "running" /\ outcome'[c] \in {"ok", "failed"}
    BY <2>2, <2>3 DEF CallsThatAre, CallInv, TypeOK, Outcome
  <2>5. QED
    BY <2>1, <2>4, QuietKeeps DEF CallInv, TypeOK
<1>3. QED
  BY <1>1, <1>2 DEF ReturnResults

LEMMA MessageKeeps ==
    ASSUME CallInv, NEW role \in {"user", "assistant", "system"}, Message(role)
    PROVE  CallInv'
<1>1. /\ Written /\ NewTurn(role)
      /\ UNCHANGED <<cli, outcome, unreadable, events, pending>>
  BY DEF Message
<1>2. clock' \in Nat /\ turns' \in Seq(Turn) /\ \A i \in DOMAIN turns : i \in DOMAIN turns'
  BY <1>1, TurnAdded DEF CallInv, TypeOK
<1>3. outcome' \in [Calls -> Outcome] /\ unreadable' \in 0..MaxUnreadable
  BY <1>1 DEF CallInv, TypeOK
<1>4. QED
  BY <1>1, <1>2, <1>3, QuietKeeps

LEMMA CallInvInit == Init => CallInv
<1> SUFFICES ASSUME Init PROVE CallInv
  OBVIOUS
<1>1. events = <<>> /\ DOMAIN events = {} /\ pending = <<>> /\ DOMAIN pending = {}
  BY DEF Init
<1>2. \A c \in Calls : EventsOf(c, "use") = {} /\ EventsOf(c, "result") = {}
  BY <1>1 DEF EventsOf
<1>3. TypeOK
  BY <1>1, CallAssumption DEF Init, TypeOK, Outcome
<1>4. QED
  BY <1>1, <1>2, <1>3
  DEF CallInv, Lived, OneUse, Tooled, Blamed, IdsAwaited, PendingIsOpen, ResultsNamed,
      UseHoldsItsResult

LEMMA CallInvNext == CallInv /\ [Next]_vars => CallInv'
<1> SUFFICES ASSUME CallInv, [Next]_vars PROVE CallInv'
  OBVIOUS
<1>1. CASE UNCHANGED vars
  <2>1. UNCHANGED <<cli, clock, outcome, unreadable, turns, events, pending>>
    BY <1>1 DEF vars
  <2>2. QED
    BY <2>1, QuietKeeps DEF CallInv, TypeOK
<1>2. QED
  BY <1>1, CallToolsKeeps, ReturnResultsKeeps, MessageKeeps DEF Next

(***************************************************************************)
(* Retries.                                                                *)
(***************************************************************************)

(* The last of the errors before an event exists.  (Of the sets of what    *)
(* comes after some error, one has no proper subset among them; it is      *)
(* empty.)                                                                 *)
LEMMA LastIsThere ==
    ASSUME NEW S \in SUBSET Int, IsFiniteSet(S), S # {}
    PROVE  \E x \in S : \A y \in S : y <= x
<1> DEFINE After(x) == {y \in S : y > x}
<1> DEFINE T == {After(x) : x \in S}
<1>1. IsWellFoundedOn(StrictSubsetOrdering(S), SUBSET S)
  BY FS_StrictSubsetOrderingWellFounded, FS_FiniteSubsetsOfFinite
<1>2. T \subseteq SUBSET S /\ T # {}
  OBVIOUS
<1>3. \E A \in T : \A B \in T : <<B, A>> \notin StrictSubsetOrdering(S)
  <2> HIDE DEF T
  <2>1. QED
    BY <1>1, <1>2, WFMin
<1>4. PICK x \in S : \A y \in S : <<After(y), After(x)>> \notin StrictSubsetOrdering(S)
  BY <1>3
<1>5. ASSUME NEW y \in S, y > x PROVE FALSE
  <2>1. After(y) \subseteq After(x)
    <3>1. ASSUME NEW z \in S, z > y PROVE z > x
      <4>1. x \in Int /\ y \in Int /\ z \in Int
        OBVIOUS
      <4>2. QED
        BY <1>5, <3>1, <4>1
    <3>2. QED
      BY <3>1
  <2>2. y \in After(x) /\ y \notin After(y)
    BY <1>5
  <2>3. After(y) \in SUBSET S /\ After(x) \in SUBSET S
    OBVIOUS
  <2> HIDE DEF After
  <2>4. <<After(y), After(x)>> \in StrictSubsetOrdering(S)
    BY <2>1, <2>2, <2>3 DEF StrictSubsetOrdering
  <2>5. QED
    BY <1>4, <2>4
<1>6. \A y \in S : y <= x
  BY <1>5
<1>7. QED
  BY <1>6

LEMMA RetriesBlamed ==
    ASSUME CallInv PROVE RetryHasFailure
<1> USE DEF CallInv
<1> SUFFICES ASSUME NEW i \in Counted
             PROVE  \E j \in 1..(i - 1) :
                       /\ outcome[events[j].call] = "failed"
                       /\ ToolOf[events[j].call] = events[i].tool
                       /\ Ts(i) - Ts(j) < Window
  BY DEF RetryHasFailure
<1> DEFINE errors == {j \in 1..(i - 1) : events[j].is_error = TRUE
                                         /\ events[j].tool = events[i].tool}
<1> DEFINE j == LastError(i)
<1>1. /\ i \in DOMAIN events /\ ~events[i].output
      /\ j # None /\ Ts(i) - Ts(j) < Window
  BY DEF Counted
<1>2. i \in Nat /\ DOMAIN events = 1..Len(events) /\ Len(events) \in Nat
  BY <1>1 DEF TypeOK
<1>3. j = IF errors = {} THEN None ELSE CHOOSE k \in errors : \A l \in errors : l <= k
  BY DEF LastError
<1>4. j \in errors
  <2>1. errors \in SUBSET Int /\ IsFiniteSet(errors)
    <3>1. errors \subseteq 1..(i - 1)
      OBVIOUS
    <3> HIDE DEF errors
    <3>2. IsFiniteSet(1..(i - 1))
      BY <1>2, FS_Interval
    <3>3. 1..(i - 1) \subseteq Int
      OBVIOUS
    <3>4. QED
      BY <3>1, <3>2, <3>3, FS_Subset
  <2>2. errors # {}
    BY <1>1, <1>3
  <2> HIDE DEF errors
  <2>3. \E k \in errors : \A l \in errors : l <= k
    BY <2>1, <2>2, LastIsThere
  <2>4. QED
    BY <1>3, <2>2, <2>3
<1>5. j \in 1..(i - 1) /\ events[j].is_error = TRUE /\ events[j].tool = events[i].tool
  BY <1>4
<1> HIDE DEF j, errors
<1>6. j \in DOMAIN events
  BY <1>1, <1>2, <1>5
<1>7. events[i].tool \in Tools /\ events[i].tool # None
  <2>1. events[i].kind = "use" /\ events[i].call \in Calls
    BY <1>1, EventTyped DEF Tooled
  <2>2. QED
    BY <1>1, <2>1, CallAssumption DEF Tooled
<1>8. cli = "claude_code" /\ outcome[events[j].call] = "failed"
  BY <1>5, <1>6 DEF Blamed
<1>9. ToolOf[events[j].call] = events[j].tool
  <2>1. CASE events[j].kind = "use"
    BY <1>6, <2>1 DEF Tooled
  <2>2. CASE events[j].kind = "result"
    <3>1. events[j].call \in Calls /\ j \in EventsOf(events[j].call, "result")
      BY <1>6, <2>2, EventTyped
    <3>2. QED
      BY <1>5, <1>7, <1>8, <3>1 DEF ResultsNamed
  <2>3. QED
    BY <1>6, <2>1, <2>2, EventTyped
<1>10. QED
  BY <1>1, <1>5, <1>8, <1>9

(***************************************************************************)
(* The type invariant of a parse: events name turns that exist, and the    *)
(* table names events that exist.                                          *)
(***************************************************************************)
THEOREM TypeCorrect == Spec => []TypeOK
<1>1. CallInv => TypeOK
  BY DEF CallInv
<1>2. QED
  BY CallInvInit, CallInvNext, <1>1, PTL DEF Spec

(***************************************************************************)
(* Results are given the tool of their own call.                           *)
(***************************************************************************)
THEOREM ResultsAreNamed == Spec => []ResultsNamed
<1>1. CallInv => ResultsNamed
  BY DEF CallInv
<1>2. QED
  BY CallInvInit, CallInvNext, <1>1, PTL DEF Spec

(***************************************************************************)
(* The table of pending uses holds exactly the calls that are open.        *)
(***************************************************************************)
THEOREM TheTableIsExact == Spec => []PendingIsOpen
<1>1. CallInv => PendingIsOpen
  BY DEF CallInv
<1>2. QED
  BY CallInvInit, CallInvNext, <1>1, PTL DEF Spec

(***************************************************************************)
(* A use and its result are a pair: the use holds the verdict.             *)
(***************************************************************************)
THEOREM UsesAreCompleted == Spec => []UseHoldsItsResult
<1>1. CallInv => UseHoldsItsResult
  BY DEF CallInv
<1>2. QED
  BY CallInvInit, CallInvNext, <1>1, PTL DEF Spec

(***************************************************************************)
(* Nothing is counted as a retry without a failure of the same tool.       *)
(***************************************************************************)
THEOREM RetriesFollowFailures == Spec => []RetryHasFailure
  BY CallInvInit, CallInvNext, RetriesBlamed, PTL DEF Spec

=============================================================================
