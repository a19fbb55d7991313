------------------------ MODULE RemoteBackendsProofs ------------------------
(***************************************************************************)
(* Proofs about RemoteBackends, for any finite set of clients, any scopes  *)
(* and any bounds on agents, processes and calls.                          *)
(***************************************************************************)
EXTENDS RemoteBackends, FiniteSetTheorems, TLAPS

Ops(h) == h.n_adds + h.n_searches

\* What HealthIsHonest says of the record of a running client.
Honest(h) == IF h.healthy THEN h.n_errors = 0 ELSE h.error_message

(* A call that was served is counted and leaves an honest record honest.   *)
LEMMA ServedFacts ==
    ASSUME NEW h \in Health, NEW k \in {"add", "search"}, NEW g, g = RecordOp(h, k, FALSE)
    PROVE  /\ g \in Health
           /\ Ops(g) = Ops(h) + 1
           /\ g.n_errors = h.n_errors
           /\ g.healthy = h.healthy
           /\ Honest(h) => Honest(g)
<1> DEFINE s == IF k = "search" THEN h.n_searches + 1 ELSE h.n_searches
           a == IF k = "add" THEN h.n_adds + 1 ELSE h.n_adds
<1>1. s \in Nat /\ a \in Nat /\ a + s = Ops(h) + 1
  BY DEF Health, Ops
<1>2. g = [h EXCEPT !.n_searches = s, !.n_adds = a]
  BY DEF RecordOp, Health
<1> HIDE DEF s, a
<1>3. QED
  BY <1>1, <1>2 DEF Health, Ops, Honest

(* A call that was refused or failed is counted, and so is its error.      *)
LEMMA RefusedFacts ==
    ASSUME NEW h \in Health, NEW k \in {"add", "search"}, NEW g, g = RecordOp(h, k, TRUE)
    PROVE  /\ g \in Health
           /\ Ops(g) = Ops(h) + 1
           /\ g.n_errors = h.n_errors + 1
           /\ g.healthy = h.healthy
           /\ Honest(h) /\ ~h.healthy => Honest(g)
<1> DEFINE s == IF k = "search" THEN h.n_searches + 1 ELSE h.n_searches
           a == IF k = "add" THEN h.n_adds + 1 ELSE h.n_adds
           n == h.n_errors + 1
<1>1. s \in Nat /\ a \in Nat /\ n \in Nat /\ a + s = Ops(h) + 1
  BY DEF Health, Ops
<1>2. g = [h EXCEPT !.n_searches = s, !.n_adds = a, !.n_errors = n]
  BY DEF RecordOp, Health
<1> HIDE DEF s, a
<1>3. QED
  BY <1>1, <1>2 DEF Health, Ops, Honest

(* An error that is recorded leaves the backend unhealthy, with a reason.  *)
LEMMA ErrorFacts ==
    ASSUME NEW h \in Health, NEW silent \in BOOLEAN, NEW g, g = RecordError(h, silent)
    PROVE  /\ g \in Health
           /\ Ops(g) = Ops(h)
           /\ g.n_errors = h.n_errors + 1
           /\ ~g.healthy
           /\ Honest(g)
<1> DEFINE f == IF silent THEN h.n_silent_extraction_failures + 1
                          ELSE h.n_silent_extraction_failures
           n == h.n_errors + 1
<1>1. f \in Nat /\ n \in Nat
  BY DEF Health
<1>2. g = [h EXCEPT !.n_errors = n, !.last_error = TRUE, !.error_message = TRUE,
                    !.n_silent_extraction_failures = f, !.healthy = FALSE]
  BY DEF RecordError, Health
<1> HIDE DEF f
<1>3. QED
  BY <1>1, <1>2 DEF Health, Honest, Ops

(* A new process has a fresh record; it is honest once the probe is over.  *)
LEMMA FreshFacts ==
    /\ FreshHealth \in Health
    /\ Ops(FreshHealth) = 0
    /\ \A ok \in BOOLEAN :
          LET h == [FreshHealth EXCEPT !.healthy = ok, !.error_message = ~ok]
          IN  h \in Health /\ Honest(h) /\ Ops(h) = 0
<1>1. FreshHealth \in Health /\ Ops(FreshHealth) = 0
  BY DEF FreshHealth, Health, Ops
<1>2. ASSUME NEW ok \in BOOLEAN, NEW h, h = [FreshHealth EXCEPT !.healthy = ok, !.error_message = ~ok]
      PROVE  h \in Health /\ Honest(h) /\ Ops(h) = 0
  <2>1. h \in Health
    BY <1>1, <1>2 DEF Health
  <2>2. h.healthy = ok /\ h.error_message = ~ok /\ h.n_errors = 0 /\ h.n_adds = 0 /\ h.n_searches = 0
    BY <1>2 DEF FreshHealth
  <2>3. Ops(h) = 0
    BY <2>2 DEF Ops
  <2>4. Honest(h)
    <3>1. CASE ok = TRUE
      BY <2>2, <3>1 DEF Honest
    <3>2. CASE ok = FALSE
      BY <2>2, <3>2 DEF Honest
    <3>3. QED
      BY <3>1, <3>2
  <2>5. QED
    BY <2>1, <2>3, <2>4
<1>3. QED
  BY <1>1, <1>2

-----------------------------------------------------------------------------
(* The invariant of one client.                                            *)

InCall == {"resolve", "create", "request"}

\* A client in a call is healthy and has counted all calls but this one; one
\* that is not may have counted a call twice.
ClientInv(c) ==
    /\ pc[c] \in {"off", "idle"} \cup InCall
    /\ health[c] \in Health
    /\ calls[c] \in 0..MaxCalls
    /\ pc[c] = "off" => health[c] = FreshHealth /\ calls[c] = 0 /\ ~empty[c]
    /\ pc[c] # "off" => Honest(health[c])
    /\ pc[c] = "idle" => \/ Ops(health[c]) = calls[c]
                         \/ Ops(health[c]) = calls[c] + 1 /\ ~health[c].healthy
    /\ pc[c] \in InCall => /\ call[c] \in Call
                           /\ health[c].healthy
                           /\ Ops(health[c]) + 1 = calls[c]
    /\ pc[c] \notin InCall => call[c] = None

Domains ==
    /\ pc \in [Clients -> {"off", "idle"} \cup InCall]
    /\ health \in [Clients -> Health]
    /\ calls \in [Clients -> 0..MaxCalls]
    /\ call \in [Clients -> Call \cup {None}]
    /\ empty \in [Clients -> BOOLEAN]

\* What the server holds, and is still to be sent.
Server ==
    /\ made \in 0..MaxAgents
    /\ named \in [Agents -> Scopes \cup {None}]
    /\ \A a \in Agents : a > made => named[a] = None
    /\ late \in [Scopes -> Nat]
    /\ strays \in [Scopes -> Nat]
    /\ \A s \in Scopes : late[s] <= strays[s]

Containers ==
    /\ kind \in Kinds
    /\ place \in [Clients -> 1..made \cup Scopes \cup {None}]
    /\ opens \in 0..MaxOpens
    /\ Server

IInv == Domains /\ Containers /\ \A c \in Clients : ClientInv(c)

(* The parts of a call, whatever it is. *)
LEMMA CallParts == \A x \in Call : x.op \in {"add", "search"} /\ x.scope \in Scopes
  BY DEF Call

(* The invariant holds at the start. *)
LEMMA InvInit == Init => IInv
<1> SUFFICES ASSUME Init PROVE IInv
  OBVIOUS
<1>a. 0 \in 0..MaxCalls /\ 0 \in 0..MaxOpens /\ 0 \in 0..MaxAgents
  BY RemoteAssumption
<1>1. Domains
  BY <1>a, FreshFacts DEF Init, Domains, InCall
<1>2. Containers
  BY <1>a DEF Init, Containers, Server
<1>3. ASSUME NEW c \in Clients PROVE ClientInv(c)
  BY <1>1, FreshFacts DEF Init, Domains, ClientInv, InCall
<1>4. QED
  BY <1>1, <1>2, <1>3 DEF IInv

\* What a step of a client leaves alone.
LeavesOthers(c) ==
    \A d \in Clients \ {c} :
        /\ pc'[d] = pc[d] /\ health'[d] = health[d] /\ calls'[d] = calls[d]
        /\ call'[d] = call[d] /\ empty'[d] = empty[d]

\* The record h a call leaves of g: honest, the call counted, twice only by a
\* call that leaves the backend unhealthy.
Outcome(g, h) ==
    /\ h \in Health
    /\ Honest(h)
    /\ \/ Ops(h) = Ops(g) + 1
       \/ Ops(h) = Ops(g) + 2 /\ ~h.healthy

\* An error was counted and the health is lost.
Flagged(g, h) == h.n_errors > g.n_errors /\ ~h.healthy

(* A call that returns with an honest record that counts it.               *)
LEMMA ReturnsFacts ==
    ASSUME IInv, NEW c \in Clients, pc[c] \in InCall, NEW h, Outcome(health[c], h),
           NEW r, Returns(c, h, r), calls' = calls
    PROVE  Domains' /\ ClientInv(c)' /\ LeavesOthers(c)
<1>1. Domains'
  BY DEF IInv, Domains, Returns, InCall, Outcome
<1>2. pc'[c] = "idle" /\ health'[c] = h /\ call'[c] = None
  BY <1>1 DEF IInv, Domains, Returns
<1>3. Ops(h) = calls[c] \/ (Ops(h) = calls[c] + 1 /\ ~h.healthy)
  <2>1. Ops(health[c]) + 1 = calls[c] /\ Ops(health[c]) \in Int
    BY DEF IInv, ClientInv, InCall, Health, Ops
  <2>2. QED
    BY <2>1 DEF Outcome
<1>4. ClientInv(c)'
  BY <1>1, <1>2, <1>3 DEF ClientInv, Domains, InCall, Outcome
<1>5. LeavesOthers(c)
  BY DEF IInv, Domains, Returns, LeavesOthers
<1>6. QED
  BY <1>1, <1>4, <1>5

\* The record an add leaves that was served and returned no id it should have.
Silent(c) == RecordError(Served(c), TRUE)

(* What a call of c can make of its record. *)
LEMMA Outcomes ==
    ASSUME IInv, NEW c \in Clients, pc[c] \in InCall
    PROVE  /\ \A h \in {Served(c), Failed(c), Silent(c), Stumbled(c)} : Outcome(health[c], h)
           /\ \A h \in {Failed(c), Silent(c), Stumbled(c)} : Flagged(health[c], h)
<1>1. call[c].op \in {"add", "search"} /\ health[c] \in Health /\ Honest(health[c])
  BY CallParts DEF IInv, ClientInv, InCall
<1>2. health[c].n_errors \in Nat /\ Ops(health[c]) \in Nat
  BY <1>1 DEF Health, Ops
<1> DEFINE k == call[c].op
           h == health[c]
<1>3. PICK s : s = RecordOp(h, k, FALSE)
  OBVIOUS
<1>4. PICK f : f = RecordOp(h, k, TRUE)
  OBVIOUS
<1>5. PICK g : g = RecordError(f, FALSE)
  OBVIOUS
<1>6. PICK e : e = RecordError(s, TRUE)
  OBVIOUS
<1>a. PICK t : t = RecordOp(s, k, TRUE)
  OBVIOUS
<1>b. PICK u : u = RecordError(t, FALSE)
  OBVIOUS
<1>7. s = Served(c) /\ g = Failed(c) /\ e = Silent(c) /\ u = Stumbled(c)
  BY <1>3, <1>4, <1>5, <1>6, <1>a, <1>b DEF Served, Failed, Silent, Stumbled
<1> HIDE DEF k, h
<1>c. k \in {"add", "search"} /\ h \in Health /\ Honest(h) /\ h = health[c]
  BY <1>1 DEF k, h
<1>8. s \in Health /\ Ops(s) = Ops(h) + 1 /\ s.n_errors = h.n_errors /\ Honest(s)
  BY <1>c, <1>3, ServedFacts
<1>9. f \in Health /\ Ops(f) = Ops(h) + 1 /\ f.n_errors = h.n_errors + 1
  BY <1>c, <1>4, RefusedFacts
<1>10. g \in Health /\ Ops(g) = Ops(f) /\ g.n_errors = f.n_errors + 1 /\ Honest(g) /\ ~g.healthy
  BY <1>9, <1>5, ErrorFacts
<1>11. e \in Health /\ Ops(e) = Ops(s) /\ e.n_errors = s.n_errors + 1 /\ Honest(e) /\ ~e.healthy
  BY <1>8, <1>6, ErrorFacts
<1>12. t \in Health /\ Ops(t) = Ops(s) + 1 /\ t.n_errors = s.n_errors + 1
  BY <1>c, <1>8, <1>a, RefusedFacts
<1>13. u \in Health /\ Ops(u) = Ops(t) /\ u.n_errors = t.n_errors + 1 /\ Honest(u) /\ ~u.healthy
  BY <1>12, <1>b, ErrorFacts
<1>14. Outcome(h, s) /\ Outcome(h, g) /\ Outcome(h, e) /\ Outcome(h, u)
  BY <1>2, <1>c, <1>8, <1>9, <1>10, <1>11, <1>12, <1>13 DEF Outcome
<1>15. Flagged(h, g) /\ Flagged(h, e) /\ Flagged(h, u)
  BY <1>2, <1>c, <1>8, <1>9, <1>10, <1>11, <1>12, <1>13 DEF Flagged
<1>16. QED
  BY <1>c, <1>7, <1>14, <1>15

(* A step of one client keeps the invariant of the others. *)
LEMMA OthersKept ==
    ASSUME IInv, NEW c \in Clients, Domains', Containers', ClientInv(c)', LeavesOthers(c)
    PROVE  IInv'
<1>1. ASSUME NEW d \in Clients, d # c PROVE ClientInv(d)'
  BY <1>1 DEF IInv, ClientInv, LeavesOthers
<1>2. QED
  BY <1>1 DEF IInv

(* An agent is made: the server stays well typed. *)
LEMMA NewAgentFacts ==
    ASSUME Server, NEW s \in Scopes, NewAgent(s)
    PROVE  /\ made' \in 0..MaxAgents /\ made' = made + 1
           /\ named' \in [Agents -> Scopes \cup {None}]
           /\ \A a \in Agents : a > made' => named'[a] = None
           /\ 1..made \subseteq 1..made' /\ made + 1 \in 1..made'
<1>1. made \in Nat /\ MaxAgents \in Nat /\ made < MaxAgents
  BY RemoteAssumption DEF Server, NewAgent
<1>2. made + 1 \in 0..MaxAgents
  BY <1>1
<1>3. made' = made + 1 /\ named' \in [Agents -> Scopes \cup {None}]
  BY DEF Server, NewAgent
<1>4. ASSUME NEW a \in Agents, a > made' PROVE named'[a] = None
  <2>1. a > made /\ a # made + 1
    BY <1>1, <1>3, <1>4 DEF Agents
  <2>2. QED
    BY <2>1 DEF Server, NewAgent
<1>5. 1..made \subseteq 1..made' /\ made + 1 \in 1..made'
  BY <1>1, <1>3
<1>6. QED
  BY <1>2, <1>3, <1>4, <1>5

(* A creation goes astray: so it does. *)
LEMMA LosesAnswerFacts ==
    ASSUME Server, NEW s \in Scopes, LosesAnswer(s)
    PROVE  Server' /\ made' = made
<1>1. /\ late[s] \in Nat /\ strays[s] \in Nat /\ late[s] <= strays[s]
      /\ late' = [late EXCEPT ![s] = late[s] + 1]
      /\ strays' = [strays EXCEPT ![s] = strays[s] + 1]
  BY DEF Server, LosesAnswer
<1>2. late' \in [Scopes -> Nat] /\ strays' \in [Scopes -> Nat]
  BY <1>1 DEF Server
<1>3. ASSUME NEW t \in Scopes PROVE late'[t] <= strays'[t]
  BY <1>1 DEF Server
<1>4. QED
  BY <1>2, <1>3 DEF Server, LosesAnswer

(* So it does when a client stops waiting. *)
LEMMA AbandonsFacts ==
    ASSUME IInv, NEW c \in Clients, Abandons(c)
    PROVE  Server' /\ made' = made
<1>1. CASE pc[c] = "create" /\ LosesAnswer(call[c].scope)
  <2>1. call[c].scope \in Scopes
    BY <1>1, CallParts DEF IInv, ClientInv, InCall
  <2>2. QED
    BY <1>1, <2>1, LosesAnswerFacts DEF IInv, Containers
<1>2. CASE UNCHANGED server
  BY <1>2 DEF server, IInv, Containers, Server
<1>3. QED
  BY <1>1, <1>2 DEF Abandons

(* A call that returns keeps the invariant.                                *)
LEMMA ReturnStep ==
    ASSUME IInv, NEW c \in Clients, pc[c] \in InCall, NEW r,
           NEW h \in {Served(c), Failed(c), Silent(c), Stumbled(c)}, Returns(c, h, r),
           Abandons(c) \/ UNCHANGED server,
           UNCHANGED <<kind, place, calls, opens>>
    PROVE  IInv'
<1>1. Domains' /\ ClientInv(c)' /\ LeavesOthers(c)
  BY Outcomes, ReturnsFacts
<1>2. Server' /\ made' = made
  BY AbandonsFacts DEF Abandons
<1>3. Containers'
  BY <1>2 DEF IInv, Containers
<1>4. QED
  BY <1>1, <1>3, OthersKept

(* Every step keeps the invariant.                                         *)
LEMMA InvStep == IInv /\ [Next]_vars => IInv'
<1> SUFFICES ASSUME IInv, [Next]_vars PROVE IInv'
  OBVIOUS
<1>a. CASE UNCHANGED vars
  BY <1>a DEF vars, server, IInv, Domains, Containers, Server, ClientInv
<1>b. ASSUME NEW c \in Clients
      PROVE  ClientInv(c) /\ Domains /\ Containers
  BY DEF IInv
<1>1. ASSUME NEW c \in Clients, Open(c) PROVE IInv'
  <2>1. PICK ok \in BOOLEAN : health' = [health EXCEPT ![c].healthy = ok, ![c].error_message = ~ok]
    BY <1>1 DEF Open
  <2>2. pc[c] = "off" /\ health[c] = FreshHealth /\ calls[c] = 0
    BY <1>1, <1>b DEF Open, ClientInv
  <2>3. PICK h : h = [FreshHealth EXCEPT !.healthy = ok, !.error_message = ~ok]
    OBVIOUS
  <2>4. health' = [health EXCEPT ![c] = h]
    BY <2>1, <2>2, <2>3, <1>b DEF Domains
  <2>5. h \in Health /\ Honest(h) /\ Ops(h) = 0
    BY <2>3, FreshFacts
  <2>6. Domains'
    BY <1>1, <1>b, <2>4, <2>5 DEF Open, Domains, InCall
  <2>7. opens' \in 0..MaxOpens
    <3>1. opens \in 0..MaxOpens /\ opens < MaxOpens /\ MaxOpens \in Nat
      BY <1>1, <1>b, RemoteAssumption DEF Open, Containers
    <3>2. opens + 1 \in 0..MaxOpens
      BY <3>1
    <3>3. QED
      BY <1>1, <3>2 DEF Open
  <2>8. Containers'
    BY <1>1, <1>b, <2>7 DEF Open, Containers, Server, server
  <2>9. pc'[c] = "idle" /\ health'[c] = h /\ calls'[c] = 0 /\ UNCHANGED <<empty, call>>
    BY <1>1, <1>b, <2>2, <2>4 DEF Open, Domains
  <2>10. ClientInv(c)'
    BY <1>b, <2>2, <2>5, <2>6, <2>9 DEF ClientInv, Domains, InCall
  <2>11. LeavesOthers(c)
    BY <1>1, <1>b, <2>4 DEF Open, Domains, LeavesOthers
  <2>12. QED
    BY <2>6, <2>8, <2>10, <2>11, OthersKept
<1>2. ASSUME NEW c \in Clients, Close(c) PROVE IInv'
  <2>a. 0 \in 0..MaxCalls
    BY RemoteAssumption
  <2>1. Domains'
    BY <1>2, <1>b, <2>a, FreshFacts DEF Close, Domains, InCall
  <2>2. /\ pc'[c] = "off" /\ health'[c] = FreshHealth /\ calls'[c] = 0
        /\ call'[c] = None /\ ~empty'[c]
    BY <1>2, <1>b DEF Close, Domains
  <2>3. ClientInv(c)'
    BY <2>1, <2>2 DEF ClientInv, Domains, InCall
  <2>4. LeavesOthers(c)
    BY <1>2, <1>b DEF Close, Domains, LeavesOthers
  <2>5. Containers'
    BY <1>2, <1>b, AbandonsFacts DEF Close, Containers
  <2>6. QED
    BY <2>1, <2>3, <2>4, <2>5, OthersKept
<1>c. ASSUME NEW c \in Clients, calls[c] < MaxCalls PROVE calls[c] + 1 \in 0..MaxCalls
  <2>1. calls[c] \in 0..MaxCalls /\ MaxCalls \in Nat
    BY <1>b, RemoteAssumption DEF Domains
  <2>2. QED
    BY <1>c, <2>1
<1>3. ASSUME NEW c \in Clients, Begin(c) PROVE IInv'
  <2>1. calls' = [calls EXCEPT ![c] = calls[c] + 1] /\ calls[c] + 1 \in 0..MaxCalls
    BY <1>3, <1>c DEF Begin
  <2>2. PICK new \in Call : call' = [call EXCEPT ![c] = new]
    BY <1>3 DEF Begin
  <2>3. pc'[c] \in {"resolve", "request"} /\ \A d \in Clients \ {c} : pc'[d] = pc[d]
    BY <1>3, <1>b DEF Begin, Domains
  <2>4. Domains'
    BY <1>3, <1>b, <2>1, <2>2 DEF Begin, Domains, InCall
  <2>5. ClientInv(c)'
    <3>1. Ops(health[c]) = calls[c] /\ pc[c] = "idle" /\ Honest(health[c]) /\ health[c].healthy
      BY <1>3, <1>b DEF Begin, ClientInv
    <3>2. health'[c] = health[c] /\ calls'[c] = calls[c] + 1 /\ call'[c] \in Call
      BY <1>3, <1>b, <2>1, <2>2 DEF Begin, Domains
    <3>3. QED
      BY <2>3, <2>4, <3>1, <3>2 DEF ClientInv, Domains, InCall
  <2>6. LeavesOthers(c)
    BY <1>3, <1>b, <2>1, <2>2, <2>3 DEF Begin, Domains, LeavesOthers
  <2>7. Containers'
    BY <1>3, <1>b DEF Begin, Containers, Server, server
  <2>8. QED
    BY <2>4, <2>5, <2>6, <2>7, OthersKept
<1>4. ASSUME NEW c \in Clients, Refuse(c) PROVE IInv'
  <2>1. PICK op \in {"add", "search"} :
           /\ health' = [health EXCEPT ![c] = RecordOp(health[c], op, TRUE)]
           /\ \E e \in BOOLEAN : empty' = [empty EXCEPT ![c] = e]
    BY <1>4 DEF Refuse
  <2>2. PICK h : h = RecordOp(health[c], op, TRUE)
    OBVIOUS
  <2>3. h \in Health /\ Ops(h) = Ops(health[c]) + 1 /\ Honest(h) /\ ~h.healthy
    <3>1. PICK g : g = health[c]
      OBVIOUS
    <3>2. g \in Health /\ Honest(g) /\ ~g.healthy
      BY <1>4, <1>b, <3>1 DEF Refuse, ClientInv
    <3>3. h = RecordOp(g, op, TRUE)
      BY <2>2, <3>1
    <3>4. h \in Health /\ Ops(h) = Ops(g) + 1 /\ Honest(h) /\ ~h.healthy
      BY <3>2, <3>3, RefusedFacts
    <3>5. QED
      BY <3>1, <3>4
  <2>4. health' = [health EXCEPT ![c] = h]
    BY <2>1, <2>2
  <2>5. calls' = [calls EXCEPT ![c] = calls[c] + 1] /\ calls[c] + 1 \in 0..MaxCalls
    BY <1>4, <1>c DEF Refuse
  <2>6. Domains'
    <3>1. pc' = pc /\ call' = call
      BY <1>4 DEF Refuse
    <3>2. health' \in [Clients -> Health] /\ calls' \in [Clients -> 0..MaxCalls]
      BY <1>b, <2>3, <2>4, <2>5 DEF Domains
    <3>3. empty' \in [Clients -> BOOLEAN]
      BY <1>b, <2>1 DEF Domains
    <3>4. QED
      BY <1>b, <3>1, <3>2, <3>3 DEF Domains
  <2>7. ClientInv(c)'
    <3>1. pc'[c] = "idle" /\ (Ops(health[c]) = calls[c] \/ Ops(health[c]) = calls[c] + 1)
      BY <1>4, <1>b DEF Refuse, ClientInv
    <3>2. health'[c] = h /\ calls'[c] = calls[c] + 1 /\ call'[c] = None
      BY <1>4, <1>b, <2>4, <2>5 DEF Refuse, Domains, ClientInv, InCall
    <3>3. QED
      BY <2>3, <2>6, <3>1, <3>2 DEF ClientInv, Domains, InCall
  <2>8. LeavesOthers(c)
    BY <1>4, <1>b, <2>1, <2>4, <2>5 DEF Refuse, Domains, LeavesOthers
  <2>9. Containers'
    BY <1>4, <1>b DEF Refuse, Containers, Server, server
  <2>10. QED
    BY <2>6, <2>7, <2>8, <2>9, OthersKept
<1>5. ASSUME NEW c \in Clients, AddEmpty(c) PROVE IInv'
  BY <1>5, ReturnStep DEF AddEmpty, InCall
<1>6. ASSUME NEW c \in Clients, ResolveFails(c) PROVE IInv'
  BY <1>6, ReturnStep DEF ResolveFails, InCall
<1>7. ASSUME NEW c \in Clients, RequestServed(c) PROVE IInv'
  BY <1>7, ReturnStep DEF RequestServed, InCall
<1>8. ASSUME NEW c \in Clients, NoIds(c) PROVE IInv'
  BY <1>8, ReturnStep DEF NoIds, InCall, Silent
<1>9. ASSUME NEW c \in Clients, RequestFails(c) PROVE IInv'
  BY <1>9, ReturnStep DEF RequestFails, InCall
<1>e. ASSUME NEW c \in Clients, RequestMisread(c) PROVE IInv'
  BY <1>e, ReturnStep DEF RequestMisread, InCall
<1>d. ASSUME NEW c \in Clients, NEW v \in InCall, pc[c] \in InCall, pc' = [pc EXCEPT ![c] = v],
             UNCHANGED <<call, empty, health, calls>>
      PROVE  Domains' /\ ClientInv(c)' /\ LeavesOthers(c)
  <2>1. Domains'
    BY <1>b, <1>d DEF Domains, InCall
  <2>2. pc'[c] = v
    BY <1>b, <1>d DEF Domains
  <2>3. ClientInv(c)'
    BY <1>b, <1>d, <2>1, <2>2 DEF ClientInv, Domains, InCall
  <2>4. QED
    BY <1>b, <1>d, <2>1, <2>3 DEF LeavesOthers, Domains
<1>10. ASSUME NEW c \in Clients, FindAgent(c) PROVE IInv'
  <2>1. Domains' /\ ClientInv(c)' /\ LeavesOthers(c)
    BY <1>10, <1>d DEF FindAgent, InCall
  <2>2. PICK a \in AgentsOf(call[c].scope) : place' = [place EXCEPT ![c] = a]
    BY <1>10 DEF FindAgent
  <2>3. a \in 1..made
    <3>1. call[c].scope \in Scopes /\ call[c].scope # None
      BY <1>10, <1>b, CallParts, RemoteAssumption DEF ClientInv, FindAgent, InCall
    <3>2. a \in Agents /\ named[a] # None
      BY <2>2, <3>1 DEF AgentsOf
    <3>3. a <= made
      BY <1>b, <3>2 DEF Containers, Server, Agents
    <3>4. QED
      BY <3>2, <3>3, <1>b DEF Agents, Containers, Server
  <2>4. Containers'
    BY <1>10, <1>b, <2>2, <2>3 DEF FindAgent, Containers, Server, server
  <2>5. QED
    BY <2>1, <2>4, OthersKept
<1>11. ASSUME NEW c \in Clients, FindNone(c) PROVE IInv'
  <2>1. Domains' /\ ClientInv(c)' /\ LeavesOthers(c)
    BY <1>11, <1>d DEF FindNone, InCall
  <2>2. Containers'
    BY <1>11, <1>b DEF FindNone, Containers, Server, server
  <2>3. QED
    BY <2>1, <2>2, OthersKept
<1>12. ASSUME NEW c \in Clients, CreateAgent(c) PROVE IInv'
  <2>1. Domains' /\ ClientInv(c)' /\ LeavesOthers(c)
    BY <1>12, <1>d DEF CreateAgent, InCall
  <2>2. call[c].scope \in Scopes
    BY <1>12, <1>b, CallParts DEF CreateAgent, ClientInv, InCall
  <2>3. /\ made' \in 0..MaxAgents /\ named' \in [Agents -> Scopes \cup {None}]
        /\ \A a \in Agents : a > made' => named'[a] = None
        /\ 1..made \subseteq 1..made' /\ made + 1 \in 1..made'
    BY <1>12, <1>b, <2>2, NewAgentFacts DEF CreateAgent, Containers
  <2>4. Containers'
    BY <1>12, <1>b, <2>3 DEF CreateAgent, Containers, Server
  <2>5. QED
    BY <2>1, <2>4, OthersKept
<1>f. ASSUME NEW c \in Clients, RetryCreation(c) PROVE IInv'
  <2>1. call[c].scope \in Scopes
    BY <1>f, <1>b, CallParts DEF RetryCreation, ClientInv, InCall
  <2>2. Server' /\ made' = made
    BY <1>f, <1>b, <2>1, LosesAnswerFacts DEF RetryCreation, Containers
  <2>3. QED
    BY <1>f, <2>2 DEF RetryCreation, IInv, Domains, ClientInv, Containers
<1>g. ASSUME NEW s \in Scopes, ServeLate(s) PROVE IInv'
  <2>1. /\ made' \in 0..MaxAgents /\ named' \in [Agents -> Scopes \cup {None}]
        /\ \A a \in Agents : a > made' => named'[a] = None
        /\ 1..made \subseteq 1..made'
    BY <1>g, NewAgentFacts DEF ServeLate, IInv, Containers
  <2>2. /\ late[s] \in Nat /\ late[s] > 0 /\ late' = [late EXCEPT ![s] = late[s] - 1]
        /\ strays' = strays
    BY <1>g DEF ServeLate, IInv, Containers, Server
  <2>3. late' \in [Scopes -> Nat]
    BY <2>2 DEF IInv, Containers, Server
  <2>4. ASSUME NEW t \in Scopes PROVE late'[t] <= strays'[t]
    BY <2>2 DEF IInv, Containers, Server
  <2>5. Server'
    BY <2>1, <2>2, <2>3, <2>4 DEF IInv, Containers, Server
  <2>6. QED
    BY <1>g, <2>1, <2>5 DEF ServeLate, IInv, Domains, ClientInv, Containers
<1>13. ASSUME NEW c \in Clients, EnsureBank(c) PROVE IInv'
  <2>1. Domains' /\ ClientInv(c)' /\ LeavesOthers(c)
    BY <1>13, <1>d DEF EnsureBank, InCall
  <2>2. Containers'
    BY <1>13, <1>b, RemoteAssumption DEF EnsureBank, Containers, Server, server
  <2>3. QED
    BY <2>1, <2>2, OthersKept
<1>14. ASSUME NEW c \in Clients, Clear(c) PROVE IInv'
  <2>1. UNCHANGED <<pc, call, empty, health, calls>>
    BY <1>14 DEF Clear
  <2>2. Containers'
    BY <1>14, <1>b DEF Clear, Containers, Server
  <2>3. QED
    BY <2>1, <2>2 DEF IInv, Domains, ClientInv
<1>15. QED
  BY <1>a, <1>1, <1>2, <1>3, <1>4, <1>5, <1>6, <1>7, <1>8, <1>9, <1>10, <1>11, <1>12, <1>13, <1>14,
     <1>e, <1>f, <1>g DEF Next

(* The invariant holds throughout.                                         *)
LEMMA Invariant == Spec => []IInv
  BY InvInit, InvStep, PTL DEF Spec

(* Every reachable state is well typed. *)
THEOREM TypeCorrect == Spec => []TypeOK
<1>1. IInv => TypeOK
  BY DEF IInv, Domains, Containers, Server, TypeOK, InCall
<1>2. QED
  BY <1>1, Invariant, PTL

(***************************************************************************)
(* The health flag is honest, whatever fails and whenever.                 *)
(***************************************************************************)
THEOREM HealthIsAlwaysHonest == Spec => []HealthIsHonest
<1>1. IInv => HealthIsHonest
  BY DEF IInv, ClientInv, HealthIsHonest, Running, Honest
<1>2. QED
  BY <1>1, Invariant, PTL

(***************************************************************************)
(* Every call is counted, and none twice but the one that made the backend *)
(* unhealthy because its answer could not be read.                         *)
(***************************************************************************)
THEOREM CallsCounted == Spec => []EveryCallCounted
<1>1. ASSUME IInv, NEW c \in Running
      PROVE  LET counted == health[c].n_adds + health[c].n_searches
                              + (IF pc[c] = "idle" THEN 0 ELSE 1)
             IN  /\ calls[c] <= counted
                 /\ counted <= (IF health[c].healthy THEN calls[c] ELSE calls[c] + 1)
  <2>1. c \in Clients /\ pc[c] # "off" /\ ClientInv(c)
    BY <1>1 DEF IInv, Running
  <2>2. /\ calls[c] \in Int /\ Ops(health[c]) \in Int
        /\ Ops(health[c]) = health[c].n_adds + health[c].n_searches
    BY <2>1 DEF ClientInv, Health, Ops
  <2>3. CASE pc[c] = "idle"
    BY <2>1, <2>2, <2>3 DEF ClientInv
  <2>4. CASE pc[c] \in InCall
    <3>1. Ops(health[c]) + 1 = calls[c] /\ pc[c] # "idle"
      BY <2>1, <2>4 DEF ClientInv, InCall
    <3>2. QED
      BY <2>2, <3>1
  <2>5. QED
    BY <2>1, <2>3, <2>4 DEF ClientInv
<1>2. IInv => EveryCallCounted
  BY <1>1 DEF EveryCallCounted
<1>3. QED
  BY <1>2, Invariant, PTL

(***************************************************************************)
(* An add of substantive text that comes back empty has counted an error   *)
(* and left the backend unhealthy.                                         *)
(***************************************************************************)
THEOREM NoSilentAdd == Spec => EmptyHandedIsCounted
<1> DEFINE Empty(c) == call[c] # None /\ pc'[c] = "idle" /\ empty'[c]
           Loud(c) == health'[c].n_errors > health[c].n_errors /\ ~health'[c].healthy
<1>1. ASSUME IInv, [Next]_vars, NEW c \in Clients, Empty(c)
      PROVE  Loud(c)
  <2>1. pc[c] \in InCall /\ pc \in [Clients -> {"off", "idle"} \cup InCall]
        /\ health \in [Clients -> Health] /\ empty \in [Clients -> BOOLEAN]
    BY <1>1 DEF IInv, ClientInv, Domains
  <2>2. ASSUME NEW d \in Clients, Open(d) \/ Close(d) \/ Begin(d) \/ Refuse(d) \/ FindAgent(d)
                 \/ FindNone(d) \/ CreateAgent(d) \/ RetryCreation(d) \/ EnsureBank(d) \/ Clear(d)
        PROVE  FALSE
    BY <1>1, <2>1, <2>2 DEF Open, Close, Begin, Refuse, FindAgent, FindNone, CreateAgent,
                            RetryCreation, EnsureBank, Clear, InCall
  <2>3. CASE UNCHANGED vars
    BY <1>1, <2>1, <2>3 DEF vars, InCall
  <2>a. CASE \E s \in Scopes : ServeLate(s)
    BY <1>1, <2>1, <2>a DEF ServeLate, InCall
  <2>4. ASSUME NEW d \in Clients, NEW h, NEW r, Returns(d, h, r)
        PROVE  d = c /\ r = "nothing" /\ call[c].op = "add" /\ call[c].text = "substantive"
               /\ health'[c] = h
    BY <1>1, <2>1, <2>4 DEF Returns, InCall
  <2>5. ASSUME NEW d \in Clients, AddEmpty(d) PROVE FALSE
    BY <1>1, <2>4, <2>5 DEF AddEmpty, NothingToSend
  <2>6. ASSUME NEW d \in Clients, RequestServed(d) PROVE FALSE
    BY <2>4, <2>6 DEF RequestServed
  <2>7. ASSUME NEW d \in Clients, ResolveFails(d) \/ RequestFails(d) \/ RequestMisread(d)
        PROVE  Loud(c)
    BY <1>1, <2>1, <2>4, <2>7, Outcomes DEF ResolveFails, RequestFails, RequestMisread, Flagged
  <2>8. ASSUME NEW d \in Clients, NoIds(d)
        PROVE  Loud(c)
    <3>1. d = c /\ health'[c] = Silent(c)
      BY <1>1, <2>4, <2>8 DEF NoIds, Silent
    <3>2. QED
      BY <1>1, <2>1, <3>1, Outcomes DEF Flagged
  <2>9. QED
    BY <1>1, <2>2, <2>3, <2>a, <2>5, <2>6, <2>7, <2>8 DEF Next
<1>2. IInv /\ [Next]_vars => [\A c \in Clients : Empty(c) => Loud(c)]_vars
  BY <1>1
<1> HIDE DEF Empty, Loud
<1>3. Spec => [][\A c \in Clients : Empty(c) => Loud(c)]_vars
  BY <1>2, Invariant, PTL DEF Spec
<1>4. QED
  BY <1>3 DEF EmptyHandedIsCounted, Empty, Loud

-----------------------------------------------------------------------------
(* The race of two look-ups: agents made, about to be made, and on their   *)
(* way to be made.                                                         *)

Creating(s) == {c \in Clients : pc[c] = "create" /\ call[c].scope = s}

Calm(s) == late'[s] = late[s] /\ strays'[s] = strays[s]

Shrinks(s) == AgentsOf(s)' \subseteq AgentsOf(s) /\ Creating(s)' \subseteq Creating(s) /\ Calm(s)

Empties(s) == AgentsOf(s)' = {} /\ Calm(s)

Trades(s) == \E a, c : /\ AgentsOf(s)' \subseteq AgentsOf(s) \cup {a}
                       /\ c \in Creating(s)
                       /\ Creating(s)' \subseteq Creating(s) \ {c}
                       /\ Calm(s)

GoesAstray(s) == /\ AgentsOf(s)' = AgentsOf(s)
                 /\ Creating(s)' \subseteq Creating(s)
                 /\ late'[s] = late[s] + 1
                 /\ strays'[s] = strays[s] + 1

Arrives(s) == /\ \E a : AgentsOf(s)' \subseteq AgentsOf(s) \cup {a}
              /\ Creating(s)' = Creating(s)
              /\ late'[s] = late[s] - 1
              /\ strays'[s] = strays[s]

(* The sets that are counted are finite.                                   *)
LEMMA FiniteCounts ==
    ASSUME NEW A \in SUBSET Agents, NEW C \in SUBSET Clients
    PROVE  /\ IsFiniteSet(A) /\ IsFiniteSet(C)
           /\ Cardinality(C) <= Cardinality(Clients)
           /\ Cardinality(A) \in Nat /\ Cardinality(C) \in Nat
           /\ Cardinality(Clients) \in Nat
<1>1. IsFiniteSet(Agents)
  BY RemoteAssumption, FS_Interval DEF Agents
<1>2. QED
  BY <1>1, RemoteAssumption, FS_Subset, FS_CardinalityType

(* One more element makes a finite set larger by one at most.              *)
LEMMA OneMore ==
    ASSUME NEW A, NEW B, NEW a, IsFiniteSet(A), B \subseteq A \cup {a}
    PROVE  Cardinality(B) <= Cardinality(A) + 1
<1>1. /\ IsFiniteSet(A \cup {a})
      /\ Cardinality(A \cup {a}) \in {Cardinality(A), Cardinality(A) + 1}
      /\ Cardinality(A) \in Nat
  BY FS_AddElement, FS_CardinalityType
<1>2. Cardinality(B) <= Cardinality(A \cup {a}) /\ Cardinality(B) \in Nat
  BY <1>1, FS_Subset, FS_CardinalityType
<1>3. QED
  BY <1>1, <1>2

(* An agent made for scope t is one more for t and none for another scope. *)
LEMMA NewAgentAdds ==
    ASSUME Server, NEW s \in Scopes, NEW t \in Scopes, NewAgent(t)
    PROVE  \E a : AgentsOf(s)' \subseteq AgentsOf(s) \cup (IF t = s THEN {a} ELSE {})
<1>1. ASSUME NEW a \in AgentsOf(s)', a # made + 1 PROVE a \in AgentsOf(s)
  BY <1>1 DEF AgentsOf, NewAgent, Server
<1>2. ASSUME made + 1 \in AgentsOf(s)' PROVE t = s
  BY <1>2 DEF AgentsOf, NewAgent, Server
<1>3. QED
  BY <1>1, <1>2

(* A creation for scope t that goes astray is counted for t.               *)
LEMMA AstrayCounted ==
    ASSUME Server, NEW s \in Scopes, NEW t \in Scopes, LosesAnswer(t),
           Creating(s)' \subseteq Creating(s)
    PROVE  Shrinks(s) \/ GoesAstray(s)
<1>1. AgentsOf(s)' = AgentsOf(s)
  BY DEF LosesAnswer, AgentsOf
<1>2. /\ late' = [late EXCEPT ![t] = late[t] + 1]
      /\ strays' = [strays EXCEPT ![t] = strays[t] + 1]
      /\ late \in [Scopes -> Nat] /\ strays \in [Scopes -> Nat]
  BY DEF Server, LosesAnswer
<1>3. CASE t = s
  BY <1>1, <1>2, <1>3 DEF GoesAstray
<1>4. CASE t # s
  BY <1>1, <1>2, <1>4 DEF Shrinks, Calm
<1>5. QED
  BY <1>3, <1>4

(* A step makes the sets smaller, empties the first, turns a client about  *)
(* to create an agent into an agent, sends a creation astray or has one    *)
(* arrive.                                                                 *)
LEMMA CountStep ==
    ASSUME IInv, [Next]_vars, NEW s \in Scopes
    PROVE  Shrinks(s) \/ Trades(s) \/ Empties(s) \/ GoesAstray(s) \/ Arrives(s)
<1>a. pc \in [Clients -> {"off", "idle"} \cup InCall] /\ call \in [Clients -> Call \cup {None}]
      /\ Server
  BY DEF IInv, Domains, Containers
<1>1. CASE UNCHANGED vars
  BY <1>1 DEF vars, server, Shrinks, Calm, AgentsOf, Creating
<1>2. ASSUME NEW c \in Clients, NEW v, v # "create", pc' = [pc EXCEPT ![c] = v],
             \A d \in Clients \ {c} : call'[d] = call[d]
      PROVE  Creating(s)' \subseteq Creating(s) \ {c}
  BY <1>a, <1>2 DEF Creating
<1>3. ASSUME UNCHANGED server, Creating(s)' \subseteq Creating(s)
      PROVE  Shrinks(s)
  BY <1>3 DEF Shrinks, Calm, AgentsOf, server
<1>b. ASSUME NEW c \in Clients, pc[c] = "create" PROVE call[c].scope \in Scopes
  BY <1>b, CallParts DEF IInv, ClientInv, InCall
<1>4. ASSUME NEW c \in Clients, Open(c) \/ Begin(c) \/ FindAgent(c) \/ EnsureBank(c)
      PROVE  Shrinks(s)
  <2>1. \E v : v # "create" /\ pc' = [pc EXCEPT ![c] = v]
    BY <1>4 DEF Open, Begin, FindAgent, EnsureBank
  <2>2. (\A d \in Clients \ {c} : call'[d] = call[d]) /\ UNCHANGED server
    BY <1>4, <1>a DEF Open, Begin, FindAgent, EnsureBank
  <2>3. QED
    BY <1>2, <1>3, <2>1, <2>2
<1>5. ASSUME NEW c \in Clients, Refuse(c) PROVE Shrinks(s)
  <2>1. UNCHANGED server /\ Creating(s)' = Creating(s)
    BY <1>5 DEF Refuse, Creating
  <2>2. QED
    BY <1>3, <2>1
<1>6. ASSUME NEW c \in Clients,
             \/ Close(c) \/ AddEmpty(c) \/ ResolveFails(c) \/ RequestServed(c) \/ NoIds(c)
             \/ RequestFails(c) \/ RequestMisread(c)
      PROVE  Shrinks(s) \/ GoesAstray(s)
  <2>1. \E v : v # "create" /\ pc' = [pc EXCEPT ![c] = v]
    BY <1>6 DEF Close, AddEmpty, ResolveFails, RequestServed, NoIds, RequestFails,
                RequestMisread, Returns
  <2>2. \A d \in Clients \ {c} : call'[d] = call[d]
    BY <1>6, <1>a DEF Close, AddEmpty, ResolveFails, RequestServed, NoIds, RequestFails,
                      RequestMisread, Returns
  <2>3. UNCHANGED server \/ (pc[c] = "create" /\ LosesAnswer(call[c].scope))
    BY <1>6 DEF Close, AddEmpty, ResolveFails, RequestServed, NoIds, RequestFails,
                RequestMisread, Abandons
  <2>4. Creating(s)' \subseteq Creating(s)
    BY <1>2, <2>1, <2>2
  <2>5. QED
    BY <1>a, <1>b, <1>3, <2>3, <2>4, AstrayCounted
<1>7. ASSUME NEW c \in Clients, FindNone(c) PROVE Shrinks(s) \/ Empties(s)
  <2>1. /\ AgentsOf(s)' = AgentsOf(s) /\ AgentsOf(call[c].scope) = {}
        /\ Calm(s)
    BY <1>7 DEF FindNone, AgentsOf, Calm, server
  <2>2. CASE call[c].scope = s
    BY <2>1, <2>2 DEF Empties
  <2>3. CASE call[c].scope # s
    <3>1. Creating(s)' \subseteq Creating(s)
      BY <1>7, <1>a, <2>3 DEF FindNone, Creating
    <3>2. QED
      BY <2>1, <3>1 DEF Shrinks
  <2>4. QED
    BY <2>2, <2>3
<1>8. ASSUME NEW c \in Clients, CreateAgent(c) PROVE Shrinks(s) \/ Trades(s)
  <2>1. pc[c] = "create" /\ pc' = [pc EXCEPT ![c] = "request"] /\ call' = call /\ Calm(s)
    BY <1>8 DEF CreateAgent, Calm
  <2>2. Creating(s)' \subseteq Creating(s) \ {c}
    BY <1>2, <2>1
  <2>3. \E a : AgentsOf(s)' \subseteq AgentsOf(s) \cup (IF call[c].scope = s THEN {a} ELSE {})
    BY <1>8, <1>a, <1>b, <2>1, NewAgentAdds DEF CreateAgent
  <2>4. CASE call[c].scope = s
    BY <2>1, <2>2, <2>3, <2>4 DEF Trades, Creating
  <2>5. CASE call[c].scope # s
    BY <2>1, <2>2, <2>3, <2>5 DEF Shrinks
  <2>6. QED
    BY <2>4, <2>5
<1>9. ASSUME NEW c \in Clients, RetryCreation(c) PROVE Shrinks(s) \/ GoesAstray(s)
  <2>1. Creating(s)' = Creating(s) /\ pc[c] = "create" /\ LosesAnswer(call[c].scope)
    BY <1>9 DEF RetryCreation, Creating
  <2>2. QED
    BY <1>a, <1>b, <2>1, AstrayCounted
<1>10. ASSUME NEW c \in Clients, Clear(c) PROVE Shrinks(s)
  <2>1. Creating(s)' = Creating(s) /\ Calm(s)
    BY <1>10 DEF Clear, Creating, Calm
  <2>2. AgentsOf(s)' \subseteq AgentsOf(s)
    BY <1>10, <1>a, RemoteAssumption DEF Clear, AgentsOf, Server
  <2>3. QED
    BY <2>1, <2>2 DEF Shrinks
<1>11. ASSUME NEW t \in Scopes, ServeLate(t) PROVE Shrinks(s) \/ Arrives(s)
  <2>1. /\ Creating(s)' = Creating(s)
        /\ late' = [late EXCEPT ![t] = late[t] - 1] /\ strays' = strays
        /\ late \in [Scopes -> Nat]
    BY <1>11, <1>a DEF ServeLate, Creating, Server
  <2>2. \E a : AgentsOf(s)' \subseteq AgentsOf(s) \cup (IF t = s THEN {a} ELSE {})
    BY <1>11, <1>a, NewAgentAdds DEF ServeLate
  <2>3. CASE t = s
    BY <2>1, <2>2, <2>3 DEF Arrives
  <2>4. CASE t # s
    BY <2>1, <2>2, <2>4 DEF Shrinks, Calm
  <2>5. QED
    BY <2>3, <2>4
<1>12. QED
  BY <1>1, <1>4, <1>5, <1>6, <1>7, <1>8, <1>9, <1>10, <1>11 DEF Next

(***************************************************************************)
(* Two look-ups may race and creations may arrive whenever they do, and    *)
(* still a scope has no more agents than there are clients and creations   *)
(* whose answer was lost.                                                  *)
(***************************************************************************)
THEOREM AgentsAreBounded == Spec => []AgentsBounded
<1> DEFINE Bound(s) == Cardinality(AgentsOf(s)) + Cardinality(Creating(s)) + late[s]
                         <= Cardinality(Clients) + strays[s]
<1>1. AgentsBounded <=> \A s \in Scopes : Bound(s)
  BY DEF AgentsBounded, Creating
<1>2. Init => \A s \in Scopes : Bound(s)
  <2> SUFFICES ASSUME Init, NEW s \in Scopes PROVE Bound(s)
    OBVIOUS
  <2>1. AgentsOf(s) = {} /\ Creating(s) = {} /\ late[s] = 0 /\ strays[s] = 0
    BY RemoteAssumption DEF Init, AgentsOf, Creating
  <2>2. Cardinality(Clients) \in Nat
    BY RemoteAssumption, FS_CardinalityType
  <2>3. QED
    BY <2>1, <2>2, FS_EmptySet
<1>3. ASSUME IInv, [Next]_vars, NEW s \in Scopes, Bound(s) PROVE Bound(s)'
  <2> DEFINE A == AgentsOf(s)
             C == Creating(s)
             n == Cardinality(Clients)
             l == late[s]
             y == strays[s]
  <2>1. /\ IsFiniteSet(A) /\ IsFiniteSet(C)
        /\ Cardinality(A) \in Nat /\ Cardinality(C) \in Nat /\ n \in Nat
        /\ l \in Nat /\ y \in Nat /\ l <= y
        /\ Cardinality(A) + Cardinality(C) + l <= n + y
    <3>1. A \in SUBSET Agents /\ C \in SUBSET Clients
      BY DEF AgentsOf, Creating
    <3>2. l \in Nat /\ y \in Nat /\ l <= y
      BY <1>3 DEF IInv, Containers, Server
    <3>3. QED
      BY <1>3, <3>1, <3>2, FiniteCounts
  <2>2. /\ IsFiniteSet(A') /\ IsFiniteSet(C') /\ Cardinality(C') <= n
        /\ Cardinality(A') \in Nat /\ Cardinality(C') \in Nat
    <3>1. A' \in SUBSET Agents /\ C' \in SUBSET Clients
      BY DEF AgentsOf, Creating
    <3>2. QED
      BY <3>1, FiniteCounts
  <2> HIDE DEF A, C, n, l, y
  <2>3. Cardinality(A') + Cardinality(C') + l' <= n + y'
    <3>1. CASE Shrinks(s)
      <4>1. Cardinality(A') <= Cardinality(A) /\ Cardinality(C') <= Cardinality(C)
        BY <2>1, <3>1, FS_Subset DEF Shrinks, A, C
      <4>2. l' = l /\ y' = y
        BY <3>1 DEF Shrinks, Calm, l, y
      <4>3. QED
        BY <2>1, <2>2, <4>1, <4>2
    <3>2. CASE Empties(s)
      <4>1. Cardinality(A') = 0
        BY <3>2, FS_EmptySet DEF Empties, A
      <4>2. l' = l /\ y' = y
        BY <3>2 DEF Empties, Calm, l, y
      <4>3. QED
        BY <2>1, <2>2, <4>1, <4>2
    <3>3. CASE Trades(s)
      <4>1. PICK a, c : A' \subseteq A \cup {a} /\ c \in C /\ C' \subseteq C \ {c}
        BY <3>3 DEF Trades, A, C
      <4>2. Cardinality(A') <= Cardinality(A) + 1
        BY <2>1, <4>1, OneMore
      <4>3. IsFiniteSet(C \ {c}) /\ Cardinality(C \ {c}) = Cardinality(C) - 1
        BY <2>1, <4>1, FS_RemoveElement
      <4>4. Cardinality(C') <= Cardinality(C \ {c})
        BY <4>1, <4>3, FS_Subset
      <4>5. l' = l /\ y' = y
        BY <3>3 DEF Trades, Calm, l, y
      <4>6. QED
        BY <2>1, <2>2, <4>2, <4>3, <4>4, <4>5
    <3>4. CASE GoesAstray(s)
      <4>1. Cardinality(C') <= Cardinality(C) /\ A' = A
        BY <2>1, <3>4, FS_Subset DEF GoesAstray, A, C
      <4>2. l' = l + 1 /\ y' = y + 1
        BY <3>4 DEF GoesAstray, l, y
      <4>3. QED
        BY <2>1, <2>2, <4>1, <4>2
    <3>5. CASE Arrives(s)
      <4>1. PICK a : A' \subseteq A \cup {a}
        BY <3>5 DEF Arrives, A
      <4>2. Cardinality(A') <= Cardinality(A) + 1
        BY <2>1, <4>1, OneMore
      <4>3. C' = C /\ l' = l - 1 /\ y' = y
        BY <3>5 DEF Arrives, C, l, y
      <4>4. QED
        BY <2>1, <2>2, <4>2, <4>3
    <3>6. QED
      BY <1>3, <3>1, <3>2, <3>3, <3>4, <3>5, CountStep
  <2>4. n' = n
    BY DEF n
  <2>5. QED
    BY <2>3, <2>4 DEF A, C, n, l, y
<1>4. IInv /\ AgentsBounded /\ [Next]_vars => AgentsBounded'
  BY <1>3 DEF AgentsBounded, Creating
<1>5. Init => AgentsBounded
  BY <1>1, <1>2
<1>6. QED
  BY <1>4, <1>5, Invariant, PTL DEF Spec

-----------------------------------------------------------------------------
(* RemoteBackends implements HealthContract.                               *)

\* The record h may become g in a call that counts n operations.
Honored(h, g, n) ==
    /\ Contract!Honest(h, g)
    /\ g.n_adds >= h.n_adds
    /\ g.n_searches >= h.n_searches
    /\ g.n_adds + g.n_searches = h.n_adds + h.n_searches + n

\* What recording one operation makes of h, with e errors.
Tallied(h, g, e) ==
    /\ g \in Health
    /\ g.n_errors = h.n_errors + e
    /\ g.n_adds >= h.n_adds
    /\ g.n_searches >= h.n_searches
    /\ g.n_adds + g.n_searches = h.n_adds + h.n_searches + 1
    /\ g.n_silent_extraction_failures = h.n_silent_extraction_failures
    /\ g.healthy = h.healthy
    /\ g.error_message = h.error_message
    /\ g.last_error = h.last_error

(* An operation that is recorded is counted, and all else stays as it was. *)
LEMMA OpRecorded ==
    ASSUME NEW h \in Health, NEW k \in {"add", "search"}
    PROVE  Tallied(h, RecordOp(h, k, FALSE), 0) /\ Tallied(h, RecordOp(h, k, TRUE), 1)
<1> DEFINE s == IF k = "search" THEN h.n_searches + 1 ELSE h.n_searches
           a == IF k = "add" THEN h.n_adds + 1 ELSE h.n_adds
           n == h.n_errors + 1
<1>1. /\ s \in Nat /\ a \in Nat /\ n \in Nat
      /\ a >= h.n_adds /\ s >= h.n_searches
      /\ a + s = h.n_adds + h.n_searches + 1
      /\ n = h.n_errors + 1 /\ h.n_errors = h.n_errors + 0
  BY DEF Health
<1>2. /\ RecordOp(h, k, FALSE) = [h EXCEPT !.n_searches = s, !.n_adds = a]
      /\ RecordOp(h, k, TRUE) = [h EXCEPT !.n_searches = s, !.n_adds = a, !.n_errors = n]
  BY DEF RecordOp, Health
<1> HIDE DEF s, a, n
<1>3. Tallied(h, RecordOp(h, k, FALSE), 0)
  BY <1>1, <1>2 DEF Health, Tallied
<1>4. Tallied(h, RecordOp(h, k, TRUE), 1)
  BY <1>1, <1>2 DEF Health, Tallied
<1>5. QED
  BY <1>3, <1>4

(* Nothing but the counts of calls and memories changes, or an unhealthy   *)
(* backend refuses: the contract is honored.                               *)
LEMMA HonoredQuietly ==
    ASSUME NEW h \in Health, NEW g \in Health, NEW n \in Nat,
           g.n_adds >= h.n_adds, g.n_searches >= h.n_searches,
           g.n_adds + g.n_searches = h.n_adds + h.n_searches + n,
           g.n_silent_extraction_failures = h.n_silent_extraction_failures,
           g.healthy = h.healthy,
           g.error_message = h.error_message,
           h.last_error => g.last_error,
           g.n_errors = h.n_errors \/ (~h.healthy /\ g.n_errors >= h.n_errors)
    PROVE  Honored(h, g, n)
BY DEF Honored, Contract!Honest, Contract!Health, Health

(* So does an operation that is recorded, with an error only when refused. *)
LEMMA HonoredWithoutFailure ==
    ASSUME NEW h \in Health, NEW g, NEW e \in {0, 1}, Tallied(h, g, e), e = 0 \/ ~h.healthy
    PROVE  Honored(h, g, 1)
<1>1. g.n_errors = h.n_errors \/ (~h.healthy /\ g.n_errors >= h.n_errors)
  BY DEF Tallied, Health
<1>2. QED
  BY <1>1, HonoredQuietly DEF Tallied

(* An error that is recorded after the call was counted honors it.         *)
LEMMA HonoredWithError ==
    ASSUME NEW h \in Health, NEW k \in Health, NEW n \in Nat, NEW silent \in BOOLEAN,
           k.n_adds >= h.n_adds, k.n_searches >= h.n_searches,
           k.n_adds + k.n_searches = h.n_adds + h.n_searches + n,
           k.n_silent_extraction_failures = h.n_silent_extraction_failures,
           k.n_errors >= h.n_errors,
           NEW g, g = RecordError(k, silent)
    PROVE  Honored(h, g, n)
<1> DEFINE f == IF silent THEN k.n_silent_extraction_failures + 1
                          ELSE k.n_silent_extraction_failures
<1>1. /\ f \in Nat /\ k.n_errors + 1 \in Nat
      /\ h.n_silent_extraction_failures <= f
      /\ f - h.n_silent_extraction_failures <= (k.n_errors + 1) - h.n_errors
      /\ k.n_errors + 1 # h.n_errors
  BY DEF Health
<1>2. g = [k EXCEPT !.n_errors = k.n_errors + 1, !.last_error = TRUE, !.error_message = TRUE,
                    !.n_silent_extraction_failures = f, !.healthy = FALSE]
  BY DEF RecordError, Health
<1> HIDE DEF f
<1>3. g \in Health
  BY <1>1, <1>2 DEF Health
<1>4. /\ g.n_errors = k.n_errors + 1 /\ g.last_error = TRUE /\ g.error_message = TRUE
      /\ g.n_silent_extraction_failures = f /\ g.healthy = FALSE
      /\ g.n_adds = k.n_adds /\ g.n_searches = k.n_searches
  BY <1>2 DEF Health
<1>5. QED
  BY <1>1, <1>3, <1>4 DEF Honored, Contract!Honest, Contract!Health, Health

(* Every way a call ends counts it, and honors the contract. *)
LEMMA OutcomesHonored ==
    ASSUME NEW h \in Health, NEW k \in {"add", "search"}
    PROVE  /\ Honored(h, RecordOp(h, k, FALSE), 1)
           /\ ~h.healthy => Honored(h, RecordOp(h, k, TRUE), 1)
           /\ Honored(h, RecordError(RecordOp(h, k, TRUE), FALSE), 1)
           /\ Honored(h, RecordError(RecordOp(h, k, FALSE), TRUE), 1)
           /\ Honored(h, RecordError(RecordOp(RecordOp(h, k, FALSE), k, TRUE), FALSE), 2)
<1> DEFINE good == RecordOp(h, k, FALSE)
           bad == RecordOp(h, k, TRUE)
           worse == RecordOp(good, k, TRUE)
<1>1. Tallied(h, good, 0) /\ Tallied(h, bad, 1)
  BY OpRecorded
<1>a. Tallied(good, worse, 1)
  BY <1>1, OpRecorded DEF Tallied
<1> HIDE DEF good, bad, worse
<1>2. good \in Health /\ bad \in Health /\ worse \in Health
  BY <1>1, <1>a DEF Tallied
<1>b. Honored(h, RecordError(worse, FALSE), 2)
  <2>1. /\ worse.n_errors >= h.n_errors
        /\ worse.n_adds >= h.n_adds /\ worse.n_searches >= h.n_searches
        /\ worse.n_adds + worse.n_searches = h.n_adds + h.n_searches + 2
        /\ worse.n_silent_extraction_failures = h.n_silent_extraction_failures
    BY <1>1, <1>a DEF Tallied, Health
  <2>2. QED
    BY <1>2, <2>1, HonoredWithError
<1>3. bad.n_errors >= h.n_errors /\ good.n_errors >= h.n_errors
  BY <1>1 DEF Tallied, Health
<1>4. Honored(h, good, 1) /\ (~h.healthy => Honored(h, bad, 1))
  BY <1>1, HonoredWithoutFailure
<1>5. Honored(h, RecordError(bad, FALSE), 1) /\ Honored(h, RecordError(good, TRUE), 1)
  BY <1>1, <1>2, <1>3, HonoredWithError DEF Tallied
<1>6. QED
  BY <1>4, <1>5, <1>b DEF good, bad, worse

\* The objects there are, and those in a call.
On == {c \in Clients : pc[c] # "off"}
Busy == {c \in Clients : pc[c] \notin {"off", "idle"}}

\* No soft signals.
Quiet == [c \in Clients |-> 0]

(* A call that returns honors the contract if its record does.             *)
LEMMA ContractReturn ==
    ASSUME Domains, NEW c \in Clients, NEW h, NEW n \in {1, 2}, Honored(health[c], h, n),
           n = 2 => health[c].healthy /\ ~h.healthy,
           health' = [health EXCEPT ![c] = h],
           NEW e \in BOOLEAN, empty' = [empty EXCEPT ![c] = e],
           e => Flagged(health[c], h),
           pc' = [pc EXCEPT ![c] = "idle"],
           \/ pc[c] \in InCall /\ calls' = calls
           \/ pc[c] = "idle" /\ calls' = [calls EXCEPT ![c] = @ + 1]
    PROVE  Contract!Next
<1>1. /\ c \in On /\ On' = On
      /\ c \in Busy <=> pc[c] \in InCall
      /\ Busy' = Busy \ {c}
  BY DEF InCall, On, Busy, Domains
<1>2. health'[c] = h /\ health' = [health EXCEPT ![c] = health'[c]]
  BY DEF Domains
<1>3. Contract!Reports(c, n) /\ (n > 1 => Contract!LosesHealth(c))
  BY <1>2 DEF Contract!Reports, Contract!LosesHealth, Honored
<1>a. e => Contract!Loud(c)
  BY <1>2 DEF Contract!Loud, Flagged
<1>b. \E i \in {0, 1} : Quiet' = [Quiet EXCEPT ![c] = Quiet[c] + i]
  <2>1. Quiet' = [Quiet EXCEPT ![c] = Quiet[c] + 0]
    BY DEF Quiet
  <2>2. QED
    BY <2>1
<1>4. calls' = IF c \in Busy THEN calls ELSE [calls EXCEPT ![c] = @ + 1]
  BY <1>1 DEF InCall
<1>5. Contract!Return(c)
  <2>1. \E i \in {1, 2} : Contract!Reports(c, i) /\ (i > 1 => Contract!LosesHealth(c))
    BY <1>3
  <2>2. \E f \in BOOLEAN : empty' = [empty EXCEPT ![c] = f] /\ (f => Contract!Loud(c))
    BY <1>a
  <2>3. QED
    BY <1>1, <1>4, <1>b, <2>1, <2>2 DEF Contract!Return, On, Busy, Quiet
<1>6. QED
  BY <1>5 DEF Contract!Next

(* A step inside a call is a stutter.                                      *)
LEMMA ContractStutter ==
    ASSUME Domains, NEW c \in Clients,
           UNCHANGED <<health, calls, empty>>,
           \/ pc' = pc
           \/ pc[c] \in InCall /\ \E v \in InCall : pc' = [pc EXCEPT ![c] = v]
    PROVE  UNCHANGED Contract!vars
<1>1. On' = On /\ Busy' = Busy
  BY DEF Domains, On, Busy, InCall
<1>2. QED
  BY <1>1 DEF Contract!vars, On, Busy, Quiet

(* A fresh record is not yet that of a backend that has been started.      *)
LEMMA FreshNotStarted == FreshHealth \notin Contract!Started
<1> SUFFICES ASSUME NEW ok \in BOOLEAN,
                    FreshHealth = [Contract!FreshHealth EXCEPT !.healthy = ok, !.error_message = ~ok]
             PROVE  FALSE
  BY DEF Contract!Started
<1>1. FreshHealth.healthy = ok /\ FreshHealth.error_message = ~ok
  BY DEF Contract!FreshHealth
<1>2. QED
  BY <1>1 DEF FreshHealth

(* Every step of a client is one of the contract, or a stutter.            *)
LEMMA ContractStep == IInv /\ [Next]_vars => [Contract!Next]_(Contract!vars)
<1> SUFFICES ASSUME IInv, [Next]_vars PROVE Contract!Next \/ UNCHANGED Contract!vars
  OBVIOUS
<1>1. Domains /\ \A c \in Clients : ClientInv(c)
  BY DEF IInv
<1>2. ASSUME NEW c \in Clients, Open(c) PROVE Contract!Next
  <2>1. PICK ok \in BOOLEAN : health' = [health EXCEPT ![c].healthy = ok, ![c].error_message = ~ok]
    BY <1>2 DEF Open
  <2>2. pc[c] = "off" /\ health[c] = FreshHealth /\ UNCHANGED <<calls, empty>>
    BY <1>1, <1>2 DEF Open, ClientInv
  <2>3. PICK h : h = [FreshHealth EXCEPT !.healthy = ok, !.error_message = ~ok]
    OBVIOUS
  <2>4. health' = [health EXCEPT ![c] = h]
    BY <1>1, <2>1, <2>2, <2>3 DEF Domains
  <2>5. h \in Contract!Started
    BY <2>3 DEF Contract!Started, FreshHealth, Contract!FreshHealth
  <2>6. c \notin On /\ On' = On \cup {c} /\ Busy' = Busy
    BY <1>1, <1>2, <2>2 DEF Open, On, Busy, Domains
  <2>7. Contract!Open(c)
    BY <2>2, <2>4, <2>5, <2>6 DEF Contract!Open, On, Busy, Quiet
  <2>8. QED
    BY <2>7 DEF Contract!Next
<1>3. ASSUME NEW c \in Clients, Close(c) PROVE Contract!Next
  <2>1. /\ c \in On /\ On' = On \ {c}
        /\ Busy' = Busy \ {c}
    BY <1>1, <1>3 DEF Close, On, Busy, Domains
  <2>2. /\ calls' = [calls EXCEPT ![c] = 0]
        /\ health' = [health EXCEPT ![c] = Contract!FreshHealth]
        /\ empty' = [empty EXCEPT ![c] = FALSE]
        /\ Quiet' = [Quiet EXCEPT ![c] = 0]
    BY <1>3 DEF Close, FreshHealth, Contract!FreshHealth, Quiet
  <2>3. Contract!Close(c)
    BY <2>1, <2>2 DEF Contract!Close, On, Busy, Quiet
  <2>4. QED
    BY <2>3 DEF Contract!Next
<1>4. ASSUME NEW c \in Clients, Begin(c) PROVE Contract!Next
  <2>1. PICK v \in InCall : pc' = [pc EXCEPT ![c] = v]
    BY <1>4 DEF Begin, InCall
  <2>2. /\ c \in On /\ On' = On
        /\ c \notin Busy /\ Busy' = Busy \cup {c}
    BY <1>1, <1>4, <2>1 DEF Begin, Domains, On, Busy, InCall
  <2>3. /\ calls' = [calls EXCEPT ![c] = @ + 1] /\ health' = health
        /\ empty' = [empty EXCEPT ![c] = FALSE]
    BY <1>4 DEF Begin
  <2>4. Contract!Begin(c)
    BY <2>2, <2>3 DEF Contract!Begin, On, Busy, Quiet
  <2>5. QED
    BY <2>4 DEF Contract!Next
<1>5. ASSUME NEW c \in Clients, Refuse(c) PROVE Contract!Next
  <2>1. PICK op \in {"add", "search"} :
           /\ health' = [health EXCEPT ![c] = RecordOp(health[c], op, TRUE)]
           /\ \E e \in BOOLEAN : empty' = [empty EXCEPT ![c] = e]
    BY <1>5 DEF Refuse
  <2>2. PICK e \in BOOLEAN : empty' = [empty EXCEPT ![c] = e]
    BY <2>1
  <2>3. PICK h : h = RecordOp(health[c], op, TRUE)
    OBVIOUS
  <2>4. health[c] \in Health /\ ~health[c].healthy
    BY <1>1, <1>5 DEF Refuse, Domains
  <2>5. Honored(health[c], h, 1) /\ Flagged(health[c], h)
    <3>1. Honored(health[c], h, 1)
      BY <2>3, <2>4, OutcomesHonored
    <3>2. h.n_errors = health[c].n_errors + 1 /\ h.healthy = health[c].healthy
      BY <2>3, <2>4, RefusedFacts
    <3>3. QED
      BY <2>4, <3>1, <3>2 DEF Flagged, Health
  <2>6. pc' = [pc EXCEPT ![c] = "idle"] /\ pc[c] = "idle"
    BY <1>1, <1>5 DEF Refuse, Domains
  <2>7. health' = [health EXCEPT ![c] = h] /\ calls' = [calls EXCEPT ![c] = @ + 1]
    BY <1>5, <2>1, <2>3 DEF Refuse
  <2>8. e => Flagged(health[c], h)
    BY <2>5
  <2>9. PICK n \in {1, 2} : n = 1
    OBVIOUS
  <2>10. Honored(health[c], h, n) /\ (n = 2 => health[c].healthy /\ ~h.healthy)
    BY <2>5, <2>9
  <2>11. QED
    BY <1>1, <2>2, <2>6, <2>7, <2>8, <2>10, ContractReturn
<1>6. ASSUME NEW c \in Clients, pc[c] \in InCall, NEW r, calls' = calls,
             NEW h \in {Served(c), Failed(c), Silent(c), Stumbled(c)}, Returns(c, h, r),
             Flagged(health[c], h) \/ r = "ids" \/ call[c].text # "substantive"
      PROVE  Contract!Next
  <2>1. /\ call[c].op \in {"add", "search"} /\ health[c] \in Health /\ health[c].healthy
        /\ call[c] \in Call
    BY <1>1, <1>6, CallParts DEF ClientInv, InCall
  <2>2. PICK n \in {1, 2} : Honored(health[c], h, n) /\ (n = 2 => h = Stumbled(c))
    <3>1. /\ Honored(health[c], Served(c), 1) /\ Honored(health[c], Failed(c), 1)
          /\ Honored(health[c], Silent(c), 1) /\ Honored(health[c], Stumbled(c), 2)
      BY <2>1, OutcomesHonored DEF Served, Failed, Silent, Stumbled
    <3>2. QED
      BY <1>6, <3>1
  <2>4. Flagged(health[c], Stumbled(c))
    BY <1>1, <1>6, Outcomes
  <2>5. n = 2 => ~h.healthy
    BY <2>2, <2>4 DEF Flagged
  <2>6. PICK e \in BOOLEAN : e = (r = "nothing" /\ call[c].op = "add" /\ call[c].text = "substantive")
    OBVIOUS
  <2>7. empty' = [empty EXCEPT ![c] = e] /\ (e => Flagged(health[c], h))
    BY <1>6, <2>6 DEF Returns
  <2>8. pc' = [pc EXCEPT ![c] = "idle"] /\ health' = [health EXCEPT ![c] = h]
    BY <1>6 DEF Returns
  <2>9. QED
    BY <1>1, <1>6, <2>1, <2>2, <2>5, <2>7, <2>8, ContractReturn
<1>a. ASSUME NEW c \in Clients, pc[c] \in InCall
      PROVE  /\ Flagged(health[c], Failed(c))
             /\ Flagged(health[c], Silent(c))
             /\ Flagged(health[c], Stumbled(c))
  BY <1>1, <1>a, Outcomes
<1>7. ASSUME NEW c \in Clients, AddEmpty(c) PROVE Contract!Next
  BY <1>6, <1>7 DEF AddEmpty, NothingToSend, InCall
<1>8. ASSUME NEW c \in Clients, ResolveFails(c) PROVE Contract!Next
  BY <1>6, <1>8, <1>a DEF ResolveFails, InCall
<1>9. ASSUME NEW c \in Clients, RequestServed(c) PROVE Contract!Next
  BY <1>6, <1>9 DEF RequestServed, InCall
<1>10. ASSUME NEW c \in Clients, NoIds(c) PROVE Contract!Next
  BY <1>6, <1>10, <1>a DEF NoIds, Silent, InCall
<1>11. ASSUME NEW c \in Clients, RequestFails(c) \/ RequestMisread(c) PROVE Contract!Next
  BY <1>6, <1>11, <1>a DEF RequestFails, RequestMisread, InCall
<1>12. ASSUME NEW c \in Clients,
              \/ FindAgent(c) \/ FindNone(c) \/ CreateAgent(c) \/ RetryCreation(c) \/ EnsureBank(c)
       PROVE  UNCHANGED Contract!vars
  BY <1>1, <1>12, ContractStutter
     DEF FindAgent, FindNone, CreateAgent, RetryCreation, EnsureBank, InCall
<1>13. ASSUME NEW c \in Clients, Clear(c) PROVE UNCHANGED Contract!vars
  BY <1>1, <1>13, ContractStutter DEF Clear
<1>14. ASSUME UNCHANGED <<pc, health, calls, empty>> PROVE UNCHANGED Contract!vars
  BY <1>14 DEF Contract!vars, On, Busy, Quiet
<1>15. CASE \E s \in Scopes : ServeLate(s)
  BY <1>14, <1>15 DEF ServeLate
<1>16. CASE UNCHANGED vars
  BY <1>14, <1>16 DEF vars
<1>17. QED
  BY <1>2, <1>3, <1>4, <1>5, <1>7, <1>8, <1>9, <1>10, <1>11, <1>12, <1>13, <1>15, <1>16 DEF Next

(***************************************************************************)
(* The three server backends honor the contract of base.py, without its    *)
(* exception for a soft signal: an add of substantive text that returns    *)
(* nothing counts an error and leaves the backend unhealthy.  Every call   *)
(* is counted when it returns, twice only by the call in which healthy is  *)
(* lost; healthy is lost exactly with the first error and with a message,  *)
(* whichever request failed and whatever other clients did to the agent.   *)
(***************************************************************************)
THEOREM ImplementsContract == Spec => HonorsContract
<1>1. Init => Contract!Init
  <2>1. FreshHealth = Contract!FreshHealth
    BY DEF FreshHealth, Contract!FreshHealth
  <2>2. QED
    BY <2>1, FreshNotStarted DEF Init, Contract!Init
<1>2. IInv /\ [Next]_vars => [Contract!Next]_(Contract!vars)
  BY ContractStep
<1>3. QED
  BY <1>1, <1>2, Invariant, PTL DEF Spec, HonorsContract, Contract!Spec

=============================================================================
