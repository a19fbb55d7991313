--------------------------- MODULE RemoteBackends ---------------------------
(***************************************************************************)
(* The backends whose store is a server or an engine of their own: Letta   *)
(* (memory/letta_backend.py), Hindsight and Cognee.  Clients are processes *)
(* with one backend object each, all of one kind.  Letta keeps the         *)
(* memories of a scope in an agent, which a client looks up by name,       *)
(* creates when there is none, and remembers; the look-up and the creation *)
(* are two requests.  Hindsight has a bank and Cognee a dataset for the    *)
(* scope the object was made with.  Any request can fail, and one that     *)
(* fails may have been served; a creation nobody waits for any more may be *)
(* served much later, after its client was started again.  (A deletion is  *)
(* served at once or never.)                                               *)
(*                                                                         *)
(* What the containers hold is left out, and with it n_memories, which is  *)
(* refreshed when the server happens to tell and which nothing reads.      *)
(***************************************************************************)
EXTENDS BackendHealth, FiniteSets

CONSTANTS
    Clients,
    Kinds,        \* a subset of {"letta", "hindsight", "cognee"}
    Scopes,
    Home,         \* the scope each client's backend is made with
    None,
    MaxAgents,    \* bound: agents created
    MaxStrays,    \* bound, by scope: creations whose answer is lost
    MaxOpens,     \* bound: processes started
    MaxCalls      \* bound: calls per process

ASSUME RemoteAssumption ==
    /\ Kinds \subseteq {"letta", "hindsight", "cognee"}
    /\ Home \in [Clients -> Scopes]
    /\ None \notin Scopes
    /\ {MaxAgents, MaxOpens, MaxCalls} \subseteq Nat
    /\ MaxStrays \in [Scopes -> Nat]
    /\ IsFiniteSet(Clients)

VARIABLES
    kind,      \* which backend this is about
    pc,        \* where each client is
    call,      \* the call it is in
    empty,     \* its last call, an add of substantive text, returned [] (history)
    place,     \* _agent_id or _bank_id: the container it remembers
    health,
    calls,     \* calls its process has begun
    opens,     \* processes started
    made,      \* Letta agents created so far
    named,     \* the scope each of them is named after, None once deleted
    late,      \* creations on their way to the server that nobody waits for
    strays     \* creations whose answer was lost, by scope (history)

server == <<made, named, late, strays>>

vars == <<kind, pc, call, empty, place, health, calls, opens, server>>

Agents == 1..MaxAgents

\* A substantive text has at least 100 characters.
Call == [op: {"add"}, scope: Scopes, text: {"none", "short", "substantive"}]
        \cup [op: {"search"}, scope: Scopes]

TypeOK ==
    /\ kind \in Kinds
    /\ pc \in [Clients -> {"off", "idle", "resolve", "create", "request"}]
    /\ call \in [Clients -> Call \cup {None}]
    /\ empty \in [Clients -> BOOLEAN]
    /\ place \in [Clients -> 1..made \cup Scopes \cup {None}]
    /\ health \in [Clients -> Health]
    /\ calls \in [Clients -> 0..MaxCalls]
    /\ opens \in 0..MaxOpens
    /\ made \in 0..MaxAgents
    /\ named \in [Agents -> Scopes \cup {None}]
    /\ late \in [Scopes -> Nat]
    /\ strays \in [Scopes -> Nat]

Init ==
    /\ kind \in Kinds
    /\ pc = [c \in Clients |-> "off"]
    /\ call = [c \in Clients |-> None]
    /\ empty = [c \in Clients |-> FALSE]
    /\ place = [c \in Clients |-> None]
    /\ health = [c \in Clients |-> FreshHealth]
    /\ calls = [c \in Clients |-> 0]
    /\ opens = 0
    /\ made = 0
    /\ named = [a \in Agents |-> None]
    /\ late = [s \in Scopes |-> 0]
    /\ strays = [s \in Scopes |-> 0]

AgentsOf(s) == {a \in Agents : named[a] = s}

\* The server makes an agent for scope s.
NewAgent(s) ==
    /\ made < MaxAgents
    /\ made' = made + 1
    /\ named' = [named EXCEPT ![made + 1] = s]

\* The answer to a creation for scope s is lost, and the server has yet to
\* serve it.
LosesAnswer(s) ==
    /\ strays[s] < MaxStrays[s]
    /\ strays' = [strays EXCEPT ![s] = @ + 1]
    /\ late' = [late EXCEPT ![s] = @ + 1]
    /\ UNCHANGED <<made, named>>

\* c stops waiting. A creation it waits for is on its way, or was never sent.
Abandons(c) ==
    \/ pc[c] = "create" /\ LosesAnswer(call[c].scope)
    \/ UNCHANGED server

\* The call ends; the health record becomes h, an add returns r.
Returns(c, h, r) ==
    /\ pc' = [pc EXCEPT ![c] = "idle"]
    /\ health' = [health EXCEPT ![c] = h]
    /\ empty' = [empty EXCEPT ![c] = r = "nothing" /\ call[c].op = "add"
                                                 /\ call[c].text = "substantive"]
    /\ call' = [call EXCEPT ![c] = None]

Served(c) == RecordOp(health[c], call[c].op, FALSE)

\* A failed call is recorded by _record_op and by _record_error.
Failed(c) == RecordError(RecordOp(health[c], call[c].op, TRUE), FALSE)

\* Mutant: the except clause only records the operation again.
StumbledQuietly(c) == RecordOp(Served(c), call[c].op, TRUE)

\* _record_op counts the call, the conversion of its result raises, and the
\* except clause records it again.
Stumbled(c) == RecordError(RecordOp(Served(c), call[c].op, TRUE), FALSE)

-----------------------------------------------------------------------------
(* The life of a client.                                                   *)

\* __init__: the server answers the probe, or the engine starts, or not.
Open(c) ==
    /\ pc[c] = "off"
    /\ opens < MaxOpens
    /\ pc' = [pc EXCEPT ![c] = "idle"]
    /\ opens' = opens + 1
    /\ \E ok \in BOOLEAN :
          health' = [health EXCEPT ![c].healthy = ok, ![c].error_message = ~ok]
    /\ UNCHANGED <<kind, call, empty, place, calls, server>>

\* The end of the process, or its death in the middle of a call.
Close(c) ==
    /\ pc[c] # "off"
    /\ pc' = [pc EXCEPT ![c] = "off"]
    /\ call' = [call EXCEPT ![c] = None]
    /\ empty' = [empty EXCEPT ![c] = FALSE]
    /\ place' = [place EXCEPT ![c] = None]
    /\ health' = [health EXCEPT ![c] = FreshHealth]
    /\ calls' = [calls EXCEPT ![c] = 0]
    /\ Abandons(c)
    /\ UNCHANGED <<kind, opens>>

-----------------------------------------------------------------------------
(* add and search.                                                         *)

Begin(c) ==
    /\ pc[c] = "idle"
    /\ calls[c] < MaxCalls
    /\ calls' = [calls EXCEPT ![c] = @ + 1]
    /\ health[c].healthy
    /\ \E new \in Call : call' = [call EXCEPT ![c] = new]
    /\ pc' = [pc EXCEPT ![c] = IF kind # "cognee" /\ place[c] = None
                               THEN "resolve" ELSE "request"]
    /\ empty' = [empty EXCEPT ![c] = FALSE]
    /\ UNCHANGED <<kind, place, health, opens, server>>

\* An unhealthy backend refuses, and counts an error.
Refuse(c) ==
    /\ pc[c] = "idle"
    /\ calls[c] < MaxCalls
    /\ calls' = [calls EXCEPT ![c] = @ + 1]
    /\ ~health[c].healthy
    /\ \E op \in {"add", "search"} :
          /\ health' = [health EXCEPT ![c] = RecordOp(@, op, TRUE)]
          /\ \E e \in BOOLEAN : (e => op = "add") /\ empty' = [empty EXCEPT ![c] = e]
    /\ UNCHANGED <<kind, pc, call, place, opens, server>>

\* Turns without text are not sent; Letta looks for its agent before it looks
\* at the text.
NothingToSend(c) ==
    /\ call[c].op = "add"
    /\ call[c].text = "none"
    /\ kind = "letta" => pc[c] = "request"

\* Mutant: an early return that does not count the call.
AddEmptyUnrecorded(c) ==
    /\ pc[c] \in {"resolve", "request"}
    /\ NothingToSend(c)
    /\ Returns(c, health[c], "nothing")
    /\ UNCHANGED <<kind, place, calls, opens, server>>

AddEmpty(c) ==
    /\ pc[c] \in {"resolve", "request"}
    /\ NothingToSend(c)
    /\ Returns(c, Served(c), "nothing")
    /\ UNCHANGED <<kind, place, calls, opens, server>>

\* _ensure_agent finds an agent of the scope's name: any one of them.
FindAgent(c) ==
    /\ pc[c] = "resolve"
    /\ kind = "letta"
    /\ \E a \in AgentsOf(call[c].scope) : place' = [place EXCEPT ![c] = a]
    /\ pc' = [pc EXCEPT ![c] = "request"]
    /\ UNCHANGED <<kind, call, empty, health, calls, opens, server>>

\* Mutant: no look-up before the creation.
FindNoneBlind(c) ==
    /\ pc[c] = "resolve"
    /\ kind = "letta"
    /\ pc' = [pc EXCEPT ![c] = "create"]
    /\ UNCHANGED <<kind, call, empty, place, health, calls, opens, server>>

FindNone(c) ==
    /\ pc[c] = "resolve"
    /\ kind = "letta"
    /\ AgentsOf(call[c].scope) = {}
    /\ pc' = [pc EXCEPT ![c] = "create"]
    /\ UNCHANGED <<kind, call, empty, place, health, calls, opens, server>>

\* Mutant: an agent id is remembered that the server never gave.
CreateAgentUnmade(c) ==
    /\ pc[c] = "create"
    /\ made < MaxAgents
    /\ place' = [place EXCEPT ![c] = made + 1]
    /\ pc' = [pc EXCEPT ![c] = "request"]
    /\ UNCHANGED <<kind, call, empty, health, calls, opens, server>>

CreateAgent(c) ==
    /\ pc[c] = "create"
    /\ NewAgent(call[c].scope)
    /\ place' = [place EXCEPT ![c] = made + 1]
    /\ pc' = [pc EXCEPT ![c] = "request"]
    /\ UNCHANGED <<kind, call, empty, health, calls, opens, late, strays>>

\* The client library times out, or is told of an overload, and sends the
\* creation again.
RetryCreation(c) ==
    /\ pc[c] = "create"
    /\ LosesAnswer(call[c].scope)
    /\ UNCHANGED <<kind, pc, call, empty, place, health, calls, opens>>

\* The server serves a creation nobody waits for.
ServeLate(s) ==
    /\ late[s] > 0
    /\ late' = [late EXCEPT ![s] = @ - 1]
    /\ NewAgent(s)
    /\ UNCHANGED <<kind, pc, call, empty, place, health, calls, opens, strays>>

\* The bank of the scope the object was made with exists from now on.
EnsureBank(c) ==
    /\ pc[c] = "resolve"
    /\ kind = "hindsight"
    /\ ~NothingToSend(c)
    /\ place' = [place EXCEPT ![c] = Home[c]]
    /\ pc' = [pc EXCEPT ![c] = "request"]
    /\ UNCHANGED <<kind, call, empty, health, calls, opens, server>>

\* Mutant: _ensure_agent as it was in Loop 3, which set error_message itself.
ResolveFailsDirectly(c) ==
    /\ pc[c] \in {"resolve", "create"}
    /\ ~NothingToSend(c)
    /\ Returns(c, [RecordOp(health[c], call[c].op, TRUE) EXCEPT !.error_message = TRUE],
               "nothing")
    /\ Abandons(c)
    /\ UNCHANGED <<kind, place, calls, opens>>

\* The container cannot be had.
ResolveFails(c) ==
    /\ pc[c] \in {"resolve", "create"}
    /\ ~NothingToSend(c)
    /\ Returns(c, Failed(c), "nothing")
    /\ Abandons(c)
    /\ UNCHANGED <<kind, place, calls, opens>>

\* The container the request is for is there (banks and datasets always are).
ContainerThere(c) == kind = "letta" => named[place[c]] # None

\* An add gets ids, a search its hits; Cognee makes up the id, and a failure of
\* its second step, cognify, changes nothing.
RequestServed(c) ==
    /\ pc[c] = "request"
    /\ ~NothingToSend(c)
    /\ ContainerThere(c)
    /\ Returns(c, Served(c), "ids")
    /\ UNCHANGED <<kind, place, calls, opens, server>>

\* Mutant: the check for a silent failure is missing.
NoIdsQuietly(c) ==
    /\ pc[c] = "request"
    /\ call[c].op = "add"
    /\ ~NothingToSend(c)
    /\ kind # "cognee"
    /\ ContainerThere(c)
    /\ Returns(c, Served(c), "nothing")
    /\ UNCHANGED <<kind, place, calls, opens, server>>

\* The server takes the text and returns no id: a silent failure if the text
\* was substantive.
NoIds(c) ==
    /\ pc[c] = "request"
    /\ call[c].op = "add"
    /\ ~NothingToSend(c)
    /\ kind # "cognee"
    /\ ContainerThere(c)
    /\ Returns(c, IF call[c].text = "substantive"
                  THEN RecordError(Served(c), TRUE) ELSE Served(c), "nothing")
    /\ UNCHANGED <<kind, place, calls, opens, server>>

RequestFails(c) ==
    /\ pc[c] = "request"
    /\ ~NothingToSend(c)
    /\ Returns(c, Failed(c), "nothing")
    /\ UNCHANGED <<kind, place, calls, opens, server>>

\* What the server answered is not what the code expects: a hit whose score is
\* no number, ids of Hindsight that are not a list.
RequestMisread(c) ==
    /\ pc[c] = "request"
    /\ call[c].op = "search" \/ kind = "hindsight"
    /\ ~NothingToSend(c)
    /\ ContainerThere(c)
    /\ Returns(c, Stumbled(c), "nothing")
    /\ UNCHANGED <<kind, place, calls, opens, server>>

-----------------------------------------------------------------------------
(* clear.                                                                  *)

\* Letta deletes the agent it remembers, whoever else uses it; a failure is
\* swallowed, and the agent remembered although it may be gone. The others
\* empty their store and keep their place.
Clear(c) ==
    /\ pc[c] = "idle"
    /\ kind = "letta"
    /\ health[c].healthy
    /\ place[c] # None
    /\ \/ /\ named' = [named EXCEPT ![place[c]] = None]
          /\ place' \in {place, [place EXCEPT ![c] = None]}
       \/ UNCHANGED <<named, place>>
    /\ UNCHANGED <<kind, pc, call, empty, health, calls, opens, made, late, strays>>

Next ==
    \/ \E c \in Clients :
          \/ Open(c)          \/ Close(c)
          \/ Begin(c)         \/ Refuse(c)        \/ AddEmpty(c)
          \/ FindAgent(c)     \/ FindNone(c)      \/ CreateAgent(c)
          \/ RetryCreation(c) \/ EnsureBank(c)    \/ ResolveFails(c)
          \/ RequestServed(c) \/ NoIds(c)         \/ RequestFails(c)
          \/ RequestMisread(c)
          \/ Clear(c)
    \/ \E s \in Scopes : ServeLate(s)

Spec == Init /\ [][Next]_vars

-----------------------------------------------------------------------------
(* Properties.                                                             *)

Running == {c \in Clients : pc[c] # "off"}

\* A backend that calls itself healthy has had no error, and one that does not
\* says why, on every path by which a request or the look-up of its container
\* can fail (the rule the comments G4 and G5 of the two clients speak of).
HealthIsHonest ==
    \A c \in Running :
        IF health[c].healthy THEN health[c].n_errors = 0 ELSE health[c].error_message

\* Every call is counted, whichever return it took (the add of Letta has six of
\* them), and none twice but the one whose answer could not be read, which made
\* the backend unhealthy.
EveryCallCounted ==
    \A c \in Running :
        LET counted == health[c].n_adds + health[c].n_searches
                         + (IF pc[c] = "idle" THEN 0 ELSE 1)
        IN  calls[c] <= counted
            /\ counted <= (IF health[c].healthy THEN calls[c] ELSE calls[c] + 1)

\* The race of two look-ups is bounded: a scope has no more agents than there
\* are clients, but for one for each creation whose answer was lost, counting
\* those about to be created and those to be served late, although clients die
\* and start again in the middle and deleted agents are made again.
AgentsBounded ==
    \A s \in Scopes :
        Cardinality(AgentsOf(s))
            + Cardinality({c \in Clients : pc[c] = "create" /\ call[c].scope = s})
            + late[s]
          <= Cardinality(Clients) + strays[s]

\* An add of substantive text that comes back with no id leaves an error.
EmptyHandedIsCounted ==
    [][\A c \in Clients :
          call[c] # None /\ pc'[c] = "idle" /\ empty'[c]
             => health'[c].n_errors > health[c].n_errors /\ ~health'[c].healthy]_vars

(***************************************************************************)
(* Each client's backend honors the contract of HealthContract, whatever   *)
(* the others and the server do to its agent.  There is no soft signal: an *)
(* add that returns nothing is an error, as base.py asks.                  *)
(***************************************************************************)
Contract == INSTANCE HealthContract WITH
               Backends <- Clients,
               Counts   <- {1, 2},
               on       <- {c \in Clients : pc[c] # "off"},
               busy     <- {c \in Clients : pc[c] \notin {"off", "idle"}},
               soft     <- [c \in Clients |-> 0]

HonorsContract == Contract!Spec

=============================================================================
