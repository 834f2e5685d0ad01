------------------------------- MODULE Serve -------------------------------
(***************************************************************************)
(* The daemon's socket: serve accepts and counts, a thread per connection  *)
(* handles one request; request_resolver at the other end.  A connection   *)
(* is closed before its slot comes back, a connection over the limit is    *)
(* answered and closed whether its request has arrived or not, and the     *)
(* daemon reads without a timeout.  A handler waits for its resolution,    *)
(* and a resolution may wait for good: run_command joins readers whose     *)
(* pipe a process outside the group keeps, and staging opens what may have *)
(* become a FIFO (KilledButHeld and StagingBlocks of Resolver).            *)
(***************************************************************************)
EXTENDS Naturals, Sequences, FiniteSets

CONSTANTS
  Peers,           \* the processes that connect, once each
  Nobody,          \* no process
  MaxConnections,  \* MAX_CONNECTIONS
  MaxFalls         \* bound: how often serve ends and is started again

ASSUME ServeAssumption ==
  /\ IsFiniteSet(Peers)
  /\ Nobody \notin Peers
  /\ MaxConnections \in Nat \ {0}
  /\ MaxFalls \in Nat

VARIABLES
  nature,   \* what kind of peer it is
  client,   \* where its call is
  conn,     \* the daemon's end of its connection
  request,  \* its request is in the socket
  reply,    \* what is in the socket for it
  ending,   \* how many threads have closed their connection and still count
  backlog,  \* connections nobody has accepted
  loop,     \* where the accept loop is
  accepted, \* the connection it has accepted
  active,   \* the counter
  falls     \* how often serve has ended

connVars == <<conn, request, reply>>
loopVars == <<backlog, loop, accepted>>
serveVars == <<nature, client, connVars, ending, loopVars, active, falls>>

\* One that asks; one that is stopped before it writes; one of another user.
Natures == {"asks", "silent", "stranger"}

Outcomes == {"answer", "overloaded", "unauthorized", "unavailable", "timeout", "killed"}

ServeInit ==
  /\ nature \in [Peers -> Natures]
  /\ client = [p \in Peers |-> "idle"]
  /\ conn = [p \in Peers |-> "none"]
  /\ request = [p \in Peers |-> FALSE]
  /\ reply = [p \in Peers |-> "none"]
  /\ ending = 0
  /\ backlog = <<>>
  /\ loop = "accept"
  /\ accepted = Nobody
  /\ active = 0
  /\ falls = 0
-----------------------------------------------------------------------------
(***************************************************************************)
(* request_resolver.                                                       *)
(***************************************************************************)
\* It connects, and leaves at once when there is no daemon.  Who asks again is
\* another peer here: the daemon may still work on what was asked before.
Connect(p) ==
  /\ client[p] = "idle"
  /\ IF loop = "down"
     THEN client' = [client EXCEPT ![p] = "unavailable"] /\ UNCHANGED <<conn, backlog>>
     ELSE /\ client' = [client EXCEPT ![p] = "connected"]
          /\ conn' = [conn EXCEPT ![p] = "backlog"]
          /\ backlog' = Append(backlog, p)
  /\ UNCHANGED <<nature, request, reply, ending, loop, accepted, active, falls>>

\* Both ends look at the other's user; the client's look is before it writes.
Distrust(p) ==
  /\ client[p] = "connected" /\ nature[p] = "stranger"
  /\ client' = [client EXCEPT ![p] = "unauthorized"]
  /\ UNCHANGED <<nature, connVars, ending, loopVars, active, falls>>

\* write_frame: a connection that is closed already takes nothing, and what the
\* daemon said before it closed is not read.
WriteRequest(p) ==
  /\ client[p] = "connected" /\ nature[p] = "asks"
  /\ IF conn[p] = "closed"
     THEN client' = [client EXCEPT ![p] = "unavailable"] /\ UNCHANGED request
     ELSE client' = [client EXCEPT ![p] = "waiting"] /\ request' = [request EXCEPT ![p] = TRUE]
  /\ UNCHANGED <<nature, conn, reply, ending, loopVars, active, falls>>

\* The engine kills the shim before it has written, also one that is stopped.
Killed(p) ==
  /\ client[p] = "connected"
  /\ client' = [client EXCEPT ![p] = "killed"]
  /\ UNCHANGED <<nature, connVars, ending, loopVars, active, falls>>

Read(p) ==
  /\ client[p] = "waiting"
  /\ \/ reply[p] # "none" /\ client' = [client EXCEPT ![p] = reply[p]]
     \/ reply[p] = "none" /\ conn[p] = "closed" /\ client' = [client EXCEPT ![p] = "unavailable"]
  /\ UNCHANGED <<nature, connVars, ending, loopVars, active, falls>>

\* The read timeout; the daemon hears of it when it writes, if it listens.
ReadRunsOut(p) ==
  /\ client[p] = "waiting" /\ reply[p] = "none" /\ conn[p] # "closed"
  /\ client' = [client EXCEPT ![p] = "timeout"]
  /\ UNCHANGED <<nature, connVars, ending, loopVars, active, falls>>
-----------------------------------------------------------------------------
(***************************************************************************)
(* serve.                                                                  *)
(***************************************************************************)
Accept ==
  /\ loop = "accept" /\ backlog # <<>>
  /\ backlog' = Tail(backlog)
  /\ LET p == Head(backlog)
     IN  IF nature[p] = "stranger"
         THEN /\ conn' = [conn EXCEPT ![p] = "closed"]
              /\ reply' = [reply EXCEPT ![p] = "unauthorized"]
              /\ UNCHANGED <<loop, accepted>>
         ELSE loop' = "count" /\ accepted' = p /\ UNCHANGED <<conn, reply>>
  /\ UNCHANGED <<nature, client, request, ending, active, falls>>

\* fetch_add, and what it returned.
Count ==
  /\ loop = "count"
  /\ active' = active + 1
  /\ loop' = IF active >= MaxConnections THEN "refuse" ELSE "spawn"
  /\ UNCHANGED <<nature, client, connVars, ending, backlog, accepted, falls>>

\* Mutant: a refused connection keeps its count.
RefuseKeepsCount ==
  /\ loop = "refuse"
  /\ conn' = [conn EXCEPT ![accepted] = "closed"]
  /\ reply' = [reply EXCEPT ![accepted] = "overloaded"]
  /\ loop' = "accept" /\ accepted' = Nobody
  /\ UNCHANGED <<nature, client, request, ending, backlog, active, falls>>

Refuse ==
  /\ loop = "refuse"
  /\ active' = active - 1
  /\ conn' = [conn EXCEPT ![accepted] = "closed"]
  /\ reply' = [reply EXCEPT ![accepted] = "overloaded"]
  /\ loop' = "accept" /\ accepted' = Nobody
  /\ UNCHANGED <<nature, client, request, ending, backlog, falls>>

Spawn ==
  /\ loop = "spawn"
  /\ conn' = [conn EXCEPT ![accepted] = "reading"]
  /\ loop' = "accept" /\ accepted' = Nobody
  /\ UNCHANGED <<nature, client, request, reply, ending, backlog, active, falls>>

\* accept fails, or a thread cannot be spawned: serve returns or panics, and the
\* process goes with all its threads.
Fall ==
  /\ loop \in {"accept", "spawn"} /\ falls < MaxFalls
  /\ falls' = falls + 1
  /\ loop' = "down" /\ accepted' = Nobody
  /\ backlog' = <<>>
  /\ conn' = [p \in Peers |-> IF conn[p] = "none" THEN "none" ELSE "closed"]
  /\ ending' = 0
  /\ active' = 0
  /\ UNCHANGED <<nature, client, request, reply>>

\* The unit's Restart: the stale socket is removed and bound again.
Restart ==
  /\ loop = "down"
  /\ loop' = "accept"
  /\ UNCHANGED <<nature, client, connVars, ending, backlog, accepted, active, falls>>
-----------------------------------------------------------------------------
(***************************************************************************)
(* handle_connection, in a thread of its own.                              *)
(***************************************************************************)
HungUp(p) == client[p] \in Outcomes

ReadRequest(p) ==
  /\ conn[p] = "reading" /\ request[p]
  /\ conn' = [conn EXCEPT ![p] = "working"]
  /\ UNCHANGED <<nature, client, request, reply, ending, loopVars, active, falls>>

\* The connection is closed, with or without a reply; the guard comes after.
Closes(p, said) ==
  /\ conn' = [conn EXCEPT ![p] = "closed"]
  /\ reply' = [reply EXCEPT ![p] = said]
  /\ ending' = ending + 1
  /\ UNCHANGED <<nature, client, request, loopVars, active, falls>>

\* The end of the stream instead of a request.
ReadEnd(p) ==
  /\ conn[p] = "reading" /\ ~request[p] /\ HungUp(p)
  /\ Closes(p, "none")

\* Mutant: only a connection that was answered gives its slot back.
AnswerLosesSlot(p) ==
  /\ conn[p] = "working"
  /\ \/ Closes(p, "answer")
     \/ /\ conn' = [conn EXCEPT ![p] = "closed"]
        /\ UNCHANGED <<nature, client, request, reply, ending, loopVars, active, falls>>

\* The answer; or an answer too long for a frame, or a panic: then nothing.
Answer(p) ==
  /\ conn[p] = "working"
  /\ \E said \in {"answer", "none"} : Closes(p, said)

\* The resolution waits for something that no deadline ends.
GetStuck(p) ==
  /\ conn[p] = "working"
  /\ conn' = [conn EXCEPT ![p] = "stuck"]
  /\ UNCHANGED <<nature, client, request, reply, ending, loopVars, active, falls>>

\* What it waited for has come after all.
GetLoose(p) ==
  /\ conn[p] = "stuck"
  /\ \E said \in {"answer", "none"} : Closes(p, said)

\* Active::drop.
Drop ==
  /\ ending > 0
  /\ ending' = ending - 1
  /\ active' = active - 1
  /\ UNCHANGED <<nature, client, connVars, loopVars, falls>>
-----------------------------------------------------------------------------
ClientStep(p) == Connect(p) \/ Distrust(p) \/ WriteRequest(p) \/ Read(p)

HandlerStep(p) == ReadRequest(p) \/ ReadEnd(p) \/ Answer(p)

LoopStep == Accept \/ Count \/ Refuse \/ Spawn

ServeNext ==
  \/ \E p \in Peers : \/ ClientStep(p) \/ ReadRunsOut(p) \/ Killed(p)
                      \/ HandlerStep(p) \/ GetStuck(p) \/ GetLoose(p)
  \/ LoopStep \/ Fall \/ Restart \/ Drop

\* Every thread is scheduled, a client's read has its timeout, a resolution ends
\* by its deadline or is stuck (EveryRequestEnds of Resolver), and systemd starts
\* the daemon again.  A handler that is stuck need not come loose.
ServeSpec ==
  /\ ServeInit /\ [][ServeNext]_serveVars
  /\ \A p \in Peers :
       /\ WF_serveVars(ClientStep(p)) /\ WF_serveVars(ReadRunsOut(p))
       /\ WF_serveVars(HandlerStep(p))
  /\ WF_serveVars(LoopStep) /\ WF_serveVars(Restart) /\ WF_serveVars(Drop)
-----------------------------------------------------------------------------
ServeTypeOK ==
  /\ nature \in [Peers -> Natures]
  /\ client \in [Peers -> {"idle", "connected", "waiting"} \cup Outcomes]
  /\ conn \in [Peers -> {"none", "backlog", "reading", "working", "stuck", "closed"}]
  /\ request \in [Peers -> BOOLEAN]
  /\ reply \in [Peers -> {"none", "answer", "overloaded", "unauthorized"}]
  /\ ending \in Nat
  /\ backlog \in Seq(Peers)
  /\ loop \in {"accept", "count", "refuse", "spawn", "down"}
  /\ accepted \in Peers \cup {Nobody}
  /\ active \in Nat
  /\ falls \in 0..MaxFalls

Handled == {p \in Peers : conn[p] \in {"reading", "working", "stuck"}}

\* The counter is the number of threads that have not come to their end, and the
\* connection the loop has counted; no more than MAX_CONNECTIONS are handled, and
\* nobody is refused while a slot is free of all of these (serve, Active::drop).
SlotsCounted ==
  /\ active = Cardinality(Handled) + ending + (IF loop \in {"refuse", "spawn"} THEN 1 ELSE 0)
  /\ Cardinality(Handled) + ending <= MaxConnections

\* Who keeps a slot for good: a silent peer for as long as it lives
\* (handle_connection reads without a timeout), and a handler that is stuck.
Keeps(p) ==
  \/ conn[p] = "reading" /\ nature[p] = "silent" /\ client[p] = "connected"
  \/ conn[p] = "stuck"

\* In the end every peer that asks has its answer, refusal or error, also the one
\* whose handler is stuck, and every slot is back but for these.
ServeSettles ==
  <>[](/\ \A p \in Peers : nature[p] # "silent" => client[p] \in Outcomes
       /\ active = Cardinality({p \in Peers : Keeps(p)}))
=============================================================================
