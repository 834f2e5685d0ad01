---------------------------- MODULE DaemonProofs ----------------------------
(***************************************************************************)
(* Proofs about the two edges of the daemon: Serve, the connections from   *)
(* its clients, and NixCommand, the processes that it starts.              *)
(***************************************************************************)
EXTENDS Serve, NixCommand, SequenceTheorems, FiniteSetTheorems, TLAPS

-----------------------------------------------------------------------------
(***************************************************************************)
(* Serve, for any finite set of peers and any limit: the counter of        *)
(* connections is exact and within the limit.  The count of the threads    *)
(* changes when the loop hands over the connection it has accepted and     *)
(* when a thread closes its own, so the invariant must know that the       *)
(* accepted connection is nobody's yet: it left the backlog, where no      *)
(* connection is twice, and a peer connects once.                          *)
(***************************************************************************)
\* A peer that has not connected has no connection.
Fresh == \A p \in Peers : client[p] = "idle" => conn[p] = "none"

\* What is in the backlog is there once, and nobody handles it.
Queued ==
  /\ \A i \in 1..Len(backlog) : conn[backlog[i]] = "backlog"
  /\ \A i, j \in 1..Len(backlog) : i # j => backlog[i] # backlog[j]

\* So is what the loop has taken.
Holding == loop \in {"count", "refuse", "spawn"}

Taking ==
  Holding => /\ accepted \in Peers /\ conn[accepted] = "backlog"
             /\ \A i \in 1..Len(backlog) : backlog[i] # accepted

Shape == ServeTypeOK /\ Fresh /\ Queued /\ Taking

Threads == Cardinality(Handled) + ending

\* Between fetch_add and the spawn there is room for one more thread.
Room == loop = "spawn" => Threads < MaxConnections

SlotsInv == Shape /\ SlotsCounted /\ Room

LEMMA HandledIsFinite == IsFiniteSet(Handled) /\ Cardinality(Handled) \in Nat
<1>1. Handled \subseteq Peers
  BY DEF Handled
<1>. QED
  BY <1>1, FS_Subset, FS_CardinalityType, ServeAssumption

LEMMA HandledIsFinitePrime == IsFiniteSet(Handled') /\ Cardinality(Handled') \in Nat
<1>1. Handled' \subseteq Peers
  BY DEF Handled
<1>. QED
  BY <1>1, FS_Subset, FS_CardinalityType, ServeAssumption

LEMMA InitSlots == ServeInit => SlotsInv
<1>. SUFFICES ASSUME ServeInit PROVE SlotsInv
  OBVIOUS
<1>1. Shape
  <2>1. ServeTypeOK
    BY ServeAssumption DEF ServeInit, ServeTypeOK, Outcomes
  <2>. QED
    BY <2>1 DEF ServeInit, Shape, Fresh, Queued, Taking, Holding
<1>2. Handled = {}
  BY DEF ServeInit, Handled
<1>3. Cardinality(Handled) = 0
  BY <1>2, FS_EmptySet
<1>. QED
  BY <1>1, <1>3, ServeAssumption DEF ServeInit, SlotsInv, SlotsCounted, Room, Threads

-----------------------------------------------------------------------------
(***************************************************************************)
(* The shape.                                                              *)
(***************************************************************************)
LEMMA ConnectShape ==
  ASSUME Shape, NEW p \in Peers, Connect(p)
  PROVE  Shape'
<1>1. ServeTypeOK'
  <2>1. backlog \in Seq(Peers) /\ Append(backlog, p) \in Seq(Peers)
    BY DEF Shape, ServeTypeOK
  <2>2. backlog' \in Seq(Peers)
    BY <2>1 DEF Connect
  <2>3. conn' \in [Peers -> {"none", "backlog", "reading", "working", "stuck", "closed"}]
    BY DEF Shape, ServeTypeOK, Connect
  <2>4. client' \in [Peers -> {"idle", "connected", "waiting"} \cup Outcomes]
    BY DEF Shape, ServeTypeOK, Connect, Outcomes
  <2>. QED
    BY <2>2, <2>3, <2>4 DEF Shape, ServeTypeOK, Connect
<1>2. CASE loop = "down"
  <2>1. UNCHANGED <<conn, backlog, loop, accepted>>
    BY <1>2 DEF Connect
  <2>2. \A q \in Peers : client'[q] = "idle" => client[q] = "idle"
    BY <1>2 DEF Shape, ServeTypeOK, Connect
  <2>. QED
    BY <1>1, <2>1, <2>2 DEF Shape, Fresh, Queued, Taking, Holding
<1>3. CASE loop # "down"
  <2>1. /\ backlog \in Seq(Peers) /\ backlog' = Append(backlog, p)
        /\ conn' = [conn EXCEPT ![p] = "backlog"] /\ conn[p] = "none"
        /\ loop' = loop /\ accepted' = accepted
    BY <1>3 DEF Shape, ServeTypeOK, Connect, Fresh
  <2>2. /\ Len(backlog') = Len(backlog) + 1
        /\ backlog'[Len(backlog) + 1] = p
        /\ \A i \in 1..Len(backlog) : backlog'[i] = backlog[i] /\ backlog[i] \in Peers
    BY <2>1
  <2>3. \A i \in 1..Len(backlog) : backlog[i] # p
    BY <2>1 DEF Shape, Queued
  <2>4. Len(backlog) \in Nat
    BY <2>1
  <2>5. Fresh'
    BY <1>3 DEF Shape, ServeTypeOK, Connect, Fresh
  <2>6. Queued'
    BY <2>1, <2>2, <2>3, <2>4 DEF Shape, ServeTypeOK, Queued
  <2>7. Taking'
    BY <2>1, <2>2, <2>4 DEF Shape, ServeTypeOK, Taking, Holding
  <2>. QED
    BY <1>1, <2>5, <2>6, <2>7 DEF Shape
<1>. QED
  BY <1>2, <1>3

LEMMA AcceptShape ==
  ASSUME Shape, Accept
  PROVE  Shape'
<1>. DEFINE p == Head(backlog)
<1>1. backlog \in Seq(Peers) /\ backlog # <<>> /\ backlog' = Tail(backlog)
  BY DEF Shape, ServeTypeOK, Accept
<1>2. /\ Len(backlog) \in Nat /\ Len(backlog') = Len(backlog) - 1
      /\ backlog' \in Seq(Peers) /\ p \in Peers /\ p = backlog[1]
      /\ \A i \in 1..Len(backlog') : backlog'[i] = backlog[i + 1] /\ i + 1 \in 1..Len(backlog)
      /\ 1 \in 1..Len(backlog)
  BY <1>1
<1>3. conn[p] = "backlog" /\ \A i \in 1..Len(backlog') : backlog'[i] # p
  BY <1>2 DEF Shape, Queued
<1>4. ServeTypeOK'
  BY <1>2 DEF Shape, ServeTypeOK, Accept
<1>5. Fresh'
  BY <1>2, <1>3 DEF Shape, ServeTypeOK, Accept, Fresh
<1>6. Queued'
  <2>1. \A i, j \in 1..Len(backlog') : i # j => backlog'[i] # backlog'[j]
    BY <1>2 DEF Shape, Queued
  <2>2. \A i \in 1..Len(backlog') : conn[backlog'[i]] = "backlog" /\ backlog'[i] \in Peers
    BY <1>1, <1>2 DEF Shape, Queued
  <2>. QED
    BY <1>2, <1>3, <2>1, <2>2 DEF Shape, ServeTypeOK, Accept, Queued
<1>7. Taking'
  BY <1>2, <1>3 DEF Shape, ServeTypeOK, Accept, Taking, Holding
<1>. QED
  BY <1>4, <1>5, <1>6, <1>7 DEF Shape

\* Everything else leaves the backlog alone, or empties it.
LEMMA OtherShape ==
  ASSUME SlotsInv,
         \/ Count \/ Refuse \/ Spawn \/ Fall \/ Restart \/ Drop
         \/ \E p \in Peers : \/ Distrust(p) \/ WriteRequest(p) \/ Killed(p) \/ Read(p)
                             \/ ReadRunsOut(p) \/ HandlerStep(p) \/ GetStuck(p) \/ GetLoose(p)
  PROVE  Shape'
<1>1. Shape /\ Cardinality(Handled) \in Nat
  BY HandledIsFinite DEF SlotsInv
<1>2. CASE Count
  BY <1>1, <1>2 DEF Shape, ServeTypeOK, Count, connVars, Fresh, Queued, Taking, Holding
<1>3. CASE Refuse
  <2>1. active' \in Nat
    BY <1>1, <1>3 DEF SlotsInv, SlotsCounted, Refuse, Shape, ServeTypeOK
  <2>. QED
    BY <1>1, <1>3, <2>1, ElementOfSeq DEF Shape, ServeTypeOK, Refuse, Fresh, Queued, Taking, Holding
<1>4. CASE Spawn
  BY <1>1, <1>4, ElementOfSeq DEF Shape, ServeTypeOK, Spawn, Fresh, Queued, Taking, Holding
<1>5. CASE Fall
  BY <1>1, <1>5, ServeAssumption DEF Shape, ServeTypeOK, Fall, Fresh, Queued, Taking, Holding
<1>6. CASE Restart
  BY <1>1, <1>6 DEF Shape, ServeTypeOK, Restart, connVars, Fresh, Queued, Taking, Holding
<1>7. CASE Drop
  <2>1. active' \in Nat /\ ending' \in Nat
    BY <1>1, <1>7 DEF SlotsInv, SlotsCounted, Drop, Shape, ServeTypeOK
  <2>. QED
    BY <1>1, <1>7, <2>1 DEF Shape, ServeTypeOK, Drop, connVars, loopVars, Fresh, Queued, Taking, Holding
<1>8. ASSUME NEW p \in Peers,
             Distrust(p) \/ WriteRequest(p) \/ Killed(p) \/ Read(p) \/ ReadRunsOut(p)
      PROVE  Shape'
  <2>1. ServeTypeOK'
    BY <1>1, <1>8 DEF Shape, ServeTypeOK, Outcomes, Distrust, WriteRequest, Killed, Read, ReadRunsOut,
                      connVars, loopVars
  <2>2. \A q \in Peers : client'[q] = "idle" => client[q] = "idle"
    BY <1>1, <1>8 DEF Shape, ServeTypeOK, Outcomes, Distrust, WriteRequest, Killed, Read, ReadRunsOut
  <2>3. UNCHANGED <<conn, backlog, loop, accepted>>
    BY <1>8 DEF Distrust, WriteRequest, Killed, Read, ReadRunsOut, connVars, loopVars
  <2>. QED
    BY <1>1, <2>1, <2>2, <2>3 DEF Shape, Fresh, Queued, Taking, Holding
<1>9. ASSUME NEW p \in Peers, HandlerStep(p) \/ GetStuck(p) \/ GetLoose(p)
      PROVE  Shape'
  <2>1. conn[p] \in {"reading", "working", "stuck"}
    BY <1>9 DEF HandlerStep, ReadRequest, ReadEnd, Answer, GetStuck, GetLoose
  <2>2. ServeTypeOK'
    BY <1>1, <1>9 DEF Shape, ServeTypeOK, HandlerStep, ReadRequest, ReadEnd, Answer, GetStuck,
                      GetLoose, Closes, loopVars
  <2>3. /\ UNCHANGED <<client, backlog, loop, accepted>>
        /\ \A q \in Peers : q # p => conn'[q] = conn[q]
    BY <1>1, <1>9 DEF Shape, ServeTypeOK, HandlerStep, ReadRequest, ReadEnd, Answer, GetStuck,
                      GetLoose, Closes, loopVars
  <2>4. \A i \in 1..Len(backlog) : backlog[i] \in Peers
    BY <1>1 DEF Shape, ServeTypeOK
  <2>. QED
    BY <1>1, <2>1, <2>2, <2>3, <2>4 DEF Shape, Fresh, Queued, Taking, Holding
<1>. QED
  BY <1>2, <1>3, <1>4, <1>5, <1>6, <1>7, <1>8, <1>9

-----------------------------------------------------------------------------
(***************************************************************************)
(* The count.                                                              *)
(***************************************************************************)
Counts == SlotsCounted /\ Room

\* What touches no thread and neither counter.
LEMMA SameCounts ==
  ASSUME SlotsInv, Handled' = Handled, UNCHANGED <<ending, active>>,
         loop' = loop \/ ({loop, loop'} \cap {"refuse", "spawn"} = {})
  PROVE  Counts'
BY DEF SlotsInv, Counts, SlotsCounted, Room, Threads

\* The counter is taken, then the slot, or the counter goes back.
LEMMA LoopCounts ==
  ASSUME SlotsInv, Count \/ Refuse \/ Spawn \/ Drop
  PROVE  Counts'
<1>1. /\ Cardinality(Handled) \in Nat /\ IsFiniteSet(Handled)
      /\ ending \in Nat /\ active \in Nat /\ MaxConnections \in Nat
      /\ conn \in [Peers -> {"none", "backlog", "reading", "working", "stuck", "closed"}]
  BY HandledIsFinite, ServeAssumption DEF SlotsInv, Shape, ServeTypeOK
<1>2. CASE Count
  <2>1. Handled' = Handled
    BY <1>2 DEF Count, connVars, Handled
  <2>. QED
    BY <1>1, <1>2, <2>1 DEF SlotsInv, Counts, SlotsCounted, Room, Threads, Count
<1>3. CASE Refuse
  <2>1. Handled' = Handled
    BY <1>1, <1>3 DEF Refuse, Handled, SlotsInv, Shape, Taking, Holding
  <2>. QED
    BY <1>1, <1>3, <2>1 DEF SlotsInv, Counts, SlotsCounted, Room, Threads, Refuse
<1>4. CASE Spawn
  <2>1. Handled' = Handled \cup {accepted} /\ accepted \notin Handled
    BY <1>1, <1>4 DEF Spawn, Handled, SlotsInv, Shape, Taking, Holding
  <2>2. Cardinality(Handled') = Cardinality(Handled) + 1
    BY <1>1, <2>1, FS_AddElement
  <2>. QED
    BY <1>1, <1>4, <2>2 DEF SlotsInv, Counts, SlotsCounted, Room, Threads, Spawn
<1>5. CASE Drop
  <2>1. Handled' = Handled
    BY <1>5 DEF Drop, connVars, Handled
  <2>. QED
    BY <1>1, <1>5, <2>1 DEF SlotsInv, Counts, SlotsCounted, Room, Threads, Drop, loopVars
<1>. QED
  BY <1>2, <1>3, <1>4, <1>5

\* A thread that closes its connection still counts; a fall takes all of them.
LEMMA ThreadCounts ==
  ASSUME SlotsInv, Fall \/ \E p \in Peers : HandlerStep(p) \/ GetStuck(p) \/ GetLoose(p)
  PROVE  Counts'
<1>1. /\ Cardinality(Handled) \in Nat /\ IsFiniteSet(Handled)
      /\ ending \in Nat /\ active \in Nat /\ MaxConnections \in Nat
      /\ conn \in [Peers -> {"none", "backlog", "reading", "working", "stuck", "closed"}]
  BY HandledIsFinite, ServeAssumption DEF SlotsInv, Shape, ServeTypeOK
<1>2. CASE Fall
  <2>1. Handled' = {}
    BY <1>1, <1>2 DEF Fall, Handled
  <2>2. Cardinality(Handled') = 0
    BY <2>1, FS_EmptySet
  <2>. QED
    BY <1>1, <1>2, <2>2 DEF Counts, SlotsCounted, Room, Threads, Fall
<1>3. ASSUME NEW p \in Peers, ReadRequest(p) \/ GetStuck(p)
      PROVE  Counts'
  <2>1. Handled' = Handled
    BY <1>1, <1>3 DEF ReadRequest, GetStuck, Handled
  <2>2. UNCHANGED <<ending, active, loop>>
    BY <1>3 DEF ReadRequest, GetStuck, loopVars
  <2>. QED
    BY <2>1, <2>2, SameCounts
<1>4. ASSUME NEW p \in Peers, ReadEnd(p) \/ Answer(p) \/ GetLoose(p)
      PROVE  Counts'
  <2>1. /\ p \in Handled /\ conn' = [conn EXCEPT ![p] = "closed"]
        /\ ending' = ending + 1 /\ UNCHANGED <<active, loop>>
    BY <1>4 DEF ReadEnd, Answer, GetLoose, Closes, Handled, loopVars
  <2>2. Handled' = Handled \ {p}
    BY <1>1, <2>1 DEF Handled
  <2>3. Cardinality(Handled') = Cardinality(Handled) - 1
    BY <1>1, <2>1, <2>2, FS_RemoveElement
  <2>. QED
    BY <1>1, <2>1, <2>3 DEF SlotsInv, Counts, SlotsCounted, Room, Threads
<1>. QED
  BY <1>2, <1>3, <1>4 DEF HandlerStep

\* Nobody handles a connection that is in the backlog, and a client changes none.
LEMMA ClientCounts ==
  ASSUME SlotsInv,
         \/ Accept \/ Restart
         \/ \E p \in Peers : ClientStep(p) \/ Killed(p) \/ ReadRunsOut(p)
  PROVE  Counts'
<1>1. conn \in [Peers -> {"none", "backlog", "reading", "working", "stuck", "closed"}]
  BY DEF SlotsInv, Shape, ServeTypeOK
<1>2. CASE Accept
  <2>1. Head(backlog) \in Peers /\ conn[Head(backlog)] = "backlog"
    BY <1>2 DEF Accept, SlotsInv, Shape, ServeTypeOK, Queued
  <2>2. Handled' = Handled
    BY <1>1, <1>2, <2>1 DEF Accept, Handled
  <2>. QED
    BY <1>2, <2>2, SameCounts DEF Accept
<1>3. CASE Restart
  BY <1>3, SameCounts DEF Restart, connVars, Handled
<1>4. ASSUME NEW p \in Peers, Connect(p)
      PROVE  Counts'
  <2>1. Handled' = Handled
    BY <1>1, <1>4 DEF Connect, Handled, SlotsInv, Shape, Fresh
  <2>. QED
    BY <1>4, <2>1, SameCounts DEF Connect
<1>5. ASSUME NEW p \in Peers,
             Distrust(p) \/ WriteRequest(p) \/ Killed(p) \/ Read(p) \/ ReadRunsOut(p)
      PROVE  Counts'
  <2>1. UNCHANGED <<conn, ending, active, loop>>
    BY <1>5 DEF Distrust, WriteRequest, Killed, Read, ReadRunsOut, connVars, loopVars
  <2>. QED
    BY <2>1, SameCounts DEF Handled
<1>. QED
  BY <1>2, <1>3, <1>4, <1>5 DEF ClientStep

LEMMA NextSlots == SlotsInv /\ [ServeNext]_serveVars => SlotsInv'
<1>. SUFFICES ASSUME SlotsInv, [ServeNext]_serveVars PROVE SlotsInv'
  OBVIOUS
<1>1. CASE UNCHANGED serveVars
  BY <1>1 DEF serveVars, connVars, loopVars, SlotsInv, Shape, ServeTypeOK, Fresh, Queued, Taking, Holding,
              SlotsCounted, Room, Threads, Handled
<1>2. CASE ServeNext
  <2>1. Shape'
    BY <1>2, ConnectShape, AcceptShape, OtherShape DEF SlotsInv, ServeNext, ClientStep, LoopStep
  <2>2. Counts'
    BY <1>2, LoopCounts, ThreadCounts, ClientCounts DEF ServeNext, LoopStep
  <2>. QED
    BY <2>1, <2>2 DEF SlotsInv, Counts
<1>. QED
  BY <1>1, <1>2

\* Whatever the peers do, and however often serve falls and is started again, the
\* counter is exact and no more than MAX_CONNECTIONS are handled (serve,
\* Active::drop).
THEOREM ServeCountsSlots == ServeSpec => []SlotsCounted
<1>1. SlotsInv => SlotsCounted
  BY DEF SlotsInv
<1>. QED
  BY <1>1, InitSlots, NextSlots, PTL DEF ServeSpec

-----------------------------------------------------------------------------
(***************************************************************************)
(* NixCommand, for any helpers, any pipes and any output: a command that   *)
(* succeeds has handed over all of its stdout, and one that timed out has  *)
(* left nothing of its process group.                                      *)
(***************************************************************************)
\* What is in a pipe has been written and not yet taken.
Counted == \A s \in Pipes : written[s] = taken[s] + pipe[s]

\* A reader finishes on an empty pipe that nobody holds, and what nobody holds
\* nobody comes to hold.
FinishedAtEnd ==
  \A s \in Pipes : reader[s] = "finished" /\ at # "crashed" => pipe[s] = 0 /\ holders[s] = {}

\* Past the first loop the child has been waited for.
ChildReaped == at \in {"drain", "join", "done"} => proc[Nix] = "gone"

\* Past the deadline the group is empty, and an empty group stays empty.
GroupKilled == at = "join" \/ outcome = "timeout" => group = {}

\* The child is in its group before it can start a helper; so as long as no stray
\* was born, every process that runs is in the group.
OnlyStraysLeave ==
  /\ proc[Nix] = "forked" => \A h \in Helpers : proc[h] = "unborn"
  /\ proc[Nix] \in {"grouped", "tied"} => Nix \in group
  /\ (\A h \in Strays : proc[h] = "unborn") => \A p \in Procs : Running(p) => p \in group

ReturnedOk ==
  /\ at # "done" => outcome = "none"
  /\ outcome = "ok" => status = "success" /\ ~Truncated /\ Joined

\* Only a dead parent's child is adopted.
AdoptedFromDead == adopter # "none" => at = "crashed"

IInv ==
  /\ TypeOK
  /\ Counted
  /\ FinishedAtEnd
  /\ ChildReaped
  /\ GroupKilled
  /\ OnlyStraysLeave
  /\ ReturnedOk
  /\ AdoptedFromDead

-----------------------------------------------------------------------------
LEMMA InitIInv == Init => IInv
<1>. SUFFICES ASSUME Init PROVE IInv
  OBVIOUS
<1>1. TypeOK
  <2>1. pipe \in [Pipes -> 0..Capacity] /\ written \in [Pipes -> 0..MaxWrites]
        /\ taken \in [Pipes -> 0..MaxWrites]
    BY CommandAssumption DEF Init
  <2>2. proc \in [Procs -> {"unborn", "forked", "grouped", "tied", "running", "zombie", "gone"}]
    BY DEF Init
  <2>3. holders \in [Pipes -> SUBSET Procs]
    BY DEF Init, Procs
  <2>. QED
    BY <2>1, <2>2, <2>3 DEF Init, TypeOK
<1>2. Counted
  BY DEF Init, Counted
<1>3. /\ FinishedAtEnd
      /\ ChildReaped
      /\ GroupKilled
      /\ ReturnedOk
      /\ AdoptedFromDead
  BY DEF Init, FinishedAtEnd, ChildReaped, GroupKilled, ReturnedOk, AdoptedFromDead
<1>4. OnlyStraysLeave
  BY CommandAssumption DEF Init, OnlyStraysLeave, Procs, Running
<1>. QED
  BY <1>1, <1>2, <1>3, <1>4 DEF IInv

\* What End does to the processes that end and to the others.
LEMMA EndFacts ==
  ASSUME TypeOK, NEW dead \in SUBSET Procs, NEW child \in {"zombie", "gone"}, End(dead, child)
  PROVE  /\ TypeOK!1' /\ TypeOK!2' /\ TypeOK!3'
         /\ \A s \in Pipes : holders'[s] \subseteq holders[s]
         /\ group' \subseteq group
         /\ \A p \in Procs \ dead : proc'[p] = proc[p] /\ (p \in group => p \in group')
         /\ \A p \in dead : proc'[p] = IF p = Nix THEN child ELSE "gone"
<1>1. /\ \A p \in Procs \ dead : proc'[p] = proc[p]
      /\ \A p \in dead : proc'[p] = IF p = Nix THEN child ELSE "gone"
  BY DEF End
<1>2. TypeOK!1'
  BY DEF End, TypeOK
<1>3. /\ group' \subseteq group
      /\ \A p \in Procs \ dead : p \in group => p \in group'
  BY DEF End
<1>4. TypeOK!3' /\ \A s \in Pipes : holders'[s] \subseteq holders[s]
  BY DEF End, TypeOK
<1>. QED
  BY <1>1, <1>2, <1>3, <1>4 DEF TypeOK

-----------------------------------------------------------------------------
(***************************************************************************)
(* One lemma per group of actions.                                         *)
(***************************************************************************)
LEMMA ChildStep ==
  ASSUME IInv, Child
  PROVE  IInv'
<1> USE CommandAssumption
    DEF IInv, Counted, FinishedAtEnd, ChildReaped, GroupKilled, OnlyStraysLeave,
        ReturnedOk, AdoptedFromDead, Procs, Running, Truncated, Joined
<1>1. CASE SetGroup
  <2>1. TypeOK'
    BY <1>1 DEF SetGroup, TypeOK
  <2>2. OnlyStraysLeave'
    BY <1>1 DEF SetGroup, TypeOK
  <2>3. Counted' /\ FinishedAtEnd' /\ ChildReaped' /\ GroupKilled' /\ ReturnedOk' /\ AdoptedFromDead'
    BY <1>1 DEF SetGroup, TypeOK
  <2>. QED
    BY <2>1, <2>2, <2>3
<1>2. CASE TieToParent
  BY <1>2 DEF TieToParent, TypeOK
<1>3. CASE Exec /\ adopter = "init"
  <2>1. End({Nix}, "gone")
    BY <1>3 DEF Exec
  <2>2. /\ TypeOK' /\ group' \subseteq group /\ proc'[Nix] = "gone"
        /\ \A p \in Procs \ {Nix} : proc'[p] = proc[p] /\ (p \in group => p \in group')
    BY <1>3, <2>1, EndFacts DEF Exec, TypeOK
  <2>3. OnlyStraysLeave'
    BY <2>2
  <2>4. Counted' /\ FinishedAtEnd' /\ ChildReaped' /\ GroupKilled' /\ ReturnedOk' /\ AdoptedFromDead'
    BY <1>3, <2>2 DEF Exec
  <2>. QED
    BY <2>2, <2>3, <2>4
<1>4. CASE Exec /\ adopter # "init"
  BY <1>4 DEF Exec, TypeOK
<1>. QED
  BY <1>1, <1>2, <1>3, <1>4 DEF Child

LEMMA ProcessStep ==
  ASSUME IInv,
         \/ \E p \in Procs, h \in Helpers : Fork(p, h)
         \/ \E h \in Strays : LeaveGroup(h)
         \/ \E h \in Helpers, s \in Pipes : ClosePipe(h, s)
         \/ \E p \in Procs, s \in Pipes : Write(p, s)
         \/ \E p \in Procs : Exit(p)
  PROVE  IInv'
<1> USE CommandAssumption
    DEF IInv, Counted, FinishedAtEnd, ChildReaped, GroupKilled, OnlyStraysLeave,
        ReturnedOk, AdoptedFromDead, Procs, Running, Truncated, Joined
<1>1. ASSUME NEW p \in Procs, NEW h \in Helpers, Fork(p, h)
      PROVE  IInv'
  BY <1>1 DEF Fork, TypeOK
<1>2. ASSUME NEW h \in Strays, LeaveGroup(h)
      PROVE  IInv'
  BY <1>2 DEF LeaveGroup, TypeOK
<1>3. ASSUME NEW h \in Helpers, NEW s \in Pipes, ClosePipe(h, s)
      PROVE  IInv'
  BY <1>3 DEF ClosePipe, TypeOK
<1>4. ASSUME NEW p \in Procs, NEW s \in Pipes, Write(p, s)
      PROVE  IInv'
  BY <1>4 DEF Write, TypeOK
<1>5. ASSUME NEW p \in Procs, Exit(p)
      PROVE  IInv'
  BY <1>5, EndFacts DEF Exit, TypeOK
<1>. QED
  BY <1>1, <1>2, <1>3, <1>4, <1>5

LEMMA ReaderStep ==
  ASSUME IInv, NEW s \in Pipes, Take(s) \/ EndOfFile(s)
  PROVE  IInv'
<1> USE CommandAssumption
    DEF IInv, Counted, FinishedAtEnd, ChildReaped, GroupKilled, OnlyStraysLeave,
        ReturnedOk, AdoptedFromDead, Procs, Running, Truncated, Joined, childVars
<1>1. CASE Take(s)
  <2>1. taken'[s] \in 0..MaxWrites /\ pipe'[s] \in 0..Capacity
    BY <1>1 DEF Take, TypeOK
  <2>2. TypeOK'
    BY <1>1, <2>1 DEF Take, TypeOK
  <2>3. Counted'
    BY <1>1 DEF Take, TypeOK
  <2>4. FinishedAtEnd'
    BY <1>1 DEF Take, TypeOK
  <2>5. ReturnedOk'
    <3>1. reader[s] # "finished" /\ ~Joined /\ outcome # "ok"
      BY <1>1 DEF Take
    <3>. QED
      BY <1>1, <3>1 DEF Take
  <2>. QED
    BY <1>1, <2>2, <2>3, <2>4, <2>5 DEF Take
<1>2. CASE EndOfFile(s)
  BY <1>2 DEF EndOfFile, TypeOK
<1>. QED
  BY <1>1, <1>2

LEMMA ThreadStep ==
  ASSUME IInv, Thread \/ SpawnFails \/ DeadlinePasses \/ Crash
  PROVE  IInv'
<1> USE CommandAssumption
    DEF IInv, Counted, FinishedAtEnd, ChildReaped, GroupKilled, OnlyStraysLeave,
        ReturnedOk, AdoptedFromDead, Procs, Running, Truncated, Joined, childVars, Return
<1>1. CASE Spawned
  BY <1>1 DEF Spawned, TypeOK
<1>2. CASE Reap
  BY <1>2 DEF Reap, TypeOK
<1>3. CASE Expire
  <2>. DEFINE dead == group \cup {Nix}
  <2>1. dead \in SUBSET Procs /\ End(dead, "gone")
    BY <1>3 DEF Expire, TypeOK
  <2>. HIDE DEF dead
  <2>2. TypeOK' /\ group' \subseteq group /\ proc'[Nix] = "gone"
        /\ \A s \in Pipes : holders'[s] \subseteq holders[s]
    BY <1>3, <2>1, EndFacts DEF Expire, TypeOK, dead
  <2>3. group' = {} /\ \A p \in Procs : p \in group => proc'[p] = "gone"
    BY <1>3, <2>1, EndFacts DEF Expire, End, dead
  <2>4. \A p \in Procs \ dead : proc'[p] = proc[p] /\ p \notin group
    BY <2>1, EndFacts DEF dead
  <2>5. OnlyStraysLeave'
    BY <2>1, <2>2, <2>3, <2>4 DEF dead
  <2>. QED
    BY <1>3, <2>2, <2>3, <2>5 DEF Expire
<1>4. CASE JoinExpired
  BY <1>4 DEF JoinExpired, TypeOK
<1>5. CASE Drained
  BY <1>5 DEF Drained, TypeOK
<1>6. CASE SpawnFails
  BY <1>6, EndFacts DEF SpawnFails, TypeOK
<1>7. CASE DeadlinePasses
  BY <1>7 DEF DeadlinePasses, TypeOK
<1>8. CASE Crash
  <2>1. OnlyStraysLeave' /\ TypeOK' /\ ReturnedOk'
    <3>1. CASE proc[Nix] \in {"tied", "running", "zombie"}
      <4>1. End({Nix}, "gone")
        BY <1>8, <3>1 DEF Crash
      <4>2. /\ TypeOK' /\ proc'[Nix] = "gone"
            /\ \A p \in Procs \ {Nix} : proc'[p] = proc[p] /\ (p \in group => p \in group')
        BY <1>8, <4>1, EndFacts DEF Crash, TypeOK
      <4>. QED
        BY <1>8, <4>2 DEF Crash
    <3>2. CASE proc[Nix] \notin {"tied", "running", "zombie"}
      BY <1>8, <3>2 DEF Crash, TypeOK
    <3>. QED
      BY <3>1, <3>2
  <2>2. Counted' /\ FinishedAtEnd' /\ ChildReaped' /\ GroupKilled' /\ AdoptedFromDead'
    BY <1>8 DEF Crash
  <2>. QED
    BY <2>1, <2>2
<1>. QED
  BY <1>1, <1>2, <1>3, <1>4, <1>5, <1>6, <1>7, <1>8 DEF Thread

LEMMA NextIInv == IInv /\ [Next]_vars => IInv'
<1>1. ASSUME IInv, Next
      PROVE  IInv'
  BY <1>1, ChildStep, ProcessStep, ReaderStep, ThreadStep DEF Next
<1>2. ASSUME IInv, UNCHANGED vars
      PROVE  IInv'
  BY <1>2 DEF vars, childVars, IInv, TypeOK, Counted, FinishedAtEnd, ChildReaped, GroupKilled,
      OnlyStraysLeave, ReturnedOk, AdoptedFromDead, Running, Truncated, Joined
<1>. QED
  BY <1>1, <1>2

-----------------------------------------------------------------------------
(***************************************************************************)
(* The theorems.                                                           *)
(***************************************************************************)
THEOREM CommandInv == Spec => []IInv
  BY InitIInv, NextIInv, PTL DEF Spec

\* A successful command hands over all of its stdout, whoever wrote it, for any
\* tree of helpers and any number of strays.
THEOREM CommandComplete == Spec => []CompleteOnSuccess
<1>1. IInv => CompleteOnSuccess
  BY CommandAssumption DEF IInv, TypeOK, Counted, FinishedAtEnd, ReturnedOk, Truncated, Joined,
     CompleteOnSuccess, Kept, Pipes
<1>. QED
  BY <1>1, CommandInv, PTL

\* The child is reaped, and a timeout leaves nothing of the process group alive,
\* nor anything at all if no stray was born.
THEOREM CommandLeavesNothing == Spec => []NothingLeft
<1>1. IInv => NothingLeft
  BY DEF IInv, ChildReaped, GroupKilled, OnlyStraysLeave, NothingLeft
<1>. QED
  BY <1>1, CommandInv, PTL
=============================================================================
