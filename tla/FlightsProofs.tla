---------------------------- MODULE FlightsProofs ----------------------------
(***************************************************************************)
(* Proofs about Flights, for any finite set of callers and any keys.  A    *)
(* flight without a result still has its leader aboard, at work or dead,   *)
(* so its head count cannot come to one while somebody else leaves, and    *)
(* nobody is on the way to unlist it: that is why who waits, waits for a   *)
(* listed flight, and why a key has one worker.                            *)
(***************************************************************************)
EXTENDS Flights, FiniteSetTheorems, TLAPS

\* Those the count of flight f stands for.
Crew(f) == {c \in Callers : flight[c] = f /\ stage[c] \in Aboard \cup {"dead"}}

Crewed == \A f \in Callers : callers[f] = Cardinality(Crew(f))

\* A caller is in the flight of a leader with its key, or in none.
Linked == \A c \in Callers :
  /\ flight[c] # Nobody => KeyOf[flight[c]] = KeyOf[c] /\ flight[flight[c]] = flight[c]
  /\ stage[c] = "new" => flight[c] = Nobody
  /\ stage[c] \in Aboard \cup {"unlist", "dead"} => flight[c] # Nobody
  /\ stage[c] = "lead" => flight[c] = c

\* What the registry lists is a flight of that key.
Listing == \A k \in Keys :
  flights[k] # Nobody => KeyOf[flights[k]] = k /\ flight[flights[k]] = flights[k]

\* A flight without a result is listed, and its leader is still counted.
Open == \A f \in Callers :
  flight[f] = f /\ result[f] = "none" => stage[f] \in {"lead", "dead"} /\ flights[KeyOf[f]] = f

\* Whoever is the last has a result behind it.
Last == \A c \in Callers : stage[c] = "unlist" => result[flight[c]] # "none"

\* What a caller is told it is told once, and only by the stage it comes to.
Told == \A c \in Callers :
  /\ stage[c] \in {"new", "lead"} => result[c] = "none"
  /\ stage[c] \in {"new", "lead", "look", "asleep", "expired", "register"} => answer[c] = "none"
  /\ stage[c] = "register" => result[flight[c]] = "ok"

Core == TypeOK /\ Linked /\ Listing /\ Open /\ Last /\ Told /\ NobodySleepsPastResult

IInv == Core /\ Crewed /\ ListedIsHeld

LEMMA CrewIsFinite ==
  \A f : IsFiniteSet(Crew(f)) /\ Cardinality(Crew(f)) \in Nat
<1>1. \A f : Crew(f) \subseteq Callers
  BY DEF Crew
<1>. QED
  BY <1>1, FS_Subset, FS_CardinalityType, FlightAssumption

LEMMA InitInv == Init => IInv
<1>. SUFFICES ASSUME Init PROVE IInv
  OBVIOUS
<1>1. Core
  BY FlightAssumption DEF Init, Core, TypeOK, Linked, Listing, Open, Last, Told,
                          NobodySleepsPastResult, Stages, Aboard, Outcomes
<1>2. ASSUME NEW f \in Callers PROVE callers[f] = Cardinality(Crew(f))
  <2>1. Crew(f) = {}
    BY FlightAssumption DEF Init, Crew
  <2>. QED
    BY <2>1, FS_EmptySet DEF Init
<1>3. ListedIsHeld
  BY DEF Init, ListedIsHeld
<1>. QED
  BY <1>1, <1>2, <1>3 DEF IInv, Crewed

\* Two callers aboard are more than one, and more than one are two.
LEMMA NotAlone ==
  ASSUME IInv, NEW f \in Callers, NEW c \in Crew(f)
  PROVE  callers[f] # 1 <=> \E d \in Crew(f) : d # c
<1>1. callers[f] = Cardinality(Crew(f))
  BY DEF IInv, Crewed
<1>2. Cardinality(Crew(f) \ {c}) = Cardinality(Crew(f)) - 1 /\ IsFiniteSet(Crew(f) \ {c})
  BY CrewIsFinite, FS_RemoveElement
<1>3. Cardinality(Crew(f) \ {c}) = 0 <=> Crew(f) \ {c} = {}
  BY <1>2, FS_EmptySet
<1>. QED
  BY <1>1, <1>2, <1>3, CrewIsFinite

-----------------------------------------------------------------------------
(***************************************************************************)
(* The flights and the registry.                                           *)
(***************************************************************************)
LEMMA BoardCore ==
  ASSUME IInv, NEW c \in Callers, Board(c)
  PROVE  Core'
<1>1. Core /\ KeyOf[c] \in Keys /\ Listed(c) \in Callers \cup {Nobody}
  BY FlightAssumption DEF IInv, Core, TypeOK, Listed
<1>2. stage[c] = "new" /\ flight[c] = Nobody /\ \A d \in Callers : flight[d] # c
  BY <1>1, FlightAssumption DEF Board, Core, Linked, TypeOK
<1>3. CASE Listed(c) # Nobody
  <2>. DEFINE f == Listed(c)
  <2>1. /\ f \in Callers /\ KeyOf[f] = KeyOf[c] /\ flight[f] = f /\ f # c
        /\ flight' = [flight EXCEPT ![c] = f] /\ stage' = [stage EXCEPT ![c] = "look"]
        /\ callers' = [callers EXCEPT ![f] = @ + 1]
        /\ UNCHANGED <<flights, result, answer, late>>
    BY <1>1, <1>2, <1>3 DEF Board, Core, Listing, Listed, To
  <2>2. TypeOK'
    BY <1>1, <2>1 DEF Core, TypeOK, Stages, Aboard
  <2>3. Linked' /\ Listing'
    BY <1>1, <1>2, <2>1, FlightAssumption DEF Core, TypeOK, Linked, Listing, Aboard
  <2>4. Open' /\ Last' /\ Told' /\ NobodySleepsPastResult'
    BY <1>1, <1>2, <2>1, FlightAssumption
       DEF Core, TypeOK, Open, Last, Told, NobodySleepsPastResult, Linked, Aboard
  <2>. QED
    BY <2>2, <2>3, <2>4 DEF Core
<1>4. CASE Listed(c) = Nobody
  <2>1. /\ flight' = [flight EXCEPT ![c] = c] /\ stage' = [stage EXCEPT ![c] = "lead"]
        /\ callers' = [callers EXCEPT ![c] = 1] /\ flights' = [flights EXCEPT ![KeyOf[c]] = c]
        /\ UNCHANGED <<result, answer, late>>
    BY <1>4 DEF Board, To
  <2>2. TypeOK'
    BY <1>1, <2>1 DEF Core, TypeOK, Stages, Aboard
  <2>3. Linked' /\ Listing'
    BY <1>1, <1>2, <2>1, FlightAssumption DEF Core, TypeOK, Linked, Listing, Aboard
  <2>4. Open'
    BY <1>1, <1>2, <1>4, <2>1, FlightAssumption DEF Core, TypeOK, Open, Listed
  <2>5. Last' /\ Told' /\ NobodySleepsPastResult'
    BY <1>1, <1>2, <2>1, FlightAssumption
       DEF Core, TypeOK, Last, Told, NobodySleepsPastResult, Linked, Aboard
  <2>. QED
    BY <2>2, <2>3, <2>4, <2>5 DEF Core
<1>. QED
  BY <1>3, <1>4

LEMMA PublishCore ==
  ASSUME IInv, NEW c \in Callers, NEW a \in Outcomes, Publish(c, a)
  PROVE  Core'
<1>1. Core /\ stage[c] = "lead" /\ flight[c] = c
  BY DEF IInv, Core, Linked, Publish
<1>2. /\ TypeOK
      /\ result' = [result EXCEPT ![c] = a] /\ a # "none" /\ answer' = [answer EXCEPT ![c] = a]
      /\ UNCHANGED <<flights, callers, flight, late>>
      /\ stage'[c] = "leave"
      /\ \A d \in Callers : d # c =>
           stage'[d] = IF stage[d] = "asleep" /\ flight[d] = c THEN "look" ELSE stage[d]
  BY <1>1 DEF Publish, Outcomes, Core
<1>3. TypeOK'
  BY <1>1, <1>2 DEF Publish, TypeOK, Stages, Aboard
<1>4. Linked' /\ Listing'
  BY <1>1, <1>2 DEF Core, Linked, Listing, Aboard
<1>5. Open' /\ Last'
  BY <1>1, <1>2 DEF Core, TypeOK, Open, Last
<1>6. Told'
  BY <1>1, <1>2, FlightAssumption DEF Core, TypeOK, Told, Linked, Aboard
<1>7. NobodySleepsPastResult'
  BY <1>1, <1>2, FlightAssumption DEF Core, TypeOK, NobodySleepsPastResult, Linked, Aboard
<1>. QED
  BY <1>3, <1>4, <1>5, <1>6, <1>7 DEF Core

\* The last caller leaves only when the leader has.
LEMMA LeaveCore ==
  ASSUME IInv, NEW c \in Callers, Leave(c)
  PROVE  Core'
<1>1. Core /\ stage[c] = "leave" /\ flight[c] \in Callers
  BY DEF IInv, Core, Linked, TypeOK, Leave, Aboard
<1>2. /\ stage' = [stage EXCEPT ![c] = IF callers[flight[c]] = 1 THEN "unlist" ELSE "done"]
      /\ UNCHANGED <<flights, result, flight, answer, late>>
  BY DEF Leave, To
<1>3. callers[flight[c]] = 1 => result[flight[c]] # "none"
  <2>1. SUFFICES ASSUME result[flight[c]] = "none" PROVE callers[flight[c]] # 1
    OBVIOUS
  <2>2. flight[c] \in Crew(flight[c]) /\ flight[c] # c
    BY <1>1, <2>1 DEF Core, Open, Linked, Crew, Aboard
  <2>3. c \in Crew(flight[c])
    BY <1>1 DEF Crew, Aboard
  <2>. QED
    BY <1>1, <2>2, <2>3, NotAlone
<1>4. callers' \in [Callers -> Nat]
  <2>1. c \in Crew(flight[c])
    BY <1>1 DEF Crew, Aboard
  <2>2. callers[flight[c]] # 0
    BY <1>1, <2>1, CrewIsFinite, FS_EmptySet DEF IInv, Crewed
  <2>. QED
    BY <1>1, <2>2 DEF Leave, Core, TypeOK
<1>5. TypeOK' /\ Linked' /\ Listing'
  BY <1>1, <1>2, <1>4 DEF Core, TypeOK, Stages, Aboard, Linked, Listing
<1>6. Open' /\ Last' /\ Told' /\ NobodySleepsPastResult'
  BY <1>1, <1>2, <1>3 DEF Core, TypeOK, Open, Last, Told, NobodySleepsPastResult
<1>. QED
  BY <1>5, <1>6 DEF Core

\* A flight without a result has nobody who would unlist it.
LEMMA UnlistCore ==
  ASSUME IInv, NEW c \in Callers, Unlist(c)
  PROVE  Core'
<1>1. /\ Core /\ stage[c] = "unlist" /\ flight[c] \in Callers /\ result[flight[c]] # "none"
      /\ KeyOf[c] \in Keys
  BY FlightAssumption DEF IInv, Core, Linked, TypeOK, Unlist, Last
<1>2. /\ stage' = [stage EXCEPT ![c] = "done"]
      /\ flights' = IF Listed(c) = flight[c] THEN [flights EXCEPT ![KeyOf[c]] = Nobody] ELSE flights
      /\ UNCHANGED <<callers, result, flight, answer, late>>
  BY DEF Unlist, To
<1>3. TypeOK' /\ Linked' /\ Listing'
  BY <1>1, <1>2 DEF Core, TypeOK, Stages, Aboard, Linked, Listing
<1>4. Open'
  BY <1>1, <1>2, FlightAssumption DEF Core, TypeOK, Open, Listed
<1>5. Last' /\ Told' /\ NobodySleepsPastResult'
  BY <1>1, <1>2 DEF Core, TypeOK, Last, Told, NobodySleepsPastResult
<1>. QED
  BY <1>3, <1>4, <1>5 DEF Core

\* What changes only where a caller is, and what it is told.
Moves(c) ==
  \/ Reject(c) \/ TakeResult(c) \/ Sleep(c) \/ GiveUp(c) \/ WaitRunsOut(c)
  \/ (\E a \in Outcomes : Registered(c, a)) \/ SpuriousWake(c) \/ Die(c)

LEMMA MoveFacts ==
  ASSUME IInv, NEW c \in Callers, Moves(c)
  PROVE  /\ UNCHANGED <<registry, flight, late>>
         /\ \E s \in Stages : stage' = [stage EXCEPT ![c] = s]
         /\ stage'[c] \in {"done", "dead", "look", "asleep", "expired", "register", "leave"}
         /\ stage[c] = "new" => stage'[c] = "done"
         /\ stage'[c] = "done" => stage[c] = "new"
         /\ stage[c] \in Aboard => stage'[c] \in Aboard \cup {"dead"}
         /\ stage[c] \in Aboard \cup {"new"}
         /\ stage[c] = "lead" => stage'[c] = "dead"
         /\ stage'[c] = "register" => result[flight[c]] = "ok"
         /\ stage'[c] = "asleep" => result[flight[c]] = "none"
         /\ \E b \in Outcomes \cup {"none"} : answer' = [answer EXCEPT ![c] = b]
         /\ stage'[c] \in {"look", "asleep", "expired", "register"} => answer' = answer
         /\ answer[c] = "none" \/ answer' = answer
         /\ stage[c] \in {"new", "look", "asleep", "expired", "register", "lead"}
<1>1. TypeOK /\ Told
  BY DEF IInv, Core
<1>2. CASE Reject(c)
  BY <1>1, <1>2 DEF Reject, TypeOK, To, registry,
     Stages, Aboard, Outcomes, Told
<1>3. CASE TakeResult(c)
  BY <1>1, <1>3 DEF TakeResult, Answer, TypeOK, To, registry,
     Stages, Aboard, Outcomes, Told
<1>4. CASE Sleep(c) \/ WaitRunsOut(c) \/ SpuriousWake(c)
  BY <1>1, <1>4 DEF Sleep, WaitRunsOut, SpuriousWake, TypeOK, To, registry,
     Stages, Aboard, Outcomes, Told
<1>5. CASE GiveUp(c)
  BY <1>1, <1>5 DEF GiveUp, Answer, TypeOK, To, registry,
     Stages, Aboard, Outcomes, Told
<1>6. CASE \E a \in Outcomes : Registered(c, a)
  <2>1. PICK a \in Outcomes : Registered(c, a)
    BY <1>6
  <2>2. /\ stage[c] = "register" /\ stage' = [stage EXCEPT ![c] = "leave"]
        /\ answer' = [answer EXCEPT ![c] = a] /\ answer[c] = "none"
        /\ UNCHANGED <<registry, flight, late>>
    BY <1>1, <2>1 DEF Registered, Answer, To, Told
  <2>. QED
    BY <1>1, <2>2 DEF TypeOK, registry, Stages, Aboard, Outcomes
<1>7. CASE Die(c)
  BY <1>1, <1>7 DEF Die, TypeOK, To, registry,
     Stages, Aboard, Outcomes, Told
<1>. QED
  BY <1>2, <1>3, <1>4, <1>5, <1>6, <1>7 DEF Moves

LEMMA MoveCore ==
  ASSUME IInv, NEW c \in Callers, Moves(c)
  PROVE  Core'
<1>1. Core
  BY DEF IInv
<1>2. TypeOK' /\ Linked' /\ Listing'
  BY <1>1, MoveFacts DEF Core, TypeOK, registry, Linked, Listing, Aboard
<1>3. Open' /\ Last'
  BY <1>1, MoveFacts DEF Core, TypeOK, registry, Open, Last
<1>4. Told' /\ NobodySleepsPastResult'
  BY <1>1, MoveFacts DEF Core, TypeOK, registry, Told, NobodySleepsPastResult
<1>. QED
  BY <1>2, <1>3, <1>4 DEF Core

-----------------------------------------------------------------------------
(***************************************************************************)
(* The head count, and who holds a listed flight.                          *)
(***************************************************************************)
LEMMA BoardCrew ==
  ASSUME IInv, NEW c \in Callers, Board(c)
  PROVE  Crewed' /\ ListedIsHeld'
<1>1. /\ Core /\ stage[c] = "new" /\ flight[c] = Nobody
      /\ c \notin {Nobody} /\ \A d \in Callers : flight[d] # c
      /\ Listed(c) \in Callers \cup {Nobody} /\ KeyOf[c] \in Keys
  BY FlightAssumption DEF IInv, Board, Core, Linked, TypeOK, Listed
<1>2. PICK f \in Callers :
      /\ Listed(c) # Nobody => f = Listed(c)
      /\ Listed(c) = Nobody => f = c
      /\ flight' = [flight EXCEPT ![c] = f]
      /\ stage'[c] \in {"look", "lead"} /\ \A d \in Callers : d # c => stage'[d] = stage[d]
      /\ callers' = [callers EXCEPT ![f] = IF Listed(c) # Nobody THEN @ + 1 ELSE 1]
      /\ flights' = IF Listed(c) # Nobody THEN flights ELSE [flights EXCEPT ![KeyOf[c]] = c]
  BY <1>1 DEF Board, To, Core, TypeOK
<1>3. Crew(f)' = Crew(f) \cup {c} /\ c \notin Crew(f)
  BY <1>1, <1>2 DEF Crew, Aboard, Core, TypeOK
<1>4. \A g \in Callers : g # f => Crew(g)' = Crew(g)
  BY <1>1, <1>2 DEF Crew, Aboard, Core, TypeOK
<1>5. Cardinality(Crew(f)') = Cardinality(Crew(f)) + 1
  BY <1>3, CrewIsFinite, FS_AddElement
<1>6. Listed(c) = Nobody => Cardinality(Crew(f)) = 0
  <2>1. Listed(c) = Nobody => Crew(f) = {}
    BY <1>1, <1>2 DEF Crew
  <2>. QED
    BY <2>1, FS_EmptySet
<1>7. Crewed'
  BY <1>1, <1>2, <1>4, <1>5, <1>6 DEF IInv, Crewed, Core, TypeOK
<1>8. ListedIsHeld'
  BY <1>1, <1>2, FlightAssumption DEF IInv, ListedIsHeld, Core, TypeOK, Aboard
<1>. QED
  BY <1>7, <1>8

LEMMA LeaveCrew ==
  ASSUME IInv, NEW c \in Callers, Leave(c)
  PROVE  Crewed' /\ ListedIsHeld'
<1>1. PICK f \in Callers : Core /\ stage[c] = "leave" /\ f = flight[c]
  BY DEF IInv, Core, Linked, TypeOK, Leave, Aboard
<1>2. /\ stage' = [stage EXCEPT ![c] = IF callers[f] = 1 THEN "unlist" ELSE "done"]
      /\ callers' = [callers EXCEPT ![f] = @ - 1]
      /\ UNCHANGED <<flights, flight>>
  BY <1>1 DEF Leave, To
<1>3. c \in Crew(f) /\ Crew(f)' = Crew(f) \ {c}
  BY <1>1, <1>2 DEF Crew, Aboard, Core, TypeOK
<1>4. \A g \in Callers : g # f => Crew(g)' = Crew(g)
  BY <1>1, <1>2 DEF Crew, Core, TypeOK
<1>5. Cardinality(Crew(f)') = Cardinality(Crew(f)) - 1
  BY <1>3, CrewIsFinite, FS_RemoveElement
<1>6. Crewed'
  BY <1>1, <1>2, <1>4, <1>5 DEF IInv, Crewed, Core, TypeOK
<1>7. ListedIsHeld'
  <2>1. CASE callers[f] = 1
    BY <1>1, <1>2, <2>1 DEF IInv, ListedIsHeld, Core, TypeOK
  <2>2. CASE callers[f] # 1
    <3>1. PICK d \in Crew(f) : d # c
      BY <1>1, <1>3, <2>2, NotAlone
    <3>2. d \in Callers /\ flight[d] = f /\ stage'[d] \in Aboard \cup {"dead"}
      BY <1>1, <1>2, <3>1 DEF Crew, Core, TypeOK
    <3>. QED
      BY <1>1, <1>2, <3>2 DEF IInv, ListedIsHeld, Core, TypeOK
  <2>. QED
    BY <2>1, <2>2
<1>. QED
  BY <1>6, <1>7

LEMMA UnlistCrew ==
  ASSUME IInv, NEW c \in Callers, Unlist(c)
  PROVE  Crewed' /\ ListedIsHeld'
<1>1. /\ Core /\ stage[c] = "unlist" /\ flight[c] \in Callers /\ KeyOf[c] \in Keys
      /\ KeyOf[flight[c]] = KeyOf[c]
  BY FlightAssumption DEF IInv, Core, Linked, TypeOK, Unlist
<1>2. /\ stage' = [stage EXCEPT ![c] = "done"]
      /\ flights' = IF flights[KeyOf[c]] = flight[c]
                    THEN [flights EXCEPT ![KeyOf[c]] = Nobody] ELSE flights
      /\ UNCHANGED <<callers, flight>>
  BY DEF Unlist, To, Listed
<1>3. \A f \in Callers : Crew(f)' = Crew(f)
  BY <1>1, <1>2 DEF Crew, Aboard, Core, TypeOK
<1>4. Crewed'
  BY <1>2, <1>3 DEF IInv, Crewed
<1>5. ASSUME NEW k \in Keys, flights'[k] # Nobody
      PROVE  \E e \in Callers :
               flight'[e] = flights'[k] /\ stage'[e] \in Aboard \cup {"unlist", "dead"}
  <2>1. flights'[k] = flights[k]
    BY <1>1, <1>2, <1>5 DEF Core, TypeOK
  <2>2. PICK e \in Callers : flight[e] = flights[k] /\ stage[e] \in Aboard \cup {"unlist", "dead"}
    BY <1>5, <2>1 DEF IInv, ListedIsHeld
  <2>3. e # c
    BY <1>1, <1>2, <1>5, <2>1, <2>2 DEF Core, TypeOK, Listing
  <2>. QED
    BY <1>1, <1>2, <2>1, <2>2, <2>3 DEF Core, TypeOK
<1>. QED
  BY <1>4, <1>5 DEF ListedIsHeld

\* Who stays aboard, or dies there, is counted as before.
LEMMA StayCrew ==
  ASSUME IInv, UNCHANGED <<flights, callers, flight>>,
         \A d \in Callers : \/ stage'[d] = stage[d]
                            \/ stage[d] \in Aboard /\ stage'[d] \in Aboard \cup {"dead"}
                            \/ flight[d] = Nobody
  PROVE  Crewed' /\ ListedIsHeld'
<1>1. \A f \in Callers : Crew(f)' = Crew(f)
  BY FlightAssumption DEF Crew, Aboard
<1>2. ListedIsHeld'
  BY FlightAssumption DEF IInv, ListedIsHeld, Aboard
<1>. QED
  BY <1>1, <1>2 DEF IInv, Crewed

LEMMA MoveCrew ==
  ASSUME IInv, NEW c \in Callers, Moves(c)
  PROVE  Crewed' /\ ListedIsHeld'
<1>1. /\ UNCHANGED <<flights, callers, flight>>
      /\ stage[c] = "new" => flight[c] = Nobody
      /\ \A d \in Callers : d # c => stage'[d] = stage[d]
  BY MoveFacts DEF registry, IInv, Core, TypeOK, Linked
<1>. QED
  BY <1>1, MoveFacts, StayCrew

LEMMA PublishCrew ==
  ASSUME IInv, NEW c \in Callers, NEW a \in Outcomes, Publish(c, a)
  PROVE  Crewed' /\ ListedIsHeld'
<1>1. /\ UNCHANGED <<flights, callers, flight>>
      /\ \A d \in Callers : \/ stage'[d] = stage[d]
                            \/ stage[d] \in Aboard /\ stage'[d] \in Aboard \cup {"dead"}
  BY DEF Publish, Aboard
<1>. QED
  BY <1>1, StayCrew

LEMMA NextInv == IInv /\ [Next]_vars => IInv'
<1>. SUFFICES ASSUME IInv, [Next]_vars PROVE IInv'
  OBVIOUS
<1>1. CASE UNCHANGED <<flights, callers, result, stage, flight, answer>> /\ late' \in [Callers -> BOOLEAN]
  BY <1>1 DEF IInv, Core, TypeOK, Linked, Listing, Open, Last, Told, NobodySleepsPastResult,
              ListedIsHeld, Crewed, Crew
<1>2. ASSUME NEW c \in Callers, Board(c) PROVE IInv'
  BY <1>2, BoardCore, BoardCrew DEF IInv
<1>3. ASSUME NEW c \in Callers, NEW a \in Outcomes, Publish(c, a) PROVE IInv'
  BY <1>3, PublishCore, PublishCrew DEF IInv
<1>4. ASSUME NEW c \in Callers, Leave(c) PROVE IInv'
  BY <1>4, LeaveCore, LeaveCrew DEF IInv
<1>5. ASSUME NEW c \in Callers, Unlist(c) PROVE IInv'
  BY <1>5, UnlistCore, UnlistCrew DEF IInv
<1>6. ASSUME NEW c \in Callers, Moves(c) PROVE IInv'
  BY <1>6, MoveCore, MoveCrew DEF IInv
<1>7. CASE UNCHANGED vars
  BY <1>1, <1>7 DEF vars, IInv, Core, TypeOK
<1>8. CASE \E c \in Callers : DeadlinePasses(c)
  BY <1>1, <1>8 DEF DeadlinePasses, flightVars, IInv, Core, TypeOK
<1>. QED
  BY <1>2, <1>3, <1>4, <1>5, <1>6, <1>7, <1>8 DEF Next, ThreadStep, WorkEnds, Moves

\* Whoever waits, waits for a flight that later callers of its key will find.
LEMMA WaitersAreListed == IInv => WaitsForListed
<1>. SUFFICES ASSUME IInv, NEW c \in Callers,
                     stage[c] \in {"look", "asleep", "expired"}, result[flight[c]] = "none"
              PROVE  Listed(c) = flight[c]
  BY DEF WaitsForListed
<1>1. flight[c] \in Callers /\ flight[flight[c]] = flight[c] /\ KeyOf[flight[c]] = KeyOf[c]
  BY DEF IInv, Core, TypeOK, Linked, Aboard
<1>. QED
  BY <1>1 DEF IInv, Core, Open, Listed

\* Nobody ever waits for a flight that newcomers cannot find, in spite of the two
\* locks of release_flight (wait_for_flight, release_flight).
THEOREM FlightsWaitForListed == Spec => []WaitsForListed
  BY WaitersAreListed, InitInv, NextInv, PTL DEF Spec

\* Nobody sleeps on a flight whose result is out (notify_all).
THEOREM FlightsWake == Spec => []NobodySleepsPastResult
<1>1. IInv => NobodySleepsPastResult
  BY DEF IInv, Core
<1>. QED
  BY <1>1, InitInv, NextInv, PTL DEF Spec

\* The registry does not leak: a listed flight has somebody aboard, on the way to
\* unlist it, or dead (release_flight).
THEOREM FlightsAreHeld == Spec => []ListedIsHeld
<1>1. IInv => ListedIsHeld
  BY DEF IInv
<1>. QED
  BY <1>1, InitInv, NextInv, PTL DEF Spec

-----------------------------------------------------------------------------
(***************************************************************************)
(* Refinement: the worker of a key is the caller that leads its flight,    *)
(* and a key is made once some flight of it has a success.                 *)
(***************************************************************************)
Worker == [k \in Keys |-> WorkerOf(k)]

Made == {KeyOf[f] : f \in {g \in Callers : result[g] = "ok"}}

OneWorker == \A k \in Keys :
  /\ WorkerOf(k) \in Callers \cup {Nobody}
  /\ \A c \in Callers : WorkerOf(k) = c <=> stage[c] = "lead" /\ KeyOf[c] = k

LEMMA LeaderIsWorker == IInv => OneWorker
<1>. SUFFICES ASSUME IInv, NEW k \in Keys
              PROVE  /\ WorkerOf(k) \in Callers \cup {Nobody}
                     /\ \A c \in Callers : WorkerOf(k) = c <=> stage[c] = "lead" /\ KeyOf[c] = k
  BY DEF OneWorker
<1>. DEFINE leaders == {c \in Callers : stage[c] = "lead" /\ KeyOf[c] = k}
<1>1. \A c, d \in leaders : c = d
  BY DEF IInv, Core, Linked, Open, Told
<1>2. CASE leaders = {}
  BY <1>2, FlightAssumption DEF WorkerOf
<1>3. CASE leaders # {}
  <2>1. WorkerOf(k) \in leaders
    BY <1>3 DEF WorkerOf
  <2>. QED
    BY <1>1, <2>1
<1>. QED
  BY <1>2, <1>3

LEMMA LeaderIsWorkerPrime == IInv' => OneWorker'
  BY LeaderIsWorker, PTL

LEMMA RefineInit == Init => Coal!Init
<1>. SUFFICES ASSUME Init PROVE Coal!Init
  OBVIOUS
<1>1. Worker = [k \in Keys |-> Nobody]
  BY DEF Init, Worker, WorkerOf
<1>2. Made = {}
  BY DEF Init, Made
<1>. QED
  BY <1>1, <1>2 DEF Init, Coal!Init, Worker, Made

\* The worker of a key is who leads.
LEMMA SameWorker ==
  ASSUME IInv, IInv', \A d \in Callers : stage'[d] = "lead" <=> stage[d] = "lead"
  PROVE  Worker' = Worker
<1>1. \A k \in Keys : WorkerOf(k)' = WorkerOf(k)
  BY LeaderIsWorker, LeaderIsWorkerPrime, FlightAssumption DEF OneWorker
<1>. QED
  BY <1>1 DEF Worker

\* A caller that comes to lead a flight begins, because no flight of its key was
\* listed, and a flight that is led is.
LEMMA RefineBoard ==
  ASSUME IInv, IInv', NEW c \in Callers, Board(c)
  PROVE  Coal!Begin(c) \/ UNCHANGED <<Worker, Made, answer>>
<1>1. /\ Core /\ stage[c] = "new" /\ answer[c] = "none" /\ KeyOf[c] \in Keys
      /\ answer' = answer /\ Made' = Made
  BY FlightAssumption DEF IInv, Board, Core, Told, Made
<1>2. CASE Listed(c) # Nobody
  <2>1. stage' = [stage EXCEPT ![c] = "look"]
    BY <1>2 DEF Board, To
  <2>. QED
    BY <1>1, <2>1, SameWorker DEF Core, TypeOK
<1>3. CASE Listed(c) = Nobody
  <2>1. stage' = [stage EXCEPT ![c] = "lead"]
    BY <1>3 DEF Board, To
  <2>2. \A d \in Callers : KeyOf[d] = KeyOf[c] => stage[d] # "lead"
    BY <1>1, <1>3, FlightAssumption DEF Core, Linked, Open, Told, Listed
  <2>3. WorkerOf(KeyOf[c]) = Nobody
    BY <1>1, <2>2, LeaderIsWorker DEF OneWorker
  <2>4. \A k \in Keys : WorkerOf(k)' = IF k = KeyOf[c] THEN c ELSE WorkerOf(k)
    BY <1>1, <2>1, LeaderIsWorker, LeaderIsWorkerPrime, FlightAssumption DEF OneWorker, Core, TypeOK
  <2>5. Worker' = [Worker EXCEPT ![KeyOf[c]] = c] /\ Worker[KeyOf[c]] = Nobody
    BY <1>1, <2>3, <2>4 DEF Worker
  <2>. QED
    BY <1>1, <2>5 DEF Coal!Begin, Worker, Made
<1>. QED
  BY <1>2, <1>3

\* A leader that stops leads no more, and nobody else leads its key.
LEMMA StopsWorking ==
  ASSUME IInv, IInv', NEW c \in Callers, stage[c] = "lead",
         \A d \in Callers : stage'[d] = "lead" <=> d # c /\ stage[d] = "lead"
  PROVE  Worker[KeyOf[c]] = c /\ Worker' = [Worker EXCEPT ![KeyOf[c]] = Nobody]
<1>1. KeyOf[c] \in Keys /\ WorkerOf(KeyOf[c]) = c
  BY FlightAssumption, LeaderIsWorker DEF OneWorker
<1>2. \A k \in Keys : WorkerOf(k)' = IF k = KeyOf[c] THEN Nobody ELSE WorkerOf(k)
  BY <1>1, LeaderIsWorker, LeaderIsWorkerPrime, FlightAssumption DEF OneWorker
<1>. QED
  BY <1>1, <1>2 DEF Worker

LEMMA RefinePublish ==
  ASSUME IInv, IInv', NEW c \in Callers, NEW a \in Outcomes, Publish(c, a)
  PROVE  Coal!Stop(c)
<1>1. /\ TypeOK /\ stage[c] = "lead" /\ result[c] = "none" /\ answer[c] = "none"
      /\ result' = [result EXCEPT ![c] = a] /\ answer' = [answer EXCEPT ![c] = a]
  BY DEF IInv, Core, Told, Publish
<1>2. \A d \in Callers : stage'[d] = "lead" <=> d # c /\ stage[d] = "lead"
  BY DEF Publish
<1>3. Worker[KeyOf[c]] = c /\ Worker' = [Worker EXCEPT ![KeyOf[c]] = Nobody]
  BY <1>1, <1>2, StopsWorking
<1>4. CASE a = "ok"
  <2>1. \A g \in Callers : result'[g] = "ok" <=> g = c \/ result[g] = "ok"
    BY <1>1, <1>4 DEF TypeOK
  <2>2. Made' = Made \cup {KeyOf[c]}
    BY <2>1 DEF Made
  <2>. QED
    BY <1>1, <1>3, <1>4, <2>2 DEF Coal!Stop, Coal!Tell, Worker, Made
<1>5. CASE a = "failed"
  <2>1. \A g \in Callers : result'[g] = "ok" <=> result[g] = "ok"
    BY <1>1, <1>5 DEF TypeOK
  <2>2. Made' = Made
    BY <2>1 DEF Made
  <2>. QED
    BY <1>1, <1>3, <1>5, <2>2 DEF Coal!Stop, Coal!Tell, Worker, Made
<1>. QED
  BY <1>4, <1>5 DEF Outcomes

LEMMA RefineDie ==
  ASSUME IInv, IInv', NEW c \in Callers, Die(c)
  PROVE  Coal!Stop(c) \/ UNCHANGED <<Worker, Made, answer>>
<1>1. /\ stage' = [stage EXCEPT ![c] = "dead"] /\ stage[c] \in {"lead", "register"}
      /\ answer' = answer /\ Made' = Made /\ TypeOK
  BY DEF Die, To, registry, Made, IInv, Core
<1>2. CASE stage[c] = "lead"
  <2>1. Worker[KeyOf[c]] = c /\ Worker' = [Worker EXCEPT ![KeyOf[c]] = Nobody]
    BY <1>1, <1>2, StopsWorking DEF TypeOK
  <2>. QED
    BY <1>1, <2>1 DEF Coal!Stop, Worker, Made
<1>3. CASE stage[c] = "register"
  BY <1>1, <1>3, SameWorker DEF TypeOK
<1>. QED
  BY <1>1, <1>2, <1>3

\* Whoever does not lead is told of a success of its key, or of a failure.
LEMMA RefineTold ==
  ASSUME IInv, IInv', NEW c \in Callers, Moves(c), ~Die(c)
  PROVE  Coal!Share(c) \/ Coal!Refuse(c) \/ UNCHANGED <<Worker, Made, answer>>
<1>1. /\ stage[c] # "lead" /\ Made' = Made
      /\ \A d \in Callers : stage'[d] = "lead" <=> stage[d] = "lead"
  <2>1. stage[c] # "lead" /\ result' = result
    BY DEF Moves, Reject, TakeResult, Sleep, GiveUp, WaitRunsOut, Registered, SpuriousWake, registry
  <2>. QED
    BY <2>1, MoveFacts DEF Made, IInv, Core, TypeOK
<1>2. Worker' = Worker /\ Worker[KeyOf[c]] # c
  <2>1. KeyOf[c] \in Keys /\ WorkerOf(KeyOf[c]) # c
    BY <1>1, LeaderIsWorker, FlightAssumption DEF OneWorker
  <2>. QED
    BY <1>1, <2>1, SameWorker DEF Worker
<1>3. ASSUME answer[c] = "none", answer' = [answer EXCEPT ![c] = "failed"]
      PROVE  Coal!Refuse(c)
  BY <1>1, <1>2, <1>3 DEF Coal!Refuse, Coal!Tell, Worker, Made
<1>4. ASSUME answer[c] = "none", answer' = [answer EXCEPT ![c] = "ok"], KeyOf[c] \in Made
      PROVE  Coal!Share(c)
  BY <1>1, <1>2, <1>4 DEF Coal!Share, Coal!Tell, Worker, Made
<1>5. stage[c] \in {"new", "look", "asleep", "expired", "register"} => answer[c] = "none"
  BY DEF IInv, Core, Told
<1>6. stage[c] = "register" => KeyOf[c] \in Made
  BY DEF IInv, Core, Told, Linked, Made, TypeOK, Aboard
<1>7. CASE Reject(c) \/ GiveUp(c)
  BY <1>3, <1>5, <1>7 DEF Reject, GiveUp, Answer
<1>8. CASE TakeResult(c)
  BY <1>1, <1>2, <1>3, <1>5, <1>8 DEF TakeResult, Answer
<1>9. CASE \E a \in Outcomes : Registered(c, a)
  BY <1>3, <1>4, <1>5, <1>6, <1>9 DEF Registered, Answer, Outcomes
<1>10. CASE Sleep(c) \/ WaitRunsOut(c) \/ SpuriousWake(c)
  BY <1>1, <1>2, <1>10 DEF Sleep, WaitRunsOut, SpuriousWake
<1>. QED
  BY <1>7, <1>8, <1>9, <1>10 DEF Moves

LEMMA RefineNext ==
  IInv /\ IInv' /\ [Next]_vars => [Coal!Next]_<<Worker, Made, answer>>
<1>. SUFFICES ASSUME IInv, IInv', [Next]_vars
              PROVE  Coal!Next \/ UNCHANGED <<Worker, Made, answer>>
  OBVIOUS
<1>1. ASSUME NEW c \in Callers, Board(c)
      PROVE  Coal!Next \/ UNCHANGED <<Worker, Made, answer>>
  BY <1>1, RefineBoard DEF Coal!Next
<1>2. ASSUME NEW c \in Callers, NEW a \in Outcomes, Publish(c, a)
      PROVE  Coal!Next
  BY <1>2, RefinePublish DEF Coal!Next
<1>3. ASSUME NEW c \in Callers, Die(c)
      PROVE  Coal!Next \/ UNCHANGED <<Worker, Made, answer>>
  BY <1>3, RefineDie DEF Coal!Next
<1>4. ASSUME NEW c \in Callers, Moves(c), ~Die(c)
      PROVE  Coal!Next \/ UNCHANGED <<Worker, Made, answer>>
  BY <1>4, RefineTold DEF Coal!Next
<1>5. ASSUME NEW c \in Callers, Leave(c) \/ Unlist(c)
      PROVE  UNCHANGED <<Worker, Made, answer>>
  <2>1. /\ stage[c] \in {"leave", "unlist"} /\ stage'[c] \in {"unlist", "done"}
        /\ \A d \in Callers : d # c => stage'[d] = stage[d]
        /\ answer' = answer /\ result' = result
    BY <1>5 DEF Leave, Unlist, To, IInv, Core, TypeOK
  <2>. QED
    BY <2>1, SameWorker DEF Made
<1>6. CASE UNCHANGED vars \/ \E c \in Callers : DeadlinePasses(c)
  <2>1. stage' = stage /\ answer' = answer /\ result' = result
    BY <1>6 DEF vars, DeadlinePasses, flightVars
  <2>. QED
    BY <2>1, SameWorker DEF Made
<1>. QED
  BY <1>1, <1>2, <1>3, <1>4, <1>5, <1>6 DEF Next, ThreadStep, WorkEnds, Moves

\* resolve_detailed, wait_for_flight and release_flight implement coalescing: a
\* key has one worker at a time, and who is told of a success worked for it or
\* shares one of its own key.
THEOREM FlightsImplementCoalescing == Spec => CoalescingSpec
  BY InitInv, NextInv, RefineInit, RefineNext, PTL
     DEF Spec, CoalescingSpec, Coal!Spec, Worker, Made
=============================================================================
