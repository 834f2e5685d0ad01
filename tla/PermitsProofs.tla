---------------------------- MODULE PermitsProofs ----------------------------
(***************************************************************************)
(* Proofs about Permits, for any finite set of callers and any number of   *)
(* permits.  The inductive invariant is IInv: the counter is exact, it     *)
(* stays within its bound, and no wake-up is lost.  The last two need the  *)
(* first, and the lost wake-up needs the bound: a sleeper that finds every *)
(* permit out must know that `out' means exactly MaxRealizations.          *)
(***************************************************************************)
EXTENDS Permits, FiniteSetTheorems, TLAPS


IInv == TypeOK /\ PermitsCounted /\ NoLostWakeup

Seated(f, s) == {c \in Callers : f[c] = s}

Size(f, s) == Cardinality(Seated(f, s))

LEMMA InIsSeated == \A s : In(s) = Seated(seat, s)
  BY DEF In, Seated

\* Any set of callers is finite, so its size is a number.
LEMMA SizeNat ==
  ASSUME NEW f, NEW s
  PROVE  IsFiniteSet(Seated(f, s)) /\ Size(f, s) \in Nat
<1>1. Seated(f, s) \in SUBSET Callers
  BY DEF Seated
<1>2. IsFiniteSet(Seated(f, s))
  BY <1>1, FS_Subset, PermitAssumption
<1>. QED
  BY <1>2, FS_CardinalityType DEF Size

\* Moving a caller to a new place adds it to that place, takes it from its old
\* one, and leaves every other place alone.
Moved(f, c, s) == [f EXCEPT ![c] = s]

LEMMA Reseat ==
  ASSUME NEW f \in [Callers -> Seats], NEW c \in Callers, NEW s, f[c] # s
  PROVE  /\ Size(Moved(f, c, s), s) = Size(f, s) + 1
         /\ Size(Moved(f, c, s), f[c]) = Size(f, f[c]) - 1
         /\ \A t : t # s /\ t # f[c] => Size(Moved(f, c, s), t) = Size(f, t)
<1>. DEFINE g == Moved(f, c, s)
<1>1. /\ Seated(g, s) = Seated(f, s) \cup {c}
      /\ c \notin Seated(f, s)
  BY DEF Seated, Moved
<1>2. /\ Seated(g, f[c]) = Seated(f, f[c]) \ {c}
      /\ c \in Seated(f, f[c])
  BY DEF Seated, Moved
<1>3. \A t : t # s /\ t # f[c] => Seated(g, t) = Seated(f, t)
  BY DEF Seated, Moved
<1>4. Size(g, s) = Size(f, s) + 1
  BY <1>1, SizeNat, FS_AddElement DEF Size
<1>5. Size(g, f[c]) = Size(f, f[c]) - 1
  BY <1>2, SizeNat, FS_RemoveElement DEF Size
<1>6. \A t : t # s /\ t # f[c] => Size(g, t) = Size(f, t)
  BY <1>3 DEF Size
<1>. QED
  BY <1>4, <1>5, <1>6

\* IInv in terms of Size, which is what the steps below compute with.
Counted(f, n) ==
  /\ n = Size(f, "held")
  /\ n <= MaxRealizations
  /\ Size(f, "asleep") > 0 => n + Size(f, "notified") >= MaxRealizations

LEMMA CountedIsInv == TypeOK => (IInv <=> Counted(seat, active))
<1>1. Seated(seat, "asleep") # {} <=> Size(seat, "asleep") > 0
  BY SizeNat, FS_EmptySet DEF Size
<1>. QED
  BY <1>1, InIsSeated DEF IInv, PermitsCounted, NoLostWakeup, Counted, Size

LEMMA CountedIsInvPrime == TypeOK' => (IInv' <=> Counted(seat', active'))
<1>1. \A s : In(s)' = Seated(seat', s)
  BY DEF In, Seated
<1>2. Seated(seat', "asleep") # {} <=> Size(seat', "asleep") > 0
  BY SizeNat, FS_EmptySet DEF Size
<1>. QED
  BY <1>1, <1>2 DEF IInv, PermitsCounted, NoLostWakeup, Counted, Size

LEMMA InitInv == Init => IInv
<1>. SUFFICES ASSUME Init PROVE IInv
  OBVIOUS
<1>1. TypeOK
  BY DEF Init, TypeOK, Seats
<1>2. Seated(seat, "held") = {} /\ Seated(seat, "asleep") = {}
  BY DEF Init, Seated
<1>3. Size(seat, "held") = 0 /\ Size(seat, "asleep") = 0
  BY <1>2, FS_EmptySet DEF Size
<1>. QED
  BY <1>1, <1>3, CountedIsInv, PermitAssumption DEF Counted, Init

LEMMA TypeStep == TypeOK /\ PermitsCounted /\ [Next]_vars => TypeOK'
<1>. SUFFICES ASSUME TypeOK, PermitsCounted, [Next]_vars PROVE TypeOK'
  OBVIOUS
<1>1. CASE UNCHANGED vars
  BY <1>1 DEF TypeOK, vars
<1>2. ASSUME NEW c \in Callers, Drop(c) PROVE TypeOK'
  <2>1. c \in Seated(seat, "held")
    BY <1>2 DEF Drop, Seated
  <2>2. active \in Nat /\ active # 0
    BY <2>1, SizeNat, FS_EmptySet, InIsSeated DEF PermitsCounted, TypeOK, Size
  <2>3. seat' \in [Callers -> Seats]
    BY <1>2 DEF Drop, TypeOK, In, Seats
  <2>. QED
    BY <1>2, <2>2, <2>3 DEF Drop, TypeOK
<1>3. ASSUME NEW c \in Callers,
             Ask(c) \/ AcquireStep(c) \/ SpuriousWake(c) \/ DeadlinePasses(c)
      PROVE TypeOK'
  <2>1. active' \in Nat
    BY <1>3 DEF TypeOK, Ask, AcquireStep, Take, Sleep, Refuse, WaitRunsOut,
                SpuriousWake, DeadlinePasses, permitVars
  <2>2. seat' \in [Callers -> Seats]
    BY <1>3 DEF TypeOK, Ask, AcquireStep, Take, Sleep, Refuse, WaitRunsOut,
                SpuriousWake, DeadlinePasses, permitVars, Move, Seats
  <2>3. late' \in [Callers -> BOOLEAN]
    <3>1. CASE DeadlinePasses(c)
      BY <3>1 DEF TypeOK, DeadlinePasses
    <3>2. CASE ~DeadlinePasses(c)
      BY <1>3, <3>2 DEF TypeOK, Ask, AcquireStep, Take, Sleep, Refuse,
                        WaitRunsOut, SpuriousWake
    <3>. QED
      BY <3>1, <3>2
  <2>. QED
    BY <2>1, <2>2, <2>3 DEF TypeOK
<1>. QED
  BY <1>1, <1>2, <1>3 DEF Next

\* Drop moves one permit from the caller to a sleeper, if there is one.
LEMMA DropStep ==
  ASSUME IInv, NEW c \in Callers, Drop(c)
  PROVE  Counted(seat', active')
<1>. DEFINE given == Moved(seat, c, "out")
<1>1. TypeOK /\ Counted(seat, active)
  BY CountedIsInv DEF IInv
<1>2. /\ given \in [Callers -> Seats]
      /\ Size(given, "held") = Size(seat, "held") - 1
      /\ Size(given, "asleep") = Size(seat, "asleep")
      /\ Size(given, "notified") = Size(seat, "notified")
  <2>1. seat \in [Callers -> Seats] /\ seat[c] = "held"
    BY <1>1 DEF TypeOK, Drop
  <2>2. given \in [Callers -> Seats]
    BY <2>1 DEF Moved, Seats
  <2>. QED
    BY <2>1, <2>2, Reseat
<1>3. active' = active - 1
  BY DEF Drop
<1>4. active \in Nat /\ MaxRealizations \in Nat
  BY <1>1, PermitAssumption DEF TypeOK
<1>5. CASE In("asleep") = {}
  <2>1. seat' = given
    BY <1>5 DEF Drop, Moved
  <2>2. Size(seat, "asleep") = 0
    BY <1>5, InIsSeated, FS_EmptySet DEF Size
  <2>. QED
    BY <1>1, <1>2, <1>3, <1>4, <2>1, <2>2 DEF Counted
<1>6. CASE In("asleep") # {}
  <2>1. PICK s \in In("asleep") : seat' = Moved(given, s, "notified")
    BY <1>6 DEF Drop, Moved
  <2>2. s \in Callers /\ given[s] = "asleep"
    BY DEF In, Drop, Moved
  <2>4. /\ Size(seat', "notified") = Size(given, "notified") + 1
        /\ Size(seat', "asleep") = Size(given, "asleep") - 1
        /\ Size(seat', "held") = Size(given, "held")
    BY <1>2, <2>1, <2>2, Reseat
  <2>5. Size(seat, "asleep") > 0
    BY <1>6, InIsSeated, SizeNat, FS_EmptySet DEF Size
  <2>6. /\ Size(seat, "held") \in Nat /\ Size(seat, "notified") \in Nat
        /\ Size(seat, "asleep") \in Nat
    BY SizeNat
  <2>. QED
    BY <1>1, <1>2, <1>3, <1>4, <2>4, <2>5, <2>6 DEF Counted
<1>. QED
  BY <1>5, <1>6

\* Every other step moves one caller from a place p to a place s.
LEMMA MoveStep ==
  ASSUME IInv, NEW c \in Callers,
         AcquireStep(c) \/ Ask(c) \/ SpuriousWake(c)
  PROVE  Counted(seat', active')
<1>1. TypeOK /\ Counted(seat, active)
  BY CountedIsInv DEF IInv
<1>2. /\ active \in Nat /\ MaxRealizations \in Nat
      /\ Size(seat, "held") \in Nat /\ Size(seat, "asleep") \in Nat
      /\ Size(seat, "notified") \in Nat
      /\ seat \in [Callers -> Seats]
  BY <1>1, SizeNat, PermitAssumption DEF TypeOK
<1>3. CASE Take(c)
  <2>1. /\ seat[c] \in {"want", "notified", "expired"}
        /\ seat' = Moved(seat, c, "held")
        /\ active' = active + 1
        /\ active < MaxRealizations
    BY <1>2, <1>3 DEF Take, Move, Moved, Full
  <2>2. /\ Size(seat', "held") = Size(seat, "held") + 1
        /\ Size(seat', "asleep") = Size(seat, "asleep")
        /\ Size(seat', "notified") >= Size(seat, "notified") - 1
    <3>1. \/ Size(seat', "notified") = Size(seat, "notified") - 1
          \/ Size(seat', "notified") = Size(seat, "notified")
      BY <1>2, <2>1, Reseat
    <3>2. /\ Size(seat', "held") = Size(seat, "held") + 1
          /\ Size(seat', "asleep") = Size(seat, "asleep")
      BY <1>2, <2>1, Reseat
    <3>. QED
      BY <1>2, <3>1, <3>2
  <2>3. Size(seat', "notified") \in Nat
    BY SizeNat
  <2>. QED
    BY <1>1, <1>2, <2>1, <2>2, <2>3 DEF Counted
<1>4. CASE Sleep(c) \/ Refuse(c)
  <2>1. /\ active' = active
        /\ active >= MaxRealizations
        /\ seat[c] \in {"want", "notified", "expired"}
        /\ \/ seat' = Moved(seat, c, "asleep")
           \/ seat' = Moved(seat, c, "refused")
    BY <1>4 DEF Sleep, Refuse, Move, Moved, Full
  <2>3. Size(seat', "held") = Size(seat, "held")
    BY <1>2, <2>1, Reseat
  <2>4. Size(seat', "notified") \in Nat
    BY SizeNat
  <2>. QED
    BY <1>1, <1>2, <2>1, <2>3, <2>4 DEF Counted
<1>5. CASE SpuriousWake(c) \/ WaitRunsOut(c) \/ Ask(c)
  <2>1. /\ active' = active
        /\ \/ seat[c] = "asleep" /\ seat' = Moved(seat, c, "notified")
           \/ seat[c] = "asleep" /\ seat' = Moved(seat, c, "expired")
           \/ seat[c] = "out" /\ seat' = Moved(seat, c, "want")
    BY <1>5 DEF SpuriousWake, WaitRunsOut, Ask, Move, Moved
  <2>2. /\ Size(seat', "held") = Size(seat, "held")
        /\ Size(seat', "asleep") <= Size(seat, "asleep")
        /\ Size(seat', "notified") >= Size(seat, "notified")
    <3>1. CASE seat[c] = "asleep" /\ seat' = Moved(seat, c, "notified")
      <4>1. /\ Size(seat', "notified") = Size(seat, "notified") + 1
            /\ Size(seat', "asleep") = Size(seat, "asleep") - 1
            /\ Size(seat', "held") = Size(seat, "held")
        BY <1>2, <3>1, Reseat
      <4>. QED
        BY <1>2, <4>1
    <3>2. CASE seat[c] = "asleep" /\ seat' = Moved(seat, c, "expired")
      <4>1. /\ Size(seat', "notified") = Size(seat, "notified")
            /\ Size(seat', "asleep") = Size(seat, "asleep") - 1
            /\ Size(seat', "held") = Size(seat, "held")
        BY <1>2, <3>2, Reseat
      <4>. QED
        BY <1>2, <4>1
    <3>3. CASE seat[c] = "out" /\ seat' = Moved(seat, c, "want")
      <4>1. /\ Size(seat', "notified") = Size(seat, "notified")
            /\ Size(seat', "asleep") = Size(seat, "asleep")
            /\ Size(seat', "held") = Size(seat, "held")
        BY <1>2, <3>3, Reseat
      <4>. QED
        BY <1>2, <4>1
    <3>. QED
      BY <2>1, <3>1, <3>2, <3>3
  <2>3. Size(seat', "notified") \in Nat /\ Size(seat', "asleep") \in Nat
    BY SizeNat
  <2>. QED
    BY <1>1, <1>2, <2>1, <2>2, <2>3 DEF Counted
<1>. QED
  BY <1>3, <1>4, <1>5 DEF AcquireStep

LEMMA NextInv == IInv /\ [Next]_vars => IInv'
<1>. SUFFICES ASSUME IInv, [Next]_vars PROVE IInv'
  OBVIOUS
<1>1. TypeOK'
  BY TypeStep DEF IInv
<1>2. Counted(seat', active') => IInv'
  BY <1>1, CountedIsInvPrime
<1>3. CASE UNCHANGED vars \/ \E c \in Callers : DeadlinePasses(c)
  <2>1. active' = active /\ seat' = seat
    BY <1>3 DEF vars, DeadlinePasses, permitVars
  <2>2. Counted(seat, active)
    BY CountedIsInv DEF IInv
  <2>. QED
    BY <1>2, <2>1, <2>2
<1>4. CASE \E c \in Callers : Drop(c)
  BY <1>2, <1>4, DropStep
<1>5. CASE \E c \in Callers : AcquireStep(c) \/ Ask(c) \/ SpuriousWake(c)
  BY <1>2, <1>5, MoveStep
<1>. QED
  BY <1>3, <1>4, <1>5 DEF Next

\* The permits keep their types, whatever the number of callers and permits.
THEOREM PermitsTypeCorrect == Spec => []TypeOK
<1>1. IInv => TypeOK
  BY DEF IInv
<1>. QED
  BY <1>1, InitInv, NextInv, PTL DEF Spec

\* At most max_realizations Nix commands run at once, and the counter is exact
\* (acquire_permit, Permit::drop).
THEOREM PermitsBounded == Spec => []PermitsCounted
<1>1. IInv => PermitsCounted
  BY DEF IInv
<1>. QED
  BY <1>1, InitInv, NextInv, PTL DEF Spec

\* No wake-up of permit_ready is lost: the single notify_one of Permit::drop is
\* enough, in spite of barging, spurious wake-ups and timeouts.
THEOREM PermitsWake == Spec => []NoLostWakeup
<1>1. IInv => NoLostWakeup
  BY DEF IInv
<1>. QED
  BY <1>1, InitInv, NextInv, PTL DEF Spec

-----------------------------------------------------------------------------
(***************************************************************************)
(* Refinement: the callers that hold a Permit are the holders of the       *)
(* semaphore, the refused callers are those it turned away.                *)
(***************************************************************************)
\* The instance's Cardinality is the operator of FiniteSets.
LEMMA SameCardinality == \A S : Sem!Cardinality(S) = Cardinality(S)
  BY DEF Sem!Cardinality, Cardinality

LEMMA RefineInit == Init => Sem!Init
  BY DEF Init, Sem!Init, In

LEMMA RefineTake ==
  ASSUME IInv, NEW c \in Callers, Take(c)
  PROVE  Sem!Take(c)
<1>1. /\ c \notin In("held") \cup In("refused")
      /\ In("held")' = In("held") \cup {c}
      /\ In("refused")' = In("refused")
  BY DEF IInv, TypeOK, Take, Move, In
<1>2. Cardinality(In("held")) < MaxRealizations
  BY PermitAssumption DEF IInv, TypeOK, PermitsCounted, Take, Full
<1>. QED
  BY <1>1, <1>2, SameCardinality DEF Sem!Take

LEMMA RefineDrop ==
  ASSUME IInv, NEW c \in Callers, Drop(c)
  PROVE  Sem!Give(c)
<1>1. c \in In("held")
  BY DEF Drop, In
<1>2. In("held")' = In("held") \ {c} /\ In("refused")' = In("refused")
  BY DEF IInv, TypeOK, Drop, In
<1>. QED
  BY <1>1, <1>2 DEF Sem!Give

\* A refusal is read off a counter that is at least MaxRealizations, which by
\* the invariant means that exactly MaxRealizations permits are out.
LEMMA RefineRefuse ==
  ASSUME IInv, NEW c \in Callers, Refuse(c)
  PROVE  Sem!TurnAway(c)
<1>1. /\ c \notin In("held") \cup In("refused")
      /\ In("refused")' = In("refused") \cup {c}
      /\ In("held")' = In("held")
  BY DEF IInv, TypeOK, Refuse, Move, In
<1>2. Cardinality(In("held")) = MaxRealizations
  BY PermitAssumption DEF IInv, TypeOK, PermitsCounted, Refuse, Full
<1>. QED
  BY <1>1, <1>2, SameCardinality DEF Sem!TurnAway

LEMMA RefineStutter ==
  ASSUME IInv, NEW c \in Callers,
         \/ Ask(c) \/ Sleep(c) \/ WaitRunsOut(c)
         \/ SpuriousWake(c) \/ DeadlinePasses(c)
  PROVE  UNCHANGED <<In("held"), In("refused")>>
  BY DEF IInv, TypeOK, Ask, Sleep, WaitRunsOut, SpuriousWake, DeadlinePasses,
         permitVars, Move, In

LEMMA RefineNext ==
  IInv /\ [Next]_vars => [Sem!Next]_<<In("held"), In("refused")>>
<1>. SUFFICES ASSUME IInv, [Next]_vars
              PROVE  [Sem!Next]_<<In("held"), In("refused")>>
  OBVIOUS
<1>1. CASE UNCHANGED vars
  BY <1>1 DEF vars, In
<1>2. ASSUME NEW c \in Callers,
             Ask(c) \/ AcquireStep(c) \/ Drop(c) \/ SpuriousWake(c) \/ DeadlinePasses(c)
      PROVE  [Sem!Next]_<<In("held"), In("refused")>>
  BY <1>2, RefineTake, RefineDrop, RefineRefuse, RefineStutter
     DEF AcquireStep, Sem!Next
<1>. QED
  BY <1>1, <1>2 DEF Next

\* acquire_permit and Permit::drop implement the semaphore: a bounded number of
\* holders, and a timeout only while every permit is out.
THEOREM PermitsImplementSemaphore == Spec => SemaphoreSpec
  BY InitInv, NextInv, RefineInit, RefineNext, PTL
     DEF Spec, SemaphoreSpec, Sem!Spec
=============================================================================
