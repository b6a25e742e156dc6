------------------------- MODULE VacancyClock_proof -------------------------
(***************************************************************************)
(* Proofs about VacancyClock, for every set of durations and reasons and   *)
(* every bound on the clock: its types, that a count never exceeds the     *)
(* time the room was watched for, and that the timer is always set for the *)
(* next duration not yet reached.                                          *)
(***************************************************************************)
EXTENDS VacancyClock, WellFoundedInduction, TLAPS

USE ClockAssumption DEF Time, Occupancy

(* A set of naturals that is not empty has a least element.                *)
LEMMA MinExists ==
    ASSUME NEW S \in SUBSET Nat, S # {}
    PROVE  Min(S) \in S /\ \A t \in S : Min(S) =< t
<1>1. PICK m \in S : \A t \in S : ~ (<<t, m>> \in OpToRel(<, Nat))
  BY NatLessThanWellFounded, WFMin
<1>2. ASSUME NEW t \in S, t < m PROVE FALSE
  <2>1. <<t, m>> \in {pair \in Nat \X Nat : pair[1] < pair[2]}
    BY <1>2
  <2> QED
    BY <1>1, <2>1 DEF OpToRel
<1>3. \A t \in S : m =< t
  BY <1>2
<1> QED
  BY <1>3 DEF Min

(* The memory an evaluation leaves: none unless the room was seen empty,   *)
(* and then a moment that is not after the evaluation.                     *)
LEMMA MemoryType ==
    ASSUME NEW occ \in Occupancy, NEW last \in Time \cup {None}, NEW time \in Time
    PROVE  /\ Memory(occ, last, time) \in Time \cup {None}
           /\ Memory(occ, last, time) # None <=> occ = "empty"
           /\ occ = "empty" => Memory(occ, last, time) =< time
BY DEF Memory, Since

(* The observation it derives is a reason or a count that is not negative. *)
LEMMA UnoccupiedForType ==
    ASSUME NEW occ \in Occupancy, NEW last \in Time \cup {None}, NEW time \in Time
    PROVE  /\ UnoccupiedFor(occ, last, time) \in Nat \cup Reason
           /\ UnoccupiedFor(occ, last, time) \in Int <=> occ \notin Reason
           /\ occ = "occupied" => UnoccupiedFor(occ, last, time) = 0
           /\ occ = "empty" => UnoccupiedFor(occ, last, time) = time - Memory(occ, last, time)
BY DEF UnoccupiedFor, Since, Memory

(* The wake-up is the least boundary ahead, and off only without one.      *)
LEMMA NextWakeUpLeast ==
    ASSUME NEW start \in Time \cup {None}, NEW time \in Time,
           NEW w, w = NextWakeUp(start, time)
    PROVE  /\ w \in Nat \cup {None}
           /\ w # None => /\ start # None /\ w > time
                          /\ \E d \in Duration : w = start + d
           /\ \A d \in Duration :
                 start # None /\ start + d > time => w # None /\ w =< start + d
<1> DEFINE Ahead == IF start = None THEN {} ELSE {t \in Boundaries(start) : t > time}
<1>1. w = IF Ahead = {} THEN None ELSE Min(Ahead)
  BY DEF NextWakeUp
<1>2. Ahead \in SUBSET Nat
  BY DEF Boundaries
<1>3. \A d \in Duration : start # None /\ start + d > time => start + d \in Ahead
  BY DEF Boundaries
<1>4. CASE Ahead = {}
  BY <1>1, <1>3, <1>4
<1>5. CASE Ahead # {}
  <2>1. w \in Ahead /\ \A t \in Ahead : w =< t
    BY <1>1, <1>2, <1>5, MinExists
  <2>2. w \in Nat /\ w # None /\ w > time /\ start # None
    BY <2>1, <1>2
  <2>3. \E d \in Duration : w = start + d
    BY <2>1, <2>2 DEF Boundaries
  <2> QED
    BY <1>3, <2>1, <2>2, <2>3
<1> QED
  BY <1>4, <1>5

(* The time since s is less than d just when the boundary s + d is ahead.   *)
LEMMA ElapsedBelow ==
    ASSUME NEW s \in Nat, NEW t \in Nat, NEW d \in Nat
    PROVE  t - s < d <=> s + d > t
OBVIOUS

\* What was watched and gained together is never negative.
LEMMA SumNotNegative ==
    ASSUME NEW m \in Nat, NEW n \in Nat
    PROVE  0 =< m + n
OBVIOUS

-----------------------------------------------------------------------------
LEMMA TypeInit == Init => TypeOK
BY DEF Init, TypeOK

LEMMA TypeNext == TypeOK /\ [Next]_vars => TypeOK'
<1> SUFFICES ASSUME TypeOK, [Next]_vars PROVE TypeOK'
  OBVIOUS
<1> USE DEF TypeOK
<1>1. CASE Evaluate
  <2>1. reading' \in Nat \cup Reason
    BY <1>1, UnoccupiedForType DEF Evaluate
  <2>2. since' \in Time \cup {None}
    BY <1>1, MemoryType DEF Evaluate
  <2>3. wakeUp' \in Nat \cup {None}
    BY <1>1, <2>2, NextWakeUpLeast DEF Evaluate
  <2> QED
    BY <1>1, <2>1, <2>2, <2>3 DEF Evaluate
<1>2. ASSUME NEW occ \in Occupancy, Sense(occ) PROVE TypeOK'
  BY <1>2 DEF Sense
<1>3. CASE Tick
  BY <1>3 DEF Tick
<1>4. ASSUME NEW time \in Time, Correct(time) PROVE TypeOK'
  BY <1>4 DEF Correct
<1>5. CASE Restart
  BY <1>5 DEF Restart
<1>6. CASE UNCHANGED vars
  BY <1>6 DEF vars
<1> QED
  BY <1>1, <1>2, <1>3, <1>4, <1>5, <1>6 DEF Next

(* TypeOK is an invariant of the clock.                                    *)
THEOREM TypeCorrect == Spec => []TypeOK
BY TypeInit, TypeNext, PTL DEF Spec

-----------------------------------------------------------------------------
LEMMA ClockInit == Init => ClockInv
BY DEF Init, ClockInv, NeverOvercounts

LEMMA ClockNext == TypeOK /\ ClockInv /\ [Next]_vars => ClockInv'
<1> SUFFICES ASSUME TypeOK, ClockInv, [Next]_vars PROVE ClockInv'
  OBVIOUS
<1> USE DEF TypeOK, ClockInv, NeverOvercounts
<1>1. CASE Evaluate
  <2>1. /\ since' \in Time \cup {None}
        /\ since' # None <=> seen' = "empty"
        /\ since' # None => since' =< now
    BY <1>1, MemoryType DEF Evaluate
  <2>2. /\ reading' \in Nat \cup Reason
        /\ reading' \in Int <=> seen' \notin Reason
        /\ seen' = "occupied" => reading' = 0
        /\ seen' = "empty" => reading' = now - since'
    BY <1>1, UnoccupiedForType DEF Evaluate
  <2>3. seen' \in Occupancy /\ now' = now /\ watched' \in Nat /\ gained' \in Nat
    BY <1>1 DEF Evaluate
  <2>4. seen' = "empty" => now - since' =< watched' + gained'
    BY <1>1 DEF Evaluate, Memory, Since
  <2>5. NeverOvercounts'
    <3>1. CASE seen' = "occupied"
      <4>1. reading' = 0
        BY ONLY <2>2, <3>1
      <4>2. 0 =< watched' + gained'
        BY <2>3, SumNotNegative
      <4> QED
        BY ONLY <4>1, <4>2 DEF NeverOvercounts
    <3>2. CASE seen' = "empty"
      <4>1. reading' = now - since' /\ reading' \in Nat
        BY <2>2, <3>2
      <4> QED
        BY <2>4, <3>2, <4>1
    <3>3. CASE seen' \in Reason
      BY <2>2, <3>3
    <3> QED
      BY <2>3, <3>1, <3>2, <3>3
  <2>6. since' # None => now' - since' =< watched' + gained'
    BY <2>1, <2>3, <2>4
  <2>7. reading' \in Int => seen' \in {"occupied", "empty"}
    BY <2>2, <2>3
  <2> QED
    BY <2>1, <2>2, <2>5, <2>6, <2>7
<1>2. ASSUME NEW occ \in Occupancy, Sense(occ) PROVE ClockInv'
  BY <1>2 DEF Sense
<1>3. CASE Tick
  BY <1>3 DEF Tick
<1>4. ASSUME NEW time \in Time, Correct(time) PROVE ClockInv'
  BY <1>4 DEF Correct
<1>5. CASE Restart
  BY <1>5 DEF Restart
<1>6. CASE UNCHANGED vars
  BY <1>6 DEF vars
<1> QED
  BY <1>1, <1>2, <1>3, <1>4, <1>5, <1>6 DEF Next

(* The inductive invariant holds throughout.                               *)
THEOREM ClockSafe == Spec => []ClockInv
<1>1. Init => TypeOK /\ ClockInv
  BY TypeInit, ClockInit
<1>2. TypeOK /\ ClockInv /\ [Next]_vars => (TypeOK /\ ClockInv)'
  BY TypeNext, ClockNext
<1> QED
  BY <1>1, <1>2, PTL DEF Spec

(* A room is never said to have been empty for longer than it was watched. *)
THEOREM NoOvercount == Spec => []NeverOvercounts
<1>1. ClockInv => NeverOvercounts
  BY DEF ClockInv
<1> QED
  BY <1>1, ClockSafe, PTL

-----------------------------------------------------------------------------
(* The reading, the memory and the timer change together.                  *)
LEMMA WakeNext ==
    TypeOK /\ WakesForNextDuration /\ [Next]_vars => WakesForNextDuration'
<1> SUFFICES ASSUME TypeOK, WakesForNextDuration, [Next]_vars
             PROVE  WakesForNextDuration'
  OBVIOUS
<1> USE DEF TypeOK, WakesForNextDuration
<1>1. CASE Evaluate
  <2>1. since' \in Time \cup {None} /\ (since' # None <=> occupancy = "empty")
    BY <1>1, MemoryType DEF Evaluate
  <2>2. since' # None => reading' = now - since'
    BY <1>1, <2>1, UnoccupiedForType DEF Evaluate
  <2>3. wakeUp' = NextWakeUp(since', now)
    BY <1>1 DEF Evaluate
  <2>n. now \in Time
    OBVIOUS
  <2>4. /\ wakeUp' \in Nat \cup {None}
        /\ wakeUp' # None => /\ since' # None /\ wakeUp' > now
                             /\ \E d \in Duration : wakeUp' = since' + d
        /\ \A d \in Duration :
              since' # None /\ since' + d > now => wakeUp' # None /\ wakeUp' =< since' + d
    BY ONLY <2>1, <2>3, <2>n, NextWakeUpLeast
  <2>5. \A d \in Duration : since' # None =>
            (reading' < d <=> since' + d > now)
    <3> SUFFICES ASSUME NEW d \in Duration, since' # None
                 PROVE  reading' < d <=> since' + d > now
      OBVIOUS
    <3>1. since' \in Nat /\ d \in Nat /\ now \in Nat
      BY <2>1, <2>n
    <3>2. reading' = now - since'
      BY <2>2
    <3> QED
      BY <3>1, <3>2, ElapsedBelow
  <2>6. wakeUp' # None => since' # None /\ wakeUp' \in Int /\ since' \in Int
    BY <2>1, <2>4
  <2>7. \A d \in Duration : since' # None /\ reading' < d => wakeUp' # None /\ wakeUp' =< since' + d
    BY <2>4, <2>5
  <2>8. wakeUp' # None =>
            since' # None /\ \E d \in Duration : reading' < d /\ wakeUp' = since' + d
    BY <2>4, <2>5, <2>6
  <2> QED
    BY <2>7, <2>8
<1>2. CASE UNCHANGED <<since, reading, wakeUp>>
  BY <1>2
<1>3. CASE Restart
  BY <1>3 DEF Restart
<1> QED
  BY <1>1, <1>2, <1>3 DEF Next, Sense, Tick, Correct, vars

(* The timer is always set for the next duration not yet reached.          *)
THEOREM WakesInTime == Spec => []WakesForNextDuration
<1>1. Init => WakesForNextDuration
  BY DEF Init, WakesForNextDuration
<1> QED
  BY <1>1, WakeNext, TypeCorrect, PTL DEF Spec

=============================================================================
