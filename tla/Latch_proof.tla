---------------------------- MODULE Latch_proof ----------------------------
(***************************************************************************)
(* Proofs about Latch, for all integer readings, boundaries and bands.     *)
(***************************************************************************)
EXTENDS Latch, TLAPS

USE LatchAssumption

(* Every threshold that can be resolved is one, with its boundaries in     *)
(* order and a band that is not negative.                                  *)
LEMMA ResolvedType ==
    ASSUME NEW t \in Resolved
    PROVE  t \in Threshold /\ WellOrdered(t) /\ Width(t) \in Nat
BY DEF Resolved, Rising, Falling, Threshold, Direction, WellOrdered, Width

(* Whether a threshold is met is always a yes or a no.                     *)
LEMMA IsMetType ==
    ASSUME NEW t \in Threshold, NEW v \in Value, NEW active \in BOOLEAN
    PROVE  is_met(t, v, active) \in BOOLEAN
<1> DEFINE x == IF active THEN t.deactivate_at ELSE t.activate_at
<1>1. x \in Int /\ v \in Int
  BY DEF Threshold
<1> HIDE DEF x
<1>2. (v >= x) \in BOOLEAN /\ (v =< x) \in BOOLEAN
  BY <1>1
<1>3. CASE t.direction = "rising"
  BY <1>2, <1>3, Zenon DEF is_met, above_with_hysteresis, x
<1>4. CASE t.direction # "rising"
  BY <1>2, <1>4, Zenon DEF is_met, below_with_hysteresis, x
<1> QED
  BY <1>3, <1>4

LEMMA TypeInit == Init => TypeOK
BY ResolvedType DEF Init, TypeOK

LEMMA TypeNext == TypeOK /\ [Next]_vars => TypeOK'
<1> SUFFICES ASSUME TypeOK, [Next]_vars PROVE TypeOK'
  OBVIOUS
<1>1. ASSUME NEW v \in Value, Evaluate(v) PROVE TypeOK'
  <2>1. matching' \in BOOLEAN
    BY <1>1, IsMetType DEF Evaluate, TypeOK
  <2> QED
    BY <1>1, <2>1 DEF Evaluate, TypeOK, WellOrdered
<1>2. CASE Lose
  <2>1. matching' \in BOOLEAN
    BY <1>2, Zenon DEF Lose
  <2> QED
    BY <1>2, <2>1 DEF Lose, TypeOK, WellOrdered
<1>3. CASE UNCHANGED vars
  BY <1>3 DEF vars, TypeOK, WellOrdered
<1> QED
  BY <1>1, <1>2, <1>3 DEF Next

(* TypeOK, with the order of the boundaries, is an invariant.              *)
THEOREM TypeCorrect == Spec => []TypeOK
BY TypeInit, TypeNext, PTL DEF Spec

LEMMA BoundaryNext ==
    TypeOK /\ LatchInv /\ TurnedAtBoundary /\ [Next]_vars
        => LatchInv' /\ TurnedAtBoundary'
<1> SUFFICES ASSUME TypeOK, LatchInv, TurnedAtBoundary, [Next]_vars
             PROVE  LatchInv' /\ TurnedAtBoundary'
  OBVIOUS
<1> USE DEF TypeOK, LatchInv, TurnedAtBoundary, Threshold, Direction, WellOrdered
<1>1. ASSUME NEW v \in Value, Evaluate(v) PROVE LatchInv' /\ TurnedAtBoundary'
  <2>1. /\ threshold' = threshold /\ value' = v /\ v \in Int
        /\ matching' = is_met(threshold, v, matching)
        /\ turned' = IF matching' # matching THEN v ELSE turned
        /\ matching \in BOOLEAN /\ matching' \in BOOLEAN
        /\ turned \in Int \cup {Unreadable}
    BY <1>1, IsMetType DEF Evaluate
  <2>2. /\ threshold.activate_at \in Int /\ threshold.deactivate_at \in Int
        /\ threshold' = threshold /\ value' = v /\ v \in Int
        /\ turned \in Int \cup {Unreadable}
    BY <2>1
  <2>3. CASE threshold.direction = "rising" /\ matching
    <3>1. ((v >= threshold.deactivate_at) /\ matching') \/ (~(v >= threshold.deactivate_at) /\ ~matching')
      BY <2>1, <2>3, Zenon DEF is_met, above_with_hysteresis
    <3>2. turned' = IF matching' THEN turned ELSE v
      BY <2>1, <2>3
    <3>3. threshold.deactivate_at =< threshold.activate_at
      BY <2>3
    <3>4. turned # Unreadable => turned >= threshold.activate_at
      BY <2>3
    <3>5. CASE matching'
      <4>1. turned' = turned
        BY <3>2, <3>5
      <4> QED
        BY <2>2, <2>3, <3>1, <3>4, <3>5, <4>1
    <3>6. CASE ~matching'
      <4>1. turned' = v
        BY <3>2, <3>6
      <4> QED
        BY <2>2, <2>3, <3>1, <3>3, <3>6, <4>1
    <3> QED
      BY <3>5, <3>6
  <2>4. CASE threshold.direction = "rising" /\ ~matching
    <3>1. ((v >= threshold.activate_at) /\ matching') \/ (~(v >= threshold.activate_at) /\ ~matching')
      <4>1. (IF matching THEN threshold.deactivate_at ELSE threshold.activate_at)
                = threshold.activate_at
        BY <2>4
      <4> QED
        BY <2>1, <2>4, <4>1, Zenon DEF is_met, above_with_hysteresis
    <3>2. turned' = IF matching' THEN v ELSE turned
      BY <2>1, <2>4
    <3> QED
      BY <2>1, <2>2, <2>4, <3>1, <3>2
  <2>5. CASE threshold.direction = "falling" /\ matching
    <3>1. ((v =< threshold.deactivate_at) /\ matching') \/ (~(v =< threshold.deactivate_at) /\ ~matching')
      BY <2>1, <2>5, Zenon DEF is_met, below_with_hysteresis
    <3>2. turned' = IF matching' THEN turned ELSE v
      BY <2>1, <2>5
    <3>3. threshold.deactivate_at >= threshold.activate_at
      BY <2>5
    <3>4. turned # Unreadable => turned =< threshold.activate_at
      BY <2>5
    <3>5. CASE matching'
      <4>1. turned' = turned
        BY <3>2, <3>5
      <4> QED
        BY <2>2, <2>5, <3>1, <3>4, <3>5, <4>1
    <3>6. CASE ~matching'
      <4>1. turned' = v
        BY <3>2, <3>6
      <4> QED
        BY <2>2, <2>5, <3>1, <3>3, <3>6, <4>1
    <3> QED
      BY <3>5, <3>6
  <2>6. CASE threshold.direction = "falling" /\ ~matching
    <3>1. ((v =< threshold.activate_at) /\ matching') \/ (~(v =< threshold.activate_at) /\ ~matching')
      <4>1. (IF matching THEN threshold.deactivate_at ELSE threshold.activate_at)
                = threshold.activate_at
        BY <2>6
      <4> QED
        BY <2>1, <2>6, <4>1, Zenon DEF is_met, below_with_hysteresis
    <3>2. turned' = IF matching' THEN v ELSE turned
      BY <2>1, <2>6
    <3> QED
      BY <2>1, <2>2, <2>6, <3>1, <3>2
  <2> QED
    BY <2>3, <2>4, <2>5, <2>6
<1>2. CASE Lose
  BY <1>2 DEF Lose
<1>3. CASE UNCHANGED vars
  BY <1>3 DEF vars
<1> QED
  BY <1>1, <1>2, <1>3 DEF Next

(* A condition is met where it starts, not met beyond where it stops, and  *)
(* its last change was past the boundary of that change.                   *)
THEOREM LatchSafe == Spec => [](LatchInv /\ TurnedAtBoundary)
<1>1. Init => LatchInv /\ TurnedAtBoundary
  BY DEF Init, LatchInv, TurnedAtBoundary
<1> QED
  BY <1>1, BoundaryNext, TypeCorrect, PTL DEF Spec

(* Every change of a condition happens past the boundary that is in force, *)
(* the starting one to start and the stopping one to stop.                 *)
THEOREM BoundarySafe == Spec => []TurnedAtBoundary
<1> QED
  BY LatchSafe, PTL

(* Two changes are always more than the band apart.                        *)
THEOREM Chatterless == Spec => NoChatter
<1> DEFINE Apart == (matching' # matching /\ value' # Unreadable /\ turned # Unreadable)
                        => Distance(value', turned) > Width(threshold)
<1>1. TypeOK /\ TurnedAtBoundary /\ [Next]_vars => [Apart]_vars
  <2> SUFFICES ASSUME TypeOK, TurnedAtBoundary, [Next]_vars,
                      matching' # matching, value' # Unreadable, turned # Unreadable
               PROVE  Distance(value', turned) > Width(threshold)
    BY DEF vars
  <2>1. PICK v \in Value : Evaluate(v)
    BY DEF Next, Lose, vars
  <2>2. value' = v /\ v \in Int /\ turned \in Int /\ matching' = is_met(threshold, v, matching)
        /\ matching \in BOOLEAN /\ matching' \in BOOLEAN
    BY <2>1, IsMetType DEF Evaluate, TypeOK
  <2>3. threshold.activate_at \in Int /\ threshold.deactivate_at \in Int
    BY DEF TypeOK, Threshold
  <2>4. CASE threshold.direction = "rising"
    BY <2>2, <2>3, <2>4
       DEF TurnedAtBoundary, is_met, above_with_hysteresis, Distance, Width
  <2>5. CASE threshold.direction = "falling"
    BY <2>2, <2>3, <2>5
       DEF TurnedAtBoundary, is_met, below_with_hysteresis, Distance, Width
  <2> QED
    BY <2>4, <2>5 DEF TypeOK, Threshold, Direction
<1> QED
  BY <1>1, TypeCorrect, LatchSafe, PTL DEF Spec, NoChatter

=============================================================================
