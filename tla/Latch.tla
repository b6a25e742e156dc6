------------------------------- MODULE Latch -------------------------------
(***************************************************************************)
(* A condition that latches (settings.py, predicates.py): a Threshold has  *)
(* one boundary where advice starts and another where it stops, and        *)
(* whether it is met depends on whether it was met by the evaluation       *)
(* before, which ConditionState remembers (models.py).                     *)
(*                                                                         *)
(* The evaluator that carries ConditionState from one evaluation to the    *)
(* next is modelled as the rules require it: a rule whose input cannot be  *)
(* read is not run and so does not match.                                  *)
(***************************************************************************)
EXTENDS Integers

CONSTANTS
    Value,      \* readings, and the boundaries a user may configure
    Band,       \* hysteresis bands a user may configure
    Unreadable  \* what a reading is while its input cannot be read

ASSUME LatchAssumption ==
    /\ Value \subseteq Int
    /\ Band \subseteq Int
    /\ Unreadable \notin Int

VARIABLES
    threshold, \* the room's Threshold: immutable once resolved
    value,     \* the current reading
    matching,  \* whether the condition is in ConditionState.matching
    turned     \* history: the reading that last changed matching, if any
               \* and if the input has been readable ever since

vars == <<threshold, value, matching, turned>>

Direction == {"rising", "falling"}
Threshold == [activate_at : Int, deactivate_at : Int, direction : Direction]

-----------------------------------------------------------------------------
\* __post_init__: boundaries in the order that lets advice stop.
WellOrdered(t) ==
    IF t.direction = "rising" THEN t.deactivate_at =< t.activate_at
                              ELSE t.deactivate_at >= t.activate_at

\* Mutant: the band is on the starting side, and nothing refuses it.
ResolvedBackwards ==
    {[activate_at |-> at, deactivate_at |-> at + band, direction |-> "rising"] :
        at \in Value, band \in {b \in Band : b >= 0}}

\* Threshold.rising and Threshold.falling: the band is on the stopping side.
Rising(at, band) ==
    [activate_at |-> at, deactivate_at |-> at - band, direction |-> "rising"]
Falling(at, band) ==
    [activate_at |-> at, deactivate_at |-> at + band, direction |-> "falling"]

\* A negative band is refused, and so is whatever fails __post_init__.
Resolved ==
    {t \in {Rising(at, band) : at \in Value, band \in {b \in Band : b >= 0}}
       \cup {Falling(at, band) : at \in Value, band \in {b \in Band : b >= 0}} :
        WellOrdered(t)}

Width(t) == IF t.direction = "rising" THEN t.activate_at - t.deactivate_at
                                      ELSE t.deactivate_at - t.activate_at

\* Mutant: a reading at the boundary is not enough.
above_exclusive(v, activate_at, deactivate_at, active) ==
    v > IF active THEN deactivate_at ELSE activate_at

above_with_hysteresis(v, activate_at, deactivate_at, active) ==
    v >= IF active THEN deactivate_at ELSE activate_at

\* Mutant: the boundary that is not in force is the one compared with.
below_swapped(v, activate_at, deactivate_at, active) ==
    v =< IF active THEN activate_at ELSE deactivate_at

below_with_hysteresis(v, activate_at, deactivate_at, active) ==
    v =< IF active THEN deactivate_at ELSE activate_at

\* Mutant: the latch is not consulted.
is_met_unlatched(t, v, active) ==
    IF t.direction = "rising" THEN v >= t.activate_at ELSE v =< t.activate_at

is_met(t, v, active) ==
    IF t.direction = "rising"
    THEN above_with_hysteresis(v, t.activate_at, t.deactivate_at, active)
    ELSE below_with_hysteresis(v, t.activate_at, t.deactivate_at, active)

-----------------------------------------------------------------------------
Init ==
    /\ threshold \in Resolved
    /\ value = Unreadable
    /\ matching = FALSE
    /\ turned = Unreadable

\* An evaluation of a reading.
Evaluate(v) ==
    /\ value' = v
    /\ matching' = is_met(threshold, v, matching)
    /\ turned' = IF matching' # matching THEN v ELSE turned
    /\ UNCHANGED threshold

\* An evaluation without one: the rule does not run, and does not match.
Lose ==
    /\ value # Unreadable
    /\ value' = Unreadable
    /\ matching' = FALSE
    /\ turned' = Unreadable
    /\ UNCHANGED threshold

Next == (\E v \in Value : Evaluate(v)) \/ Lose

Spec == Init /\ [][Next]_vars

-----------------------------------------------------------------------------
(* Type invariant.                                                         *)
TypeOK ==
    /\ threshold \in Threshold
    /\ WellOrdered(threshold)
    /\ value \in Value \cup {Unreadable}
    /\ matching \in BOOLEAN
    /\ turned \in Value \cup {Unreadable}

Distance(a, b) == IF a >= b THEN a - b ELSE b - a

(* A condition never chatters: while its input stays readable, the reading *)
(* has moved by more than the whole band between two changes of matching,  *)
(* however it got there and whichever way the threshold is crossed.        *)
NoChatter ==
    [][(matching' # matching /\ value' # Unreadable /\ turned # Unreadable)
          => Distance(value', turned) > Width(threshold)]_vars

(* Outside the band the reading alone decides, whatever the latch says: a  *)
(* condition is met from where it starts on and never beyond where it      *)
(* stops, so no history makes advice that cannot start or cannot stop.     *)
LatchInv ==
    value # Unreadable =>
        IF threshold.direction = "rising"
        THEN /\ value >= threshold.activate_at => matching
             /\ value < threshold.deactivate_at => ~matching
        ELSE /\ value =< threshold.activate_at => matching
             /\ value > threshold.deactivate_at => ~matching

(* The reading that last changed a condition was past the boundary of that *)
(* change: what NoChatter rests on.                                        *)
TurnedAtBoundary ==
    turned # Unreadable =>
        IF threshold.direction = "rising"
        THEN IF matching THEN turned >= threshold.activate_at
                         ELSE turned < threshold.deactivate_at
        ELSE IF matching THEN turned =< threshold.activate_at
                         ELSE turned > threshold.deactivate_at

=============================================================================
