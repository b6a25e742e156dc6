----------------------------- MODULE RoomAdvice -----------------------------
(***************************************************************************)
(* A room's advice while the house around it changes: entities report, go  *)
(* dark and come back, the hub's and the room's inputs are edited, time    *)
(* passes, and the room is evaluated now and then, whatever has happened.  *)
(*                                                                         *)
(* The properties compare an evaluation with the house it was made from,   *)
(* through definitions that share nothing with the pipeline but the        *)
(* reports, or with the evaluation before it.                              *)
(***************************************************************************)
EXTENDS RoomSnapshot

CONSTANTS
    Reports,     \* what each entity may report, going dark included
    SharedForms, \* what may be submitted on the hub's inputs form
    RoomForms,   \* what may be submitted on the room's inputs form
    MaxChanges,  \* bound: how much may happen between two evaluations
    MaxTime      \* bound: the latest time of the clock

IsForm(form, keys) ==
    /\ DOMAIN form \subseteq keys
    /\ \A k \in DOMAIN form :
          /\ form[k] \in Seq(Entity \cup {Blank})
          /\ k \notin MultipleInputs => Len(form[k]) =< 1

ASSUME AdviceAssumption ==
    /\ DOMAIN Reports = Entity
    /\ \A e \in Entity : \A s \in Reports[e] :
          s \in State /\ (domain[e] # "weather" => s.number # None)
    /\ \A form \in SharedForms : IsForm(form, SharedInputs)
    /\ \A form \in RoomForms : IsForm(form, RoomInputs)
    /\ Guards \subseteq Inputs \cup Derivations
    /\ MaxChanges \in Nat /\ MaxTime \in Nat

VARIABLES
    states,     \* hass.states: what each entity last reported
    shared,     \* the hub's options: the inputs of the house
    room,       \* the room's own inputs
    now,        \* the host's clock
    since,      \* the room's memory: VacancyState.unoccupied_since
    evaluated,  \* the house as it was when the room was last evaluated, when
                \* that was, and for how long the room had been watched empty
    evaluation, \* what that evaluation came to
    changes     \* how much has happened since

setting == <<states, shared, room>>
results == <<since, evaluated, evaluation>>
vars == <<setting, now, results, changes>>

-----------------------------------------------------------------------------
NoInputs == [k \in {} |-> <<>>]

\* Before anything has reported and before anything is configured.
Init ==
    /\ states = [e \in Entity |-> Unseen]
    /\ shared = NoInputs
    /\ room = NoInputs
    /\ now = 0
    /\ since = None
    /\ evaluated = [states |-> states, shared |-> shared, room |-> room,
                    at |-> 0, watched |-> 0]
    /\ evaluation = Evaluation(states, shared, room, since, now)
    /\ changes = 0

Change == changes < MaxChanges /\ changes' = changes + 1

\* An entity reports, goes dark or disappears.
Report(e, s) ==
    /\ Change
    /\ states[e] # s
    /\ states' = [states EXCEPT ![e] = s]
    /\ UNCHANGED <<shared, room, now, results>>

\* OptionsFlow.async_step_init, storing.
SubmitShared(form) ==
    /\ Change
    /\ shared' = clean_inputs(form, SharedInputs)
    /\ UNCHANGED <<states, room, now, results>>

\* RoomSubentryFlow.async_step_inputs, storing.
SubmitRoom(form) ==
    /\ Change
    /\ room' = clean_inputs(form, RoomInputs)
    /\ UNCHANGED <<states, shared, now, results>>

Tick ==
    /\ now < MaxTime
    /\ now' = now + 1
    /\ UNCHANGED <<setting, results, changes>>

\* What an entity says of a room being empty, and of someone being in it.
SaysEmpty(e, s) == s.text = IF domain[e] \in Trackers THEN "not_home" ELSE "off"
SaysOccupied(e, s) ==
    IF domain[e] \in Trackers THEN ~IsDark(s) /\ s.text # "not_home" ELSE s.text = "on"

RoomEmpty(said, stored) ==
    /\ "occupancy" \in DOMAIN stored
    /\ SaysEmpty(stored["occupancy"][1], said[stored["occupancy"][1]])

\* build_observations, derive_observations and evaluate_all.
Evaluate ==
    /\ evaluation' = Evaluation(states, shared, room, since, now)
    /\ since' = IF evaluation'.raised THEN since ELSE evaluation'.snapshot.since
    /\ evaluated' =
         [states |-> states, shared |-> shared, room |-> room, at |-> now,
          watched |-> IF RoomEmpty(states, room) /\ RoomEmpty(evaluated.states, evaluated.room)
                      THEN evaluated.watched + (now - evaluated.at) ELSE 0]
    /\ changes' = 0
    /\ UNCHANGED <<setting, now>>

Next ==
    \/ \E e \in Entity : \E s \in Reports[e] : Report(e, s)
    \/ \E form \in SharedForms : SubmitShared(form)
    \/ \E form \in RoomForms : SubmitRoom(form)
    \/ Tick
    \/ Evaluate

Spec == Init /\ [][Next]_vars

-----------------------------------------------------------------------------
(* Type invariant: what is stored holds entities, each once, and nothing   *)
(* that was left empty; a reading has a value exactly if it has no reason. *)
IsStored(stored, keys) ==
    /\ DOMAIN stored \subseteq keys
    /\ \A k \in DOMAIN stored :
          /\ stored[k] \in Seq(Entity) /\ IsInjective(stored[k]) /\ stored[k] # <<>>
          /\ k \notin MultipleInputs => Len(stored[k]) = 1

TypeOK ==
    /\ \A e \in Entity : states[e] \in Reports[e] \cup {Unseen}
    /\ changes \in 0 .. MaxChanges
    /\ now \in 0 .. MaxTime /\ since \in 0 .. now \cup {None}
    /\ IsStored(shared, SharedInputs) /\ IsStored(room, RoomInputs)
    /\ ~evaluation.raised =>
          \A k \in DOMAIN evaluation.snapshot.observations :
             LET observation == evaluation.snapshot.observations[k]
             IN  /\ observation.value = None <=> observation.reason # None
                 /\ observation.source \in Entity \cup {None}

(* No evaluation raises, whatever is configured and whatever has been      *)
(* reported: a repeated entity does not break a group's partition          *)
(* (GroupObservation.__post_init__), no formula is taken outside its       *)
(* domain (_dew_point) and no rule reads what cannot be read               *)
(* (Observations.value).                                                   *)
NeverRaises ==
    /\ ~evaluation.raised
    /\ \A rule \in Rules : evaluation.outcomes[rule].advisory.action # "raised"

-----------------------------------------------------------------------------
(* The house as a person would see it: what its entities say.              *)

Ids(stored, key) == IF key \in DOMAIN stored THEN Range(stored[key]) \ {Blank} ELSE {}

SaysAway(e, s) ==
    \/ domain[e] = "alarm_control_panel" /\ s.text \in {"armed_away", "armed_vacation"}
    \/ domain[e] \in Trackers /\ s.text = "not_home"
    \/ domain[e] \notin Trackers \cup {"alarm_control_panel"} /\ s.text = "on"

\* A tracker that is anywhere is not away; an alarm in any other known state
\* is not; anything else says so by being off.
SaysNotAway(e, s) ==
    \/ domain[e] = "alarm_control_panel" /\ s.text \in AlarmStates \ {"armed_away", "armed_vacation"}
    \/ domain[e] \in Trackers /\ ~IsDark(s) /\ s.text # "not_home"
    \/ domain[e] \notin Trackers \cup {"alarm_control_panel"} /\ s.text = "off"

Open(house) == {e \in Ids(house.room, "window_contacts") : house.states[e].text = "on"}

HouseEmpty(house) ==
    /\ Ids(house.shared, "away") # {}
    /\ \A e \in Ids(house.shared, "away") : SaysAway(e, house.states[e])

RainExpected(house) == \E e \in Ids(house.shared, "rain_risk") : house.states[e].text = "on"

Windows(rule) == evaluation.outcomes[rule].advisory.windows

(* Closing is advised exactly when there is an open window and reason to   *)
(* close it, on nothing less than every away source, and it names exactly  *)
(* the windows that are open: a contact that cannot be read neither causes *)
(* advice nor hides the other windows' (_close_advice, _build_every).      *)
AdviceIsTrue ==
    /\ Windows("window.away_secure") = IF HouseEmpty(evaluated) THEN Open(evaluated) ELSE {}
    /\ Windows("window.rain_incoming") = IF RainExpected(evaluated) THEN Open(evaluated) ELSE {}

\* What an entity says against blocking, as one of the sources of a guard.
SaysClear(key, e, s) ==
    CASE key = "away" -> SaysNotAway(e, s)
      [] key = "occupancy" /\ domain[e] \in Trackers -> s.text = "not_home"
      [] key = "hvac" -> s.action \in HvacActions \ {"heating", "cooling"}
      [] key \in Measured -> ~IsDark(s)
      [] OTHER -> s.text = "off"

Said(house, key) ==
    UNION {Ids(stored, k) : stored \in {house.shared, house.room},
                            k \in IF key \in Derivations THEN Range(Sources(key)) ELSE {key}}

(* Opening is permitted only when everything configured as a guard has     *)
(* been read and speaks against blocking, the sources of away among        *)
(* themselves: only what was left unconfigured is skipped                  *)
(* (guards_permit_opening, _group_guard, guard_when).                      *)
PermitsOnlyWhatItSaw ==
    evaluation.permits =>
        \A k \in Guards :
            LET Clear(e) == SaysClear(k, e, evaluated.states[e])
                said == Said(evaluated, k)
            IN  IF k = "away"
                THEN /\ \A e \in said : Clear(e) \/ SaysAway(e, evaluated.states[e])
                     /\ said # {} => \E e \in said : Clear(e)
                ELSE \A e \in said : Clear(e)

-----------------------------------------------------------------------------
(* A guard that is computed is skipped only if one of its sources was left *)
(* unconfigured and none that was configured is broken: a dead sensor is   *)
(* never taken for an opt-out (_inherited).                                *)
Unconfigured(key) == evaluation.snapshot.observations[key].reason = "not_configured"

BrokenIsNotOptedOut ==
    \A k \in Derivations :
        Unconfigured(k) <=>
            /\ \E i \in 1 .. 2 : Unconfigured(Sources(k)[i])
            /\ \A i \in 1 .. 2 : \/ Unconfigured(Sources(k)[i])
                                 \/ evaluation.snapshot.observations[Sources(k)[i]].reason = None

\* A temperature in ninths of a degree Celsius, of a source that says which
\* unit it reports in.  A fifth of a degree Fahrenheit is a ninth of a degree
\* Celsius, so a difference is the same number in either unit system.
Celsius(s) == IF s.unit = "C" THEN s.number ELSE s.number - 160

(* The temperature advantage is the difference between what the two        *)
(* sensors measured, whatever units they report in, and is not computed    *)
(* from a reading that does not say its unit (_in_system_temperature,      *)
(* _temperature_advantage).                                                *)
AdvantageIsPhysical ==
    LET advantage == evaluation.snapshot.observations["temperature_advantage"]
        Source(stored, key) == evaluated.states[Head(stored[key])]
        indoor == Source(evaluated.room, "indoor_temperature")
        outdoor == Source(evaluated.shared, "outdoor_temperature")
    IN  advantage.reason = None =>
           /\ {indoor.unit, outdoor.unit} \subseteq {"C", "F"}
           /\ Celsius(indoor) > -2459 /\ Celsius(outdoor) > -2459
           /\ advantage.value + Margin = Celsius(indoor) - Celsius(outdoor)

(* A room has been empty for as long as it was watched being empty: since  *)
(* the first of the evaluations that all found its sensor saying so.  The  *)
(* reading is 0 while the sensor says otherwise, and cannot be had exactly *)
(* when the sensor says neither, for which the sensor is named (_vacancy). *)
VacancyIsWhatWasWatched ==
    LET reading == evaluation.snapshot.observations["unoccupied_for"]
        sensor == evaluated.room["occupancy"][1]
        Empty == RoomEmpty(evaluated.states, evaluated.room)
        Taken == SaysOccupied(sensor, evaluated.states[sensor])
    IN  IF "occupancy" \notin DOMAIN evaluated.room THEN reading.reason = "not_configured"
        ELSE /\ reading.source = sensor
             /\ Empty => reading.value = evaluated.watched
             /\ Taken => reading.value = 0
             /\ ~Empty /\ ~Taken => reading.reason \notin {None, "not_configured"}

(* Losing entities, any number of them between two evaluations, makes the  *)
(* advice only more careful: no window is newly named, and opening is not  *)
(* newly permitted (rules that cannot run do not match, and an unusable    *)
(* guard withholds).                                                       *)
OnlyLost(before, after) ==
    /\ after.shared = before.shared /\ after.room = before.room
    /\ \A e \in Entity : IsDark(after.states[e]) \/ after.states[e] = before.states[e]

LossMakesCareful ==
    [][OnlyLost(evaluated, evaluated') =>
          /\ evaluation'.permits => evaluation.permits
          /\ \A rule \in Rules : Windows(rule)' \subseteq Windows(rule)]_vars

=============================================================================
