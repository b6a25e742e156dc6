---------------------------- MODULE RoomSnapshot ----------------------------
(***************************************************************************)
(* One evaluation of one room, as functions of the house's states and of   *)
(* the stored inputs: what is read (inputs.py, observations/builder.py),   *)
(* what is computed from it (observations/derived.py), what a guard makes  *)
(* of it (models.py, predicates.py) and what the rules advise              *)
(* (rules/base.py, rules/window.py).                                       *)
(*                                                                         *)
(* A reading that cannot be had is a reason.  An exception that would      *)
(* leave an evaluation is the value Raised where a reading is computed,    *)
(* and raised in what the rule or the evaluation comes to.  Numbers are    *)
(* integers.  The temperature units are Celsius and Fahrenheit; a number   *)
(* of degrees is counted in ninths of a degree Celsius or in fifths of a   *)
(* degree Fahrenheit, which are the same step, so that no conversion       *)
(* between them rounds.                                                    *)
(***************************************************************************)
EXTENDS InputKeys, Vacancy, FiniteSets, SequencesExt

CONSTANTS
    Entity,       \* entity ids
    domain,       \* each entity's domain
    Blank,        \* an entry of a form that names no entity
    NotANumber,   \* text, infinity or NaN where a number is expected
    Raised,       \* in place of a value: computing it raised
    SystemUnit,   \* the unit system the user reads in
    Margin,       \* uncertainty_margin, in steps of SystemUnit
    Poles,        \* <<celsius, humidity>> at which the Magnus formula divides by 0
    Ceiling,      \* above it a guard that is measured blocks an opening rule
    Guards        \* the guards an opening rule declares

UnusableReason == {"not_configured", "unavailable", "unknown", "unconvertible",
                   "not_yet_seen", "source_offline"}

ASSUME SnapshotAssumption ==
    /\ SystemUnit \in {"C", "F"}
    /\ Margin \in Int /\ Ceiling \in Int
    /\ NotANumber \notin Int \cup {None}
    /\ {None, Raised} \cap (Int \cup BOOLEAN \cup UnusableReason) = {} /\ None # Raised
    /\ {Blank, None} \cap Entity = {}

-----------------------------------------------------------------------------
(* What an entity reports.  number is its numeric state, or a weather      *)
(* entity's temperature; humidity and action are attributes.               *)

State == [text : STRING, number : Int \cup {NotANumber, None},
          unit : STRING \cup {None}, humidity : Int \cup {NotANumber, None},
          action : STRING \cup {None}]

Texts(text) ==
    [text |-> text, number |-> NotANumber, unit |-> None, humidity |-> None, action |-> None]

\* An entity Home Assistant has no state of, and one that cannot be read.
Unseen == Texts("no state")
IsDark(s) == s.text \in {"no state", "unavailable", "unknown"}

Trackers == {"person", "device_tracker"}
AlarmStates == {"armed_away", "armed_custom_bypass", "armed_home", "armed_night",
                "armed_vacation", "arming", "disarmed", "disarming", "pending", "triggered"}
AwayAlarmStates == {"armed_away", "armed_vacation"}
HvacActions == {"cooling", "defrosting", "drying", "fan", "heating", "idle", "off", "preheating"}
ConditioningActions == {"heating", "cooling"}

-----------------------------------------------------------------------------
(* The stored inputs.                                                      *)

Temperatures == {"indoor_temperature", "outdoor_temperature"}

\* What is read or computed as a number; anything else is yes or no.
Derivations == {"outdoor_dew_point", "temperature_advantage"}
Measured == Temperatures \cup {"outdoor_humidity", "outdoor_air_quality", "indoor_co2"}
                         \cup Derivations

\* _unique: each entity once, where it first appears.
_unique(entries) ==
    LET first == {i \in DOMAIN entries :
                     entries[i] # Blank /\ \A j \in 1 .. i - 1 : entries[j] # entries[i]}
    IN  [n \in 1 .. Cardinality(first) |->
            entries[CHOOSE i \in first : Cardinality({j \in first : j =< i}) = n]]

\* Mutant: a cleared field is stored, holding nothing.
clean_inputs_all(form, keys) == [k \in keys \cap DOMAIN form |-> _unique(form[k])]

\* clean_inputs: a cleared field is not stored.  A form is a function from
\* the fields it carries to what they hold, single values as singletons.
clean_inputs(form, keys) ==
    [k \in {k \in keys \cap DOMAIN form : _unique(form[k]) # <<>>} |-> _unique(form[k])]

\* entity_ids: an input of a stored mapping, as a list.
entity_ids(stored, key) == IF key \in DOMAIN stored THEN _unique(stored[key]) ELSE <<>>

-----------------------------------------------------------------------------
(* Readers: from an entity's state to a value and its unit, or a reason.   *)

Read(value, unit) == [value |-> value, unit |-> unit, reason |-> None]
Refused(reason) == [value |-> None, unit |-> None, reason |-> reason]

\* The number an entity's state is.  A weather entity's state is a word; its
\* temperature is an attribute.
Numeric(e, s) == IF domain[e] = "weather" THEN NotANumber ELSE s.number

_as_number(number, unit) ==
    IF number = NotANumber THEN Refused("unconvertible") ELSE Read(number, unit)

_attribute(number, unit) ==
    IF number = None THEN Refused("unknown") ELSE _as_number(number, unit)

_as_switch(s) ==
    IF s.text \in {"on", "off"} THEN Read(s.text = "on", None) ELSE Refused("unconvertible")

\* Mutant: a tracker in a zone other than home is taken to be away.
_is_present_home(s) == s.text = "home"

_is_present(s) == s.text # "not_home"

_read_temperature(e, s) ==
    IF domain[e] = "weather" THEN _attribute(s.number, s.unit)
                             ELSE _as_number(Numeric(e, s), s.unit)

_read_humidity(e, s) ==
    IF domain[e] = "weather" THEN _attribute(s.humidity, "%")
    ELSE IF s.unit = "%" THEN _as_number(Numeric(e, s), s.unit) ELSE Refused("unconvertible")

_read_occupancy(e, s) ==
    IF domain[e] \in Trackers THEN Read(_is_present(s), None) ELSE _as_switch(s)

_read_away(e, s) ==
    CASE domain[e] = "alarm_control_panel" ->
            IF s.text \in AlarmStates THEN Read(s.text \in AwayAlarmStates, None)
                                      ELSE Refused("unconvertible")
      [] domain[e] \in Trackers -> Read(~_is_present(s), None)
      [] OTHER -> _as_switch(s)

_read_conditioning(s) ==
    IF s.action \in HvacActions THEN Read(s.action \in ConditioningActions, None)
                                ELSE Refused("unconvertible")

\* Home Assistant's TemperatureConverter: the freezing point is 32 degrees
\* Fahrenheit, and a step is the same on both scales.
Convert(degrees, from, to) ==
    IF from = to THEN degrees
    ELSE IF to = "F" THEN degrees + 5 * 32 ELSE degrees - 5 * 32

\* The last step that is not above -273.15 Celsius.
AbsoluteZero == Convert(-2459, "C", SystemUnit)

\* Mutant: a reading without a unit is taken to be in the user's own.
_assumed_system_temperature(r) ==
    IF r.reason # None THEN r
    ELSE LET degrees == Convert(r.value, IF r.unit = None THEN SystemUnit ELSE r.unit, SystemUnit)
         IN  IF degrees =< AbsoluteZero THEN Refused("unconvertible")
                                        ELSE Read(degrees, SystemUnit)

\* _in_system_temperature, of a reading that may itself have been refused.
_in_system_temperature(r) ==
    IF r.reason # None THEN r
    ELSE IF r.unit \notin {"C", "F"} THEN Refused("unconvertible")
    ELSE LET degrees == Convert(r.value, r.unit, SystemUnit)
         IN  IF degrees =< AbsoluteZero THEN Refused("unconvertible")
                                        ELSE Read(degrees, SystemUnit)

\* _READINGS: the reader of each input.
ReadAs(key, e, s) ==
    CASE key \in Temperatures -> _in_system_temperature(_read_temperature(e, s))
      [] key = "outdoor_humidity" -> _read_humidity(e, s)
      [] key \in {"outdoor_air_quality", "indoor_co2"} -> _as_number(Numeric(e, s), s.unit)
      [] key = "occupancy" -> _read_occupancy(e, s)
      [] key = "away" -> _read_away(e, s)
      [] key = "hvac" -> _read_conditioning(s)
      [] OTHER -> _as_switch(s)

_read(key, e, states) ==
    CASE states[e].text = "no state" -> Refused("not_yet_seen")
      [] states[e].text = "unavailable" -> Refused("unavailable")
      [] states[e].text = "unknown" -> Refused("unknown")
      [] OTHER -> ReadAs(key, e, states[e])

-----------------------------------------------------------------------------
(* Observations.  source is the entity a reading, or its absence, is due to. *)

Observed(r, source) ==
    [value |-> r.value, unit |-> r.unit, reason |-> r.reason, source |-> source]

\* Mutant: sources that cannot be read are left out of the vote.
_build_every_of_known(key, configured, states) ==
    LET known == {e \in Range(configured) : _read(key, e, states).reason = None}
    IN  IF known = {}
        THEN Observed(_read(key, configured[1], states), configured[1])
        ELSE Observed(Read(\A e \in known : _read(key, e, states).value, None), None)

\* _build_every: all sources agree, or the first that cannot be read is named.
_build_every(key, configured, states) ==
    LET unread == {i \in DOMAIN configured : _read(key, configured[i], states).reason # None}
        first == CHOOSE i \in unread : \A j \in unread : i =< j
    IN  IF unread # {}
        THEN Observed(_read(key, configured[first], states), configured[first])
        ELSE Observed(Read(\A i \in DOMAIN configured :
                               _read(key, configured[i], states).value, None),
                      IF Len(configured) = 1 THEN configured[1] ELSE None)

_build_value(key, configured, states) ==
    IF configured = <<>> THEN Observed(Refused("not_configured"), None)
    ELSE IF key = "away" THEN _build_every(key, configured, states)
    ELSE Observed(_read(key, configured[1], states), configured[1])

_build_group(key, configured, states) ==
    LET members == Range(configured)
        unusable == {e \in members : _read(key, e, states).reason # None}
        known_on == {e \in members \ unusable : _read(key, e, states).value}
    IN  [configured |-> configured, unusable |-> unusable, known_on |-> known_on,
         known_off |-> members \ (unusable \cup known_on)]

\* __post_init__: members partition the configuration, so none appears twice.
Partitioned(group) == IsInjective(group.configured)

-----------------------------------------------------------------------------
(* Derived observations.                                                   *)

\* Mutant: the first unusable source decides, unconfigured or broken.
_inherited_first(sources) ==
    sources[CHOOSE i \in DOMAIN sources :
                /\ sources[i].reason # None
                /\ \A j \in 1 .. i - 1 : sources[j].reason = None]

\* _inherited: of the unusable sources, the first broken one, or else the
\* first unconfigured one.  Only for sources that are not all usable.
_inherited(sources) ==
    LET unusable == {i \in DOMAIN sources : sources[i].reason # None}
        broken == {i \in unusable : sources[i].reason # "not_configured"}
        blamed == IF broken = {} THEN unusable ELSE broken
    IN  sources[CHOOSE i \in blamed : \A j \in blamed : i =< j]

\* The Magnus formula takes the logarithm of the humidity, which has to be
\* positive, and divides.  Where it has a value, that is replaced by the rule
\* of thumb that the dew point drops by a degree, nine steps, for every 5%
\* below saturation.
Magnus(celsius, humidity) ==
    IF humidity =< 0 \/ <<celsius, humidity>> \in Poles THEN Raised
                                                      ELSE celsius - 9 * ((100 - humidity) \div 5)

\* Mutant: only what is no humidity is refused.
_dew_point_undivided(temperature, humidity) ==
    LET celsius == Convert(temperature.value, temperature.unit, "C")
        dew == Magnus(celsius, humidity.value)
    IN  IF humidity.unit # "%" \/ humidity.value \notin 1 .. 100 THEN Refused("unconvertible")
        ELSE Read(IF dew = Raised THEN Raised ELSE Convert(dew, "C", temperature.unit),
                  temperature.unit)

\* _dew_point.
_dew_point(temperature, humidity) ==
    LET celsius == Convert(temperature.value, temperature.unit, "C")
        dew == Magnus(celsius, humidity.value)
    IN  IF \/ humidity.unit # "%" \/ humidity.value \notin 1 .. 100
           \/ <<celsius, humidity.value>> \in Poles
        THEN Refused("unconvertible")
        ELSE Read(IF dew = Raised THEN Raised ELSE Convert(dew, "C", temperature.unit),
                  temperature.unit)

_temperature_advantage(indoor, outdoor) ==
    Read(indoor.value - outdoor.value - Margin, indoor.unit)

Sources(key) ==
    CASE key = "outdoor_dew_point" -> <<"outdoor_temperature", "outdoor_humidity">>
      [] key = "temperature_advantage" -> <<"indoor_temperature", "outdoor_temperature">>

DerivedKeys == Derivations \cup {"unoccupied_for"}

_derive(key, observations) ==
    LET first == observations[Sources(key)[1]]
        second == observations[Sources(key)[2]]
    IN  IF first.reason # None \/ second.reason # None
        THEN LET blamed == _inherited(<<first, second>>)
             IN  Observed(Refused(blamed.reason), blamed.source)
        ELSE Observed(IF key = "outdoor_dew_point" THEN _dew_point(first, second)
                                                   ELSE _temperature_advantage(first, second),
                      None)

\* Occupancy as the vacancy clock takes it.
Occupied(observation) ==
    IF observation.reason # None THEN observation.reason
    ELSE IF observation.value THEN "occupied" ELSE "empty"

\* The observation of _vacancy: how long the room has been empty, due to the
\* entity its occupancy, or the lack of it, is due to.
_vacancy(occupancy, since, now) ==
    LET for == UnoccupiedFor(Occupied(occupancy), since, now)
    IN  Observed(IF occupancy.reason = None THEN Read(for, "s") ELSE Refused(for),
                 occupancy.source)

\* An input of the house or of the room, as the builder looks it up.
Configured(shared, room, key) == entity_ids(IF key \in SharedInputs THEN shared ELSE room, key)

\* build_observations: every input, configured or not.
build_observations(states, shared, room) ==
    [observations |->
        [k \in Inputs \ GroupInputs |-> _build_value(k, Configured(shared, room, k), states)],
     groups |->
        [k \in GroupInputs |-> _build_group(k, Configured(shared, room, k), states)]]

\* derive_observations, and the memory the vacancy clock hands back.
derive_observations(built, since, now) ==
    LET occupancy == built.observations["occupancy"]
    IN  [observations |->
            [k \in (Inputs \ GroupInputs) \cup DerivedKeys |->
                CASE k \in Derivations -> _derive(k, built.observations)
                  [] k = "unoccupied_for" -> _vacancy(occupancy, since, now)
                  [] OTHER -> built.observations[k]],
         groups |-> built.groups,
         since |-> Memory(Occupied(occupancy), since, now)]

-----------------------------------------------------------------------------
(* Guards.                                                                 *)

\* Mutant: a group in which nothing is known on is all clear.
_group_guard_hopeful(group) ==
    CASE group.configured = <<>> -> "NOT_CONFIGURED"
      [] group.known_on # {} -> "BLOCKING"
      [] OTHER -> "SATISFIED"

_group_guard(group) ==
    CASE group.configured = <<>> -> "NOT_CONFIGURED"
      [] group.configured # <<>> /\ group.known_on # {} -> "BLOCKING"
      [] group.configured # <<>> /\ group.known_on = {} /\ group.unusable = {} -> "SATISFIED"
      [] OTHER -> "UNUSABLE"

\* What an opening rule takes a reading of a guard to mean.
Blocking(key, value) == IF key \in Measured THEN value > Ceiling ELSE value

guard_when(observation, key) ==
    CASE observation.reason = "not_configured" -> "NOT_CONFIGURED"
      [] observation.reason \notin {None, "not_configured"} -> "UNUSABLE"
      [] observation.reason = None /\ Blocking(key, observation.value) -> "BLOCKING"
      [] OTHER -> "SATISFIED"

guard(snapshot, key) ==
    IF key \in GroupInputs THEN _group_guard(snapshot.groups[key])
                           ELSE guard_when(snapshot.observations[key], key)

\* Mutant: only a guard that blocks withholds.
guards_not_blocking(guardStates) == "BLOCKING" \notin guardStates

guards_permit_opening(guardStates) == guardStates \subseteq {"NOT_CONFIGURED", "SATISFIED"}

-----------------------------------------------------------------------------
(* Rules.                                                                  *)

Rules == {"window.away_secure", "window.rain_incoming"}
Trigger(rule) == IF rule = "window.away_secure" THEN "away" ELSE "rain_risk"
Requires(rule) == {Trigger(rule), "window_contacts"}

\* A group is usable if any member of it is; no member is in it twice.
usable(snapshot, key) ==
    IF key \in GroupInputs
    THEN snapshot.groups[key].unusable # Range(snapshot.groups[key].configured)
    ELSE snapshot.observations[key].reason = None

\* The advice not to do anything, which is no advisory.
NoAdvice == [action |-> "none", windows |-> {}, source |-> None]

\* In place of advice: the rule raised.
RuleRaised == [action |-> "raised", windows |-> {}, source |-> None]

\* _close_advice: which windows to close, if any; value() of an observation
\* that cannot be read raises.
_close_advice(snapshot, trigger) ==
    LET observation == snapshot.observations[trigger]
        open == snapshot.groups["window_contacts"].known_on
    IN  IF observation.reason # None THEN RuleRaised
        ELSE IF ~observation.value \/ open = {} THEN NoAdvice
        ELSE [action |-> "close", windows |-> open, source |-> observation.source]

\* Mutant: a rule runs whatever could be read.
evaluate_rule_ungated(rule, snapshot) ==
    [unreadable |-> {}, advisory |-> _close_advice(snapshot, Trigger(rule))]

evaluate_rule(rule, snapshot) ==
    LET unreadable == {k \in Requires(rule) : ~usable(snapshot, k)}
    IN  [unreadable |-> unreadable,
         advisory |-> IF unreadable # {} THEN NoAdvice
                      ELSE _close_advice(snapshot, Trigger(rule))]

\* One evaluation: the snapshot, evaluate_all over it, and whether the guards
\* would let an opening rule speak.
Evaluation(states, shared, room, since, now) ==
    LET snapshot == derive_observations(build_observations(states, shared, room), since, now)
    IN  IF \/ \E k \in GroupInputs : ~Partitioned(snapshot.groups[k])
           \/ \E k \in DOMAIN snapshot.observations : snapshot.observations[k].value = Raised
        THEN [raised |-> TRUE]
        ELSE [raised |-> FALSE, snapshot |-> snapshot,
              outcomes |-> [rule \in Rules |-> evaluate_rule(rule, snapshot)],
              permits |-> guards_permit_opening({guard(snapshot, k) : k \in Guards})]

=============================================================================
