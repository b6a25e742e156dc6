# Room Advisor in TLA+

This directory is a formal model of the Room Advisor integration in
`custom_components/room_advisor`: what it does to Home Assistant's registries,
what it reads from the house, and what it advises. The modules are translated
from the code, checked by TLC on small instances, and the results that matter
most are proved for every instance with TLAPS.

## The system

Room Advisor is one Home Assistant config entry, *the hub*. Its options hold the
inputs of the house (outdoor temperature, rain risk, who is away ...). Its
subentries are *rooms*, each with a title, an area and inputs of its own (window
contacts, occupancy, lights ...). For every room the hub keeps a device. For
every evaluation of a room, states are read into observations, further
observations are derived, and rules turn them into advice. At this commit
nothing yet publishes the advice: there is no coordinator and no entity
platform (`PLATFORMS` is empty), and the evaluation pipeline is a set of pure
functions waiting for a caller.

| Component | State it keeps | Operations | What is hard about it | What makes it correct |
|---|---|---|---|---|
| Hub set-up (`__init__.py`) | the device registry's rooms, the update listener | set up, unload, reload on every change | updates arriving during a reload, reloads queueing behind the set-up lock, areas deleted under stored ids | no update is lost; devices show their rooms and only existing areas; the user's own filing stays |
| Forms (`config_flow.py`) | what a form holds between two steps; subentries; options | create the hub, add, reconfigure (two steps each), options | several forms at once; everything can change between the check, the showing and the write | what is held stays true unless overtaken; titles are never the form's to write; what was left alone stays and what was taken out stays out |
| Inputs (`inputs.py`) | stored mappings | clean, read as a list, suggest from an area | repeats, cleared fields, entities filed apart from their devices | "not configured" has one representation, each entity once; an area offers exactly what is in it |
| Builder (`observations/builder.py`) | none | one snapshot of the house | unreadable, unconverted, unit-less readings, any number at once | nothing is assumed: a value or a reason, never both |
| Derived (`observations/derived.py`) | the vacancy memory, kept by the caller | derive, advance the clock, next wake-up | broken against unconfigured sources, poles of a formula, a clock that is corrected, a count with no event at its end | nothing raises; no dead sensor counts as an opt-out; the count never exceeds what was seen; every duration is noticed |
| Models, predicates, settings | the conditions that matched last time | guards, thresholds with hysteresis | partly readable groups; boundaries | opening only on what was read; no chatter inside the band |
| Registry and runner (`rules/base.py`) | the rules by id and by category | register, evaluate all | registration that is refused half-way; rules that raise or copy another's identity | two indexes that agree; precedence that never changes; advice that is its rule's own; every rule answers |
| Window rules (`rules/window.py`) | none | close when away, close for rain | windows of which some cannot be read | advice exactly when there is reason, naming exactly the open windows |

The forms write subentries and options; Home Assistant then calls the hub's
listener, which reloads the entry, and set-up reads the whole configuration
again. The pipeline reads options, the room's subentry and `hass.states`; the
only memory it has between evaluations is the vacancy state and the condition
state that its caller carries.

## The modules

**`RoomHub`** is the hub with its forms. The variables are the entry
(`rooms`, `used`, `options`), the registries (`areas`, `devices`), the open
forms (`flows`), the entry's lifecycle (`state`, `enabled`, `busy` for the
set-up lock, `listening`, `tasks` for reloads waiting for the lock) and three
history variables. An action is a stretch of code without an `await`:
`SubmitUser`, `SubmitReconfigure` are the first steps of the forms with
`_validate` inside; `CommitAdd`, `CommitReconfigure` are `async_step_inputs`,
where a room is written; `StartReload`, `FinishUnload`, `SetupEntry`,
`FinishSetup` are the stretches of a reload, `SetupEntry` registering the
devices and adding the listener in one step as the code does. A submission that
fails shows the form again and is no action. What Home Assistant and its user
do (rename, remove, areas, moving a device, disabling, a restart) is modelled
from how the code depends on it and is marked external in `PROJECT.json`. Two
consequences of the code are kept: a room edited to have no area leaves its
device where it is, and an area that is created again under its old id is not
where the device is filed until the next reload (`displaced` remembers those
rooms, and what the user moved); that next set-up must file it, which
`NoLostUpdate` demands of every room set-up has reached.

**`RoomMirror`** is the abstract promise of that component: rooms have titles,
devices show names, the devices lag only while the hub knows they may, and
while it is enabled all of them catch up in one step. `RoomHub` implements it
with `title` and `shown` read off `rooms` and `devices`, `stale` true unless the
hub is loaded with no reload waiting, and `active` as `enabled`.

**`InputKeys`** is the vocabulary: which inputs are the house's and a room's,
and which hold several entities. **`InputForms`** is the other half of the forms,
what they show and what they store. Its variables are the entity and device
registries as far as the area scan reads them (`entries`, `placed`), the rooms'
and the hub's stored inputs (`rooms`, with `asked` for whether a room stores
inputs at all, `hub`, `shared`), the open forms with what each showed, and two
histories: forms that were `overtaken` by another one's submission, and what
users took out (`cleared`). `OpenAdd`, `OpenEdit` and `OpenOptions` are the
stretch from a form's start to the showing of its fields, `SubmitAdd`,
`SubmitEdit`, `SubmitOptions` and `CreateHub` the storing. A user changes some
fields and submits all of them, so a submission carries what the form showed.
`suggest_room_inputs` and `_area_entities` are operators over the registries; the
scan returns what it found together with how, because the code appends an entity
once for each way it is found and then counts. `RoomHub` has these forms' first steps with names and
areas; the two modules share no variable, and a form's first step can only keep
a form of `InputForms` from opening.

**`Vacancy`** is `_vacancy` as functions, used by both modules that count.
**`VacancyClock`** is it and `next_wake_up` with the caller they require: the
caller keeps the memory, evaluates when occupancy changes, when the timer is
due and at other times too, and reads a clock that ticks and can be corrected
to any time. `watched` measures, independently of the code, for how long every
evaluation saw the room empty, and `gained` what the clock was put forward by
meanwhile: the code counts that as time passed, since nothing in it could tell.

**`Latch`** is a `Threshold` and the condition that latches on it, evaluated
over any sequence of readings and losses of the input. `Lose` is a rule whose
input cannot be read, which does not match (`evaluate_rule`).

**`RoomSnapshot`** has no variables: it is one evaluation as functions, from
entity states and stored inputs to readings, observations, groups, derived
observations with the vacancy clock among them, guard states and rule outcomes.
An exception that would leave the evaluation is a value of its own (`Raised`
where a reading is computed, `RuleRaised` and `raised` above it); the exceptions
the code catches itself are refusal reasons. The observation of a thermostat is
called `hvac`, like its input (`hvac_conditioning` in the code). Temperatures are
counted in ninths of a degree Celsius or fifths of a degree Fahrenheit: the two
steps are the same difference, so conversion between the units is exact. Kelvin, which
Home Assistant would convert as well, has no whole offset in those steps, and is
treated like a unit that cannot be converted. Where a guard
is measured, an opening rule blocks above `Ceiling`: the code has no opening
rule yet, and `guard_when` leaves the meaning of a reading to it.
**`RoomAdvice`** puts it in a house that changes: entities report and go dark,
the two input forms are submitted, time passes, and the room is evaluated at any
time, so any number of changes may lie between two evaluations. `since` is the
memory its caller keeps; `evaluated` remembers the house as it was evaluated, so
that the properties can compare the advice with what the entities said.

**`RuleRegistry`** is the registry while rule modules are imported: any class
may be decorated at any time, several times, and a registration may be refused.
**`RuleRunner`** runs a category's rules in the order the registry gives them,
`evaluate_all` with `evaluate_rule`, `_check_advisory` and the check an
`Advisory` makes of itself. What a rule's own code comes to is any member of
`Returns`: advice, its own or not, none, or an exception.

**`MC...`** modules give the constants of these modules values for TLC;
**`..._proof`** modules hold the theorems. An operator marked *Mutant* is a
plausible mistake, used by no specification: it records which defect each
property was seen to catch.

## The runs

Names are those of `PROJECT.json`; `tlc -config <run>.cfg <module>` runs one.

| Run | What it shows | Instance, and why it is enough |
|---|---|---|
| `hub_config` | no update is lost, an enabled hub comes back and is up to date when nothing is under way, no dangling area, devices only for rooms, set-up leaves the user's filing alone; `HubInv` | one room and one subentry of another type, two areas, two names, two values of the options, one form, two waiting reloads: a reload under way, one waiting and a change between is every overlap the lock allows |
| `hub_forms` | what a form holds stays true until overtaken, also when names differ only in spelling; forms keep titles | two rooms, two forms at different steps, two spellings of one name, one area; symmetric in rooms and forms |
| `hub_titles` | titles reach devices; the hub implements `RoomMirror` with its liveness | two rooms and a foreign subentry, no areas (titles do not depend on them), under fairness |
| `hub_same_name` | two add forms for one area add two rooms with that area and one name (expected violation) | two forms, one area, one name |
| `hub_deleted_area` | an edit stores an area that was deleted under it (expected violation) | one room, one area |
| `vacancy` | the count never exceeds what was seen and what the clock gained; the timer is set for the next duration; every duration is noticed | durations 0, 2 and 3 in 7 instants, two reasons, the clock corrected twice, either way, restarts |
| `latch` | start, stop and no chatter | boundaries and readings -3..3, bands -1..2, both directions: readings below, on, between and above both boundaries |
| `advice_close` | closing is advised exactly when it should be; nothing raises | an alarm panel, a tracker, two windows and a rain switch; forms with repeats and cleared fields; two changes between evaluations |
| `advice_guards` | opening only on what was read; losing entities only makes advice more careful | weather, thermostat, two lights, and a tracker that is the room's occupancy, the house's `away`, or both; two changes between evaluations |
| `advice_derived` | derived values are right or refused and never raise; broken is not opted out; a room's vacancy is what was watched | Celsius, Fahrenheit, no unit, a foreign unit, sentinels, missing attributes, no humidity, a pole; a house that reads in Fahrenheit; a tracker in a zone that is not home, in none, and lost, over three instants |
| `registry` | indexes agree, precedence only grows, guards never gate, advice is its rule's own, every rule answers | the classes that ship, well-formed ones, and ones that collide or are malformed; each returns its own advice, another's, a reason that is not its own, an action of another category, nothing or an exception, over three sets of readable inputs |
| `room_inputs` | what users took out stays out; a field they did not touch stays as it was stored; an area offers what is in it | one room and the hub, two forms, two areas, a device whose entities are filed with it, apart from it, beside it, and hidden; one change of the registries and two submissions: a form that opens, one that overtakes it, and the move between them |

Bounds: `MaxTasks` (reloads waiting), `MaxTime`, `MaxCorrections` (of the clock),
`MaxChanges` (changes between two evaluations), `MaxMoves` (changes of the
registries an area scan reads) and `MaxSubmits` (forms submitted). In
`room_inputs` a third submission adds nothing a second one cannot do, since a
form compares itself with what was stored last, and the proofs have no bound.
`MaxTasks` also holds back the changes that would queue one reload more; two
waiting reloads behave like more, since the second already reads everything the
first did not.

The two expected violations are disagreements between the forms and what their
tests say of them: `_validate` runs in the first step, nothing is checked in the
second, and the tests change the house only before the first step is submitted.
Neither corrupts anything: rooms are told apart by subentry id, and set-up
treats a deleted area as none (`NoDanglingArea`).

### Fairness

`RoomHub!FairSpec` assumes weak fairness of the reload's own steps only: the
event loop runs every task that is ready, and the set-up lock is released by
the step that took it. Users, forms, areas and restarts owe nothing.
`VacancyClock!FairSpec` assumes that time passes and that an evaluation follows a
change or a due timer, which is what `next_wake_up` asks of its caller; no
fairness is assumed of the sensor, of the clock being corrected or of restarts.

### Deadlock

It is checked in every run.

## What is proved

Every theorem holds for all values of the constants under the named assumptions
of the module, with no bound on rooms, forms, areas, names, entities, readings,
rules or durations.

- **`RoomHub_proof`.** `TypeCorrect`, then `HubSafe`: the inductive invariant
  `HubInv`. None of the properties is inductive alone. `NoLostUpdate` speaks of a
  hub at rest; what carries it there is `InSync` (from set-up to the next unload
  the devices are up to date unless a reload waits) together with `LifecycleOK`
  (the listener is there exactly while the entry is set up, so every change
  either queues a reload or is made while one is about to read it; the lock is
  held through every stretch of a reload). `OnlyRoomsHaveDevices` rests on ids
  being given out once, `IdsGivenOut`. From `HubInv` follow `NothingLost`,
  `DevicesInLiveAreas`, `DevicesOfRooms`, `AnswersHold`; `TitlesKept` and
  `PlacementKept` are action properties. `QuietHubDone` adds that an enabled hub
  with a free lock and no reload waiting is loaded and up to date; what carries it
  is `ComesBack` (an enabled hub that is not set up holds the lock or has a reload
  to come). Of the liveness argument the prover can have the two halves that need
  no fairness: `ReloadsWindDown`, every step of a reload leaves less of the
  natural number `WorkLeft` (four for a waiting reload, and what the one under
  way still needs), and `ReloadsGoOn`, while there is work left one of those steps
  has its guard, and without any the lock is free. That these guards are all that
  enables a step, and that fairness takes it, is left to TLC. `HubMirrors` is the
  refinement: every step of the hub is a step of `RoomMirror` or a stutter (safety
  part).
- **`InputForms_proof`.** `FormsSafe` proves `FormInv`. `ClearedStaysOut` is not
  inductive: what a form stores is what it showed, so it needs
  `ShowsWhatIsStored`, that a form nothing was stored behind shows exactly what
  is stored, and that only rooms that were asked have anything taken out of
  them. `OnlyWhatChanged` is about a submission: a form stores the whole of what
  it showed under what its user changed, so a field outside the edit is kept only
  if the form showed what is stored (`ShowsWhatIsStored`) and cleaning drops
  nothing of it, which holds since what is stored is clean (`UntouchedIsKept`).
  `OffersWhatIsThere` is about what a form opens with: the code appends to a list
  and takes its length for the number of candidates, which is right because each
  entity that fits is found exactly once (`FoundOnce`), by its own area or,
  having none, through its device.
- **`VacancyClock_proof`.** `ClockSafe` proves `ClockInv`: the bound on the count
  is not inductive, but "now minus the stored start is at most the watched time
  and what the clock gained" is, and setting the clock back only helps it.
  `WakesInTime` proves the timer's set-point exact.
- **`Latch_proof`.** `LatchSafe`, `BoundarySafe` and `Chatterless`: the reading
  that last turned a condition was past the boundary of that turn, so the next
  turn is a whole band away.
- **`RoomSnapshot_proof`** has no theorem of a specification but the facts about
  one evaluation: `_unique` keeps each entity once, loses none and keeps them in
  the order of their first appearance (`UniqueInOrder`), every reader
  returns a value or a reason of its kind, groups partition their
  configuration, `_inherited` blames a broken source before an absent one, and
  an evaluation of well-formed inputs raises nowhere. The last part compares a
  house with itself after losing entities: each observation is the same or has
  become unreadable, so no guard and no rule turns bolder.
- **`RoomAdvice_proof`.** `HouseInv` says that what is stored is clean and that
  the latest evaluation is the pipeline's of the house that `evaluated`
  remembers; it needs nothing else, since the pipeline has no memory but
  `since`. From it and the facts above follow `TypeCorrect`, `AlwaysAnswers`,
  `DeadIsNotAbsent`, `LossNeverEmboldens`, `ClosesWhatIsOpen`,
  `OpensOnWhatItSaw` and `AdvantageIsTrue`, the temperature advantage in any
  units. `InputsReadBack` says that storing loses nothing: what is stored goes
  through the builder, and through a form submitted untouched, as it is.
  `EmptyWhileWatched` has an invariant of its own,
  `WatchInv`: while the sensor said empty, `since` is the time of the latest
  evaluation less the time watched.
- **`RuleRegistry_proof`.** `RegistryConsistent`, `GuardsApart`, `RanksKept`; and
  **`RuleRunner_proof`**, where `RunnerIsRegistry` shows that the runner implements
  the registry, so that these carry over (`RunnerConsistent`, `RunnerKeepsRanks`),
  and an invariant adds that an evaluation's outcomes are those of a prefix of the
  ranks there are now:
  `AdviceTraced`, `GuardsHarmless`, `AllAnswer`.

Assumptions are on the constants only (`ConstantsAssumption`, `FormsAssumption`,
`ClockAssumption`, `LatchAssumption`, `SnapshotAssumption`, `AdviceAssumption`,
`RegistryAssumption`, `RunnerAssumption`): placeholders differ from the values
they stand beside, durations are natural numbers, the entity registry is finite
(`FormsAssumption`: the code counts what it finds there), and forms and reports
are of the shape Home Assistant's selectors and entities give them. TLC evaluates them
on every run.

Only model-checked is what is said of liveness (`TitleReachesDevice`,
`DurationsObserved`, the fairness half of `MirrorsRooms`), which is out of the
prover's reach. The two properties of the expected violations are false, and
every other property of a run is a theorem.

## What is not modelled

- Wording, translations, selectors and the layout of forms.
- The order a form lists entities in (`InputForms` has sets, `RoomSnapshot`
  lists), and an entity that is deleted from its registry: its id stays stored
  and reads as never seen, which `RoomAdvice` has as an entity without a state.
- The numbers of the Magnus formula. It raises where it divides by zero or takes
  the logarithm of nothing and elsewhere drops by a degree per 5% below
  saturation; the refusals are the code's.
- Integers stand for floats, so nothing is said of rounding or of an overflow to
  infinity inside a derivation. A humidity is a whole percentage: one so small
  that dividing it by 100 gives zero is not among them. Kelvin is left out, as
  said above.
- `RoomSettings`' lookups by key, `get_value`, `identity_in` and the timing in
  `ConditionState`, which nothing calls yet; `KeyError` for keys a snapshot
  always carries; `declared_inputs` and its relatives, which only tests use.
- Removing the hub itself; a set-up or unload that fails (`PLATFORMS` is empty and
  neither function can); writing to disk, which is Home Assistant's.
- Publication, stabilisation timers and entities, which are not written yet.

## Plan

1. Done: `RoomHub` with `RoomMirror`, `InputForms`, `Vacancy` with `VacancyClock`,
   `Latch`, `RoomSnapshot` with `RoomAdvice`, `RuleRegistry` with `RuleRunner`, and
   proofs of every safety property the runs check.
2. When the opening rules are written: their thresholds over `Latch`, their
   guards in place of `Guards` and `Ceiling`, and the advice of a room with all
   its rules by precedence.
3. When the coordinator is written: the caller that `VacancyClock`, `Latch` and
   `RoomAdvice` each assume, as one module that implements all three.
