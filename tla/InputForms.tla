----------------------------- MODULE InputForms -----------------------------
(***************************************************************************)
(* What the house and its rooms read: the entity step that adds and edits  *)
(* a room, the hub's options form (config_flow.py), and the entities an    *)
(* area proposes for a room (inputs.py).                                   *)
(*                                                                         *)
(* A form shows something when it opens and stores the whole of what comes *)
(* back.  Several may be open at once, and while they are, entities move   *)
(* between areas and are hidden, reclassified or disabled.  An input is    *)
(* here the set of its entities; the order they are listed in matters to   *)
(* RoomSnapshot.  Names and areas, and what a first step checks of them,   *)
(* are RoomHub's.  Deleting an area is, here, everything leaving it.       *)
(***************************************************************************)
EXTENDS InputKeys, Naturals, FiniteSets

CONSTANTS
    Room,          \* ids a room may get
    Form,          \* form instances that may be open at once
    Area, Device, Entity,
    domain,        \* each entity's domain
    device,        \* the device each entity belongs to, or NoDevice
    originalClass, \* the device class its integration gives it, or NoClass
    Entries,       \* what each entity's registry entry may come to say
    RoomEdits,     \* what a user may change on a room's form
    SharedEdits,   \* what a user may change on the hub's form
    MaxMoves,      \* bound: changes to the registries
    MaxSubmits,    \* bound: forms submitted
    NoArea, NoDevice, NoClass, NewRoom, Hub, Nobody, Blank

MaybeArea == Area \cup {NoArea}

\* An entity's registry entry: its own area and class, where it has them.
Entry == [area : MaybeArea, class : STRING \cup {NoClass},
          status : {"shown", "hidden", "disabled"}]

\* Fields of a form, or of a stored mapping: a key that is absent is empty.
Fields(fields, keys, values) ==
    /\ fields \in [DOMAIN fields -> SUBSET values]
    /\ DOMAIN fields \subseteq keys
NoInputs == [k \in {} |-> {}]

\* One mapping over another, as in {**under, **over}.
Over(over, under) ==
    [k \in DOMAIN over \cup DOMAIN under |-> IF k \in DOMAIN over THEN over[k] ELSE under[k]]

ASSUME FormsAssumption ==
    /\ IsFiniteSet(Entity)
    /\ device \in [Entity -> Device \cup {NoDevice}] /\ NoDevice \notin Device
    /\ DOMAIN Entries = Entity
    /\ \A e \in Entity : Entries[e] \subseteq Entry
    /\ \A edit \in RoomEdits : Fields(edit, RoomInputs, Entity \cup {Blank})
    /\ \A edit \in SharedEdits : Fields(edit, SharedInputs, Entity \cup {Blank})
    /\ MaxMoves \in Nat /\ MaxSubmits \in Nat
    /\ NoArea \notin Area /\ Blank \notin Entity
    /\ {NewRoom, Hub, Nobody} \cap Room = {}
    /\ NewRoom # Hub /\ Hub # Nobody /\ Nobody # NewRoom

VARIABLES
    entries,   \* the entity registry
    placed,    \* the device registry: the area of each device
    rooms,     \* what each room stores: [area, asked, inputs], where asked is
               \* whether it stores inputs at all, be they empty
    hub,       \* whether there is a hub
    shared,    \* the hub's stored inputs
    forms,     \* each open form: whose it is, its area, and what it showed
    moves, submits,
    overtaken, \* history: forms whose owner was stored to since they opened
    cleared    \* history: what users took out: <<owner, input, entity>>

registries == <<entries, placed, moves>>
vars == <<registries, rooms, hub, shared, forms, submits, overtaken, cleared>>

Closed == [owner |-> Nobody, area |-> NoArea, shown |-> NoInputs]

\* Before the hub, or beside rooms that were added before the entity step.
Init ==
    /\ entries \in [Entity -> UNION {Entries[e] : e \in Entity}]
    /\ \A e \in Entity : entries[e] \in Entries[e]
    /\ placed \in [Device -> MaybeArea]
    /\ hub \in BOOLEAN /\ shared = NoInputs
    /\ \E R \in SUBSET IF hub THEN Room ELSE {} :
          rooms \in [R -> [area : MaybeArea, asked : {FALSE}, inputs : {NoInputs}]]
    /\ forms = [f \in Form |-> Closed]
    /\ moves = 0 /\ submits = 0
    /\ overtaken = {} /\ cleared = {}

-----------------------------------------------------------------------------
(* What an area proposes.                                                  *)

\* InputSpec.matches, over the filters INPUTS gives the room inputs.
matches(key, dom, class) ==
    CASE key = "indoor_temperature" -> dom = "sensor" /\ class = "temperature"
      [] key = "indoor_co2" -> dom = "sensor" /\ class = "carbon_dioxide"
      [] key = "occupancy" ->
            dom = "binary_sensor" /\ class \in {"occupancy", "motion", "presence"}
      [] key = "window_contacts" ->
            dom = "binary_sensor" /\ class \in {"window", "door", "opening"}
      [] key = "lights" -> dom = "light"
      [] key = "fan" -> dom = "fan"
      [] key = "hvac" -> dom = "climate"

\* Mutant: an entity's own area does not keep its device's from counting.
_area_entities_dragged(area) ==
    LET live == {e \in Entity : entries[e].status = "shown"}
    IN  {e \in live : entries[e].area = area} \X {"own"}
        \cup {e \in live : /\ device[e] # NoDevice
                           /\ placed[device[e]] = area} \X {"device"}

\* _area_entities: what is found, and how.  The code's list holds an entity
\* as often as it is found: by its own area, and through its device if it has
\* none of its own.
_area_entities(area) ==
    LET live == {e \in Entity : entries[e].status = "shown"}
    IN  {e \in live : entries[e].area = area} \X {"own"}
        \cup {e \in live : /\ device[e] # NoDevice
                           /\ placed[device[e]] = area
                           /\ entries[e].area = NoArea} \X {"device"}

\* entity.device_class or entity.original_device_class
ClassOf(e) == IF entries[e].class # NoClass THEN entries[e].class ELSE originalClass[e]

\* The finds that are of an input's kind.
Candidates(area, k) ==
    {find \in IF area = NoArea THEN {} ELSE _area_entities(area) :
        matches(k, domain[find[1]], ClassOf(find[1]))}

\* suggest_room_inputs: a single-entity input only if exactly one was found.
suggest_room_inputs(area) ==
    LET Offered(k) ==
            IF k \in MultipleInputs THEN Candidates(area, k) # {}
                                    ELSE Cardinality(Candidates(area, k)) = 1
    IN  [k \in {k \in RoomInputs : Offered(k)} |-> {find[1] : find \in Candidates(area, k)}]

\* Mutant: a room that stores nothing is taken for one never asked.
_suggested_inputs_truthy(r, area) ==
    IF rooms[r].inputs # NoInputs THEN rooms[r].inputs ELSE suggest_room_inputs(area)

\* _suggested_inputs, of a room that exists.
_suggested_inputs(r, area) ==
    IF rooms[r].asked THEN rooms[r].inputs ELSE suggest_room_inputs(area)

\* Mutant: a field that is cleared is stored, naming nothing.
clean_inputs_all(form, keys) == [k \in keys \cap DOMAIN form |-> form[k] \ {Blank}]

\* clean_inputs: a field that names no entity is not stored.
clean_inputs(form, keys) ==
    LET Named(k) == form[k] \ {Blank}
    IN  [k \in {k \in keys \cap DOMAIN form : Named(k) # {}} |-> Named(k)]

-----------------------------------------------------------------------------
(* Forms.  A user changes some of the fields shown, and submits them all.  *)

Open(f, owner, area, shown) ==
    /\ forms[f] = Closed
    /\ forms' = [forms EXCEPT ![f] = [owner |-> owner, area |-> area, shown |-> shown]]
    /\ overtaken' = overtaken \ {f}
    /\ UNCHANGED <<registries, rooms, hub, shared, submits, cleared>>

\* RoomSubentryFlow.async_step_user, on to async_step_inputs.
OpenAdd(f, area) ==
    /\ hub
    /\ Open(f, NewRoom, area, suggest_room_inputs(area))

\* RoomSubentryFlow.async_step_reconfigure, on to async_step_inputs.
OpenEdit(f, r, area) ==
    /\ r \in DOMAIN rooms
    /\ Open(f, r, area, _suggested_inputs(r, area))

\* RoomAdvisorOptionsFlow.async_step_init, showing.
OpenOptions(f) ==
    /\ hub
    /\ Open(f, Hub, NoArea, shared)

Pairs(fields) == UNION {{k} \X fields[k] : k \in DOMAIN fields}

\* The owner's answers were stored by form f: it closes, every other form of
\* the owner is overtaken, and the user's removals are remembered until the
\* entity is picked again, or comes back with a form opened before.
Stored(f, owner, kept) ==
    LET before == Pairs(forms[f].shown)
        after == Pairs(kept)
        picked == IF f \in overtaken THEN after ELSE after \ before
    IN  /\ submits < MaxSubmits
        /\ submits' = submits + 1
        /\ forms' = [forms EXCEPT ![f] = Closed]
        /\ overtaken' = (overtaken \cup {g \in Form : forms[g].owner = owner}) \ {f}
        /\ cleared' = (cleared \ {<<owner, p>> : p \in picked})
                         \cup {<<owner, p>> : p \in before \ after}
        /\ UNCHANGED <<registries, hub>>

\* async_step_inputs of a room being added, under an id nothing refers to.
SubmitAdd(f, r, edit) ==
    LET kept == clean_inputs(Over(edit, forms[f].shown), RoomInputs)
    IN  /\ forms[f].owner = NewRoom
        /\ r \notin DOMAIN rooms /\ \A g \in Form : forms[g].owner # r
        /\ rooms' = Over([i \in {r} |-> [area |-> forms[f].area, asked |-> TRUE, inputs |-> kept]],
                          rooms)
        /\ Stored(f, r, kept)
        /\ UNCHANGED shared

\* Mutant: what the form leaves out is kept as it was stored.
SubmitEditMerged(f, edit) ==
    LET r == forms[f].owner
        kept == clean_inputs(Over(edit, forms[f].shown), RoomInputs)
    IN  /\ r \in DOMAIN rooms
        /\ rooms' = [rooms EXCEPT ![r] =
               [area |-> forms[f].area, asked |-> TRUE, inputs |-> Over(kept, @.inputs)]]
        /\ Stored(f, r, kept)
        /\ UNCHANGED shared

\* Mutant: only the fields that were changed are stored.
SubmitEditTouched(f, edit) ==
    LET r == forms[f].owner
        kept == clean_inputs(edit, RoomInputs)
    IN  /\ r \in DOMAIN rooms
        /\ rooms' = [rooms EXCEPT ![r] =
               [area |-> forms[f].area, asked |-> TRUE, inputs |-> kept]]
        /\ Stored(f, r, kept)
        /\ UNCHANGED shared

\* async_step_inputs of a room being edited.  A room that has gone raises.
SubmitEdit(f, edit) ==
    LET r == forms[f].owner
        kept == clean_inputs(Over(edit, forms[f].shown), RoomInputs)
    IN  /\ r \in DOMAIN rooms
        /\ rooms' = [rooms EXCEPT ![r] =
               [area |-> forms[f].area, asked |-> TRUE, inputs |-> kept]]
        /\ Stored(f, r, kept)
        /\ UNCHANGED shared

\* RoomAdvisorOptionsFlow.async_step_init, storing.
SubmitOptions(f, edit) ==
    LET kept == clean_inputs(Over(edit, forms[f].shown), SharedInputs)
    IN  /\ forms[f].owner = Hub
        /\ shared' = kept
        /\ Stored(f, Hub, kept)
        /\ UNCHANGED rooms

\* RoomAdvisorConfigFlow.async_step_user: the hub is created.
CreateHub(edit) ==
    /\ ~hub /\ hub' = TRUE
    /\ shared' = clean_inputs(edit, SharedInputs)
    /\ UNCHANGED <<registries, rooms, forms, submits, overtaken, cleared>>

Abandon(f) ==
    /\ forms[f] # Closed
    /\ forms' = [forms EXCEPT ![f] = Closed]
    /\ overtaken' = overtaken \ {f}
    /\ UNCHANGED <<registries, rooms, hub, shared, submits, cleared>>

-----------------------------------------------------------------------------
(* What Home Assistant and its user do meanwhile.                          *)

RemoveRoom(r) ==
    /\ r \in DOMAIN rooms
    /\ rooms' = [i \in DOMAIN rooms \ {r} |-> rooms[i]]
    /\ cleared' = {c \in cleared : c[1] # r}
    /\ UNCHANGED <<registries, hub, shared, forms, submits, overtaken>>

Move == moves < MaxMoves /\ moves' = moves + 1

\* An entity is moved, reclassified, hidden, disabled, or the reverse.
UpdateEntity(e, entry) ==
    /\ Move
    /\ entries[e] # entry
    /\ entries' = [entries EXCEPT ![e] = entry]
    /\ UNCHANGED <<placed, rooms, hub, shared, forms, submits, overtaken, cleared>>

MoveDevice(d, area) ==
    /\ Move
    /\ placed[d] # area
    /\ placed' = [placed EXCEPT ![d] = area]
    /\ UNCHANGED <<entries, rooms, hub, shared, forms, submits, overtaken, cleared>>

FormStep(f) ==
    \/ \E area \in MaybeArea : OpenAdd(f, area)
    \/ \E r \in Room, area \in MaybeArea : OpenEdit(f, r, area)
    \/ OpenOptions(f)
    \/ \E r \in Room, edit \in RoomEdits : SubmitAdd(f, r, edit)
    \/ \E edit \in RoomEdits : SubmitEdit(f, edit)
    \/ \E edit \in SharedEdits : SubmitOptions(f, edit)
    \/ Abandon(f)

Next ==
    \/ \E f \in Form : FormStep(f)
    \/ \E edit \in SharedEdits : CreateHub(edit)
    \/ \E r \in Room : RemoveRoom(r)
    \/ \E e \in Entity : \E entry \in Entries[e] : UpdateEntity(e, entry)
    \/ \E d \in Device, area \in MaybeArea : MoveDevice(d, area)

Spec == Init /\ [][Next]_vars

-----------------------------------------------------------------------------
(* Type invariant: what is stored is clean, naming at least one entity.    *)
Clean(fields, keys) ==
    Fields(fields, keys, Entity) /\ \A k \in DOMAIN fields : fields[k] # {}

IsForm(form) ==
    /\ form = [owner |-> form.owner, area |-> form.area, shown |-> form.shown]
    /\ form.owner \in Room \cup {NewRoom, Hub, Nobody} /\ form.area \in MaybeArea
    /\ Fields(form.shown, IF form.owner = Hub THEN SharedInputs ELSE RoomInputs, Entity)

TypeOK ==
    /\ \A e \in Entity : entries[e] \in Entries[e]
    /\ placed \in [Device -> MaybeArea]
    /\ DOMAIN rooms \subseteq Room
    /\ \A r \in DOMAIN rooms :
          /\ rooms[r].area \in MaybeArea /\ rooms[r].asked \in BOOLEAN
          /\ Clean(rooms[r].inputs, RoomInputs)
    /\ hub \in BOOLEAN
    /\ Clean(shared, SharedInputs)
    /\ moves \in 0 .. MaxMoves /\ submits \in 0 .. MaxSubmits
    /\ overtaken \subseteq Form
    /\ DOMAIN forms = Form
    /\ \A f \in Form : IsForm(forms[f])

(* Which of its inputs an owner has been asked for, and what they are.     *)
Owners == DOMAIN rooms \cup {Hub}
StoredBy(owner) == IF owner = Hub THEN shared ELSE rooms[owner].inputs
Asked(owner) == IF owner = Hub THEN hub ELSE owner \in DOMAIN rooms /\ rooms[owner].asked

(* What a user took out of a room or the hub, or declined when its area    *)
(* offered it, stays out: it is read again only if it is picked again, or  *)
(* by a form that was already open when it was taken out, which stores all *)
(* it showed (_suggested_inputs, async_step_inputs, async_step_init).      *)
ClearedStaysOut ==
    \A owner \in Owners : Asked(owner) =>
        \A p \in Pairs(StoredBy(owner)) : <<owner, p>> \notin cleared

(* Why: a form that nothing was stored behind still shows what is stored.  *)
ShowsWhatIsStored ==
    \A f \in Form \ overtaken :
        Asked(forms[f].owner) => forms[f].shown = StoredBy(forms[f].owner)

(* The inductive invariant behind both: besides, only an owner that was    *)
(* asked has anything to take out, and no options form is older than the   *)
(* hub.                                                                    *)
FormInv ==
    /\ ClearedStaysOut
    /\ ShowsWhatIsStored
    /\ \A c \in cleared : Asked(c[1])
    /\ \A f \in Form : forms[f].owner = Hub => hub

In(fields, k) == IF k \in DOMAIN fields THEN fields[k] ELSE {}

\* Nothing but the fields of an edit differs between two stored mappings.
ChangedOnly(edit, keys, before, after) ==
    \A k \in keys \ DOMAIN edit : In(after, k) = In(before, k)

(* A field its user does not touch is stored after the submission as it    *)
(* was before it, although the form stores the whole of what it showed: by *)
(* every form nothing was stored behind, even one that moves the room to   *)
(* another area or is submitted after the area's entities changed          *)
(* (_suggested_inputs, clean_inputs, async_step_inputs, async_step_init).  *)
LeftAloneStays ==
    [][\A f \in Form \ overtaken, owner \in Owners :
          Asked(owner) /\ forms[f].owner = owner =>
             /\ \A edit \in RoomEdits : SubmitEdit(f, edit) =>
                   ChangedOnly(edit, RoomInputs, StoredBy(owner), StoredBy(owner)')
             /\ \A edit \in SharedEdits : SubmitOptions(f, edit) =>
                   ChangedOnly(edit, SharedInputs, StoredBy(owner), StoredBy(owner)')]_vars

\* Where an entity is: where it was put, or else where its device is.
Whereabouts(e) ==
    IF entries[e].area # NoArea THEN entries[e].area
    ELSE IF device[e] = NoDevice THEN NoArea ELSE placed[device[e]]

Fits(area, k) ==
    {e \in Entity : /\ area # NoArea /\ Whereabouts(e) = area
                    /\ entries[e].status = "shown"
                    /\ matches(k, domain[e], ClassOf(e))}

\* A form that opens for a room that was never asked shows what its area has.
OpensOnWhatFits(f) ==
    LET form == forms'[f]
    IN  (forms[f] = Closed /\ form.owner \in Room \cup {NewRoom} /\ ~Asked(form.owner)) =>
           \A k \in RoomInputs :
              In(form.shown, k) =
                 IF Cardinality(Fits(form.area, k)) = 1
                    \/ (k \in MultipleInputs /\ Fits(form.area, k) # {})
                 THEN Fits(form.area, k) ELSE {}

(* A room that was never asked is offered what is in its area and of the   *)
(* right kind: all of it where an input takes several entities, and where  *)
(* it takes one, that one only if there is no other to choose from         *)
(* (suggest_room_inputs, _area_entities).                                  *)
OffersWhatTheAreaHas == [][\A f \in Form : OpensOnWhatFits(f)]_vars

=============================================================================
