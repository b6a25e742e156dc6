------------------------------ MODULE RoomHub ------------------------------
(***************************************************************************)
(* The Room Advisor hub: one Home Assistant config entry, the rooms it     *)
(* holds as subentries, the multi-step forms that add and edit a room      *)
(* (config_flow.py), and the set-up that gives every room a device and the *)
(* reload that follows every change (__init__.py).                         *)
(*                                                                         *)
(* Several forms may be open at once.  A form validates in its first step  *)
(* and writes in its second, and everything can change between the two:    *)
(* rooms are renamed and removed, areas come and go, the hub reloads, is   *)
(* disabled, or the process restarts.  Home Assistant itself (registries,  *)
(* the set-up lock, listener tasks) is modelled from how the code uses it. *)
(***************************************************************************)
EXTENDS Naturals

CONSTANTS
    Id,          \* subentry ids; Home Assistant never gives one out twice
    Foreign,     \* ids of subentries that are not rooms
    Flow,        \* form instances that may be open at once
    Name,        \* room and area names, already stripped of outer spaces
    Area,        \* area ids
    AreaName,    \* the name of each area
    NormalName,  \* normalize_name: the form in which names are compared
    Option,      \* values of the shared inputs
    MaxTasks,    \* bound: reload tasks waiting for the set-up lock
    NoName, NoArea, NoRoom

ASSUME ConstantsAssumption ==
    /\ Foreign \subseteq Id
    /\ AreaName \in [Area -> Name]
    /\ NormalName \in [Name -> Name]
    /\ MaxTasks \in Nat
    /\ NoName \notin Name
    /\ NoArea \notin Area
    /\ NoRoom \notin Id

VARIABLES
    rooms,      \* entry.subentries: id -> [title, area]
    used,       \* ids given out so far
    options,    \* entry.options: the shared inputs
    areas,      \* the area registry: ids that exist now
    devices,    \* the device registry: id of the room -> [name, area]
    flows,      \* what each open form is at, and holds between its steps
    state,      \* the entry's ConfigEntryState
    enabled,    \* whether the user has left the entry enabled
    busy,       \* entry.setup_lock is held
    listening,  \* _async_config_updated is among entry.update_listeners
    tasks,      \* reloads waiting for the lock
    displaced,  \* history: rooms whose device was re-filed since set-up
    loadedWith, \* history: the options the latest set-up started from
    raced       \* history: forms overtaken since their answers were checked

config == <<rooms, used, options>>
lifecycle == <<state, enabled, busy, listening, tasks>>
history == <<displaced, loadedWith, raced>>
vars == <<config, areas, devices, flows, lifecycle, history>>

-----------------------------------------------------------------------------
MaybeArea == Area \cup {NoArea}
MaybeName == Name \cup {NoName}

Subentry == [title : Name, area : MaybeArea]
Device == [name : Name, area : MaybeArea]
FlowState == [step : {"closed", "user", "reconfigure", "inputs"},
              room : Id \cup {NoRoom}, name : MaybeName, area : MaybeArea]

Dict(K, V) == UNION {[S -> V] : S \in SUBSET K}
Put(d, k, v) == [x \in DOMAIN d \cup {k} |-> IF x = k THEN v ELSE d[x]]
Drop(d, k) == [x \in DOMAIN d \ {k} |-> d[x]]

RoomIds == DOMAIN rooms \ Foreign

Closed == [step |-> "closed", room |-> NoRoom, name |-> NoName, area |-> NoArea]

Init ==
    /\ \E n \in Name : rooms = [i \in Foreign |-> [title |-> n, area |-> NoArea]]
    /\ used = Foreign
    /\ options \in Option
    /\ areas \in SUBSET Area
    /\ devices = [i \in {} |-> NoName]
    /\ flows = [f \in Flow |-> Closed]
    /\ state = "not_loaded" /\ enabled = TRUE /\ busy = TRUE
    /\ listening = FALSE /\ tasks = 0
    /\ displaced = {}
    /\ loadedWith = options
    /\ raced = {}

-----------------------------------------------------------------------------
(* Listeners.  A change to the entry hands every listener a task of its    *)
(* own; _async_config_updated is one, and its task reloads the entry.      *)

FireListeners ==
    /\ tasks < MaxTasks
    /\ tasks' = IF listening THEN tasks + 1 ELSE tasks
    /\ UNCHANGED <<state, enabled, busy, listening>>

-----------------------------------------------------------------------------
(* The forms: RoomSubentryFlow.                                            *)

\* Mutant: names compared as they are spelt.
NameTakenAsSpelt(name) == \E i \in RoomIds : rooms[i].title = name

NameTaken(name) ==
    \E i \in RoomIds : NormalName[rooms[i].title] = NormalName[name]

UnknownArea(area) == area # NoArea /\ area \notin areas

\* A blank name is seeded from the area, which has to exist for that.
SeededName(name, area) ==
    IF name = NoName /\ area \in areas THEN AreaName[area] ELSE name

\* The forms whose answers are checked and not yet written.
Waiting == {f \in Flow : flows[f].step = "inputs"}

StartAdd(f) ==
    /\ flows[f].step = "closed"
    /\ flows' = [flows EXCEPT ![f].step = "user"]
    /\ UNCHANGED <<config, areas, devices, lifecycle, history>>

\* Mutant: a form without a name, in an area or not, is accepted.
SubmitUserUnnamed(f, name, area) ==
    LET seeded == SeededName(name, area)
    IN  /\ flows[f].step = "user"
        /\ ~UnknownArea(area)
        /\ ~NameTaken(seeded)
        /\ flows' = [flows EXCEPT ![f] =
               [step |-> "inputs", room |-> NoRoom, name |-> seeded, area |-> area]]
        /\ raced' = raced \ {f}
        /\ UNCHANGED <<config, areas, devices, lifecycle, displaced, loadedWith>>

\* A submission with errors shows the same form again and changes nothing.
SubmitUser(f, name, area) ==
    LET seeded == SeededName(name, area)
    IN  /\ flows[f].step = "user"
        /\ ~UnknownArea(area)
        /\ seeded # NoName
        /\ ~NameTaken(seeded)
        /\ flows' = [flows EXCEPT ![f] =
               [step |-> "inputs", room |-> NoRoom, name |-> seeded, area |-> area]]
        /\ raced' = raced \ {f}
        /\ UNCHANGED <<config, areas, devices, lifecycle, displaced, loadedWith>>

StartReconfigure(f, i) ==
    /\ flows[f].step = "closed"
    /\ i \in RoomIds
    /\ flows' = [flows EXCEPT ![f] = [Closed EXCEPT !.step = "reconfigure", !.room = i]]
    /\ UNCHANGED <<config, areas, devices, lifecycle, history>>

\* Fetching a subentry that has gone raises, which leaves the form as it was.
SubmitReconfigure(f, area) ==
    LET i == flows[f].room
    IN  /\ flows[f].step = "reconfigure"
        /\ i \in RoomIds
        /\ ~UnknownArea(area)
        /\ flows' = [flows EXCEPT ![f] =
               [step |-> "inputs", room |-> i, name |-> rooms[i].title, area |-> area]]
        /\ raced' = raced \ {f}
        /\ UNCHANGED <<config, areas, devices, lifecycle, displaced, loadedWith>>

\* The entity step of an added room: where the room is written.
CommitAdd(f, i) ==
    /\ flows[f].step = "inputs" /\ flows[f].room = NoRoom
    /\ i \in Id \ used
    /\ rooms' = Put(rooms, i, [title |-> flows[f].name, area |-> flows[f].area])
    /\ used' = used \cup {i}
    /\ flows' = [flows EXCEPT ![f] = Closed]
    /\ raced' = Waiting \ {f}
    /\ FireListeners
    /\ UNCHANGED <<options, areas, devices, displaced, loadedWith>>

\* Mutant: an edit writes the name its form holds as well.
EditedWithName(subentry, form) == [title |-> form.name, area |-> form.area]

\* What an edit writes over the stored subentry: its data, never its title.
Edited(subentry, form) == [subentry EXCEPT !.area = form.area]

\* The entity step of an edited room.  Storing what is stored already fires no
\* listener, and so changes as little as Abandon.
CommitReconfigure(f) ==
    LET i == flows[f].room
    IN  /\ flows[f].step = "inputs"
        /\ i \in RoomIds
        /\ rooms' = [rooms EXCEPT ![i] = Edited(rooms[i], flows[f])]
        /\ flows' = [flows EXCEPT ![f] = Closed]
        /\ raced' = raced \ {f}
        /\ FireListeners
        /\ UNCHANGED <<used, options, areas, devices, displaced, loadedWith>>

Abandon(f) ==
    /\ flows[f].step # "closed"
    /\ flows' = [flows EXCEPT ![f] = Closed]
    /\ raced' = raced \ {f}
    /\ UNCHANGED <<config, areas, devices, lifecycle, displaced, loadedWith>>

\* RoomAdvisorOptionsFlow: writing unchanged options fires no listener.
SubmitOptions(o) ==
    /\ o # options
    /\ options' = o
    /\ FireListeners
    /\ UNCHANGED <<rooms, used, areas, devices, flows, history>>

-----------------------------------------------------------------------------
(* What Home Assistant and its user do to the entry and the registries.    *)

Rename(i, n) ==
    /\ i \in DOMAIN rooms
    /\ rooms[i].title # n
    /\ rooms' = [rooms EXCEPT ![i].title = n]
    /\ raced' = Waiting
    /\ FireListeners
    /\ UNCHANGED <<used, options, areas, devices, flows, displaced, loadedWith>>

\* A subentry's devices go with it.
RemoveRoom(i) ==
    /\ i \in DOMAIN rooms
    /\ rooms' = Drop(rooms, i)
    /\ devices' = Drop(devices, i)
    /\ displaced' = displaced \ {i}
    /\ FireListeners
    /\ UNCHANGED <<used, options, areas, flows, loadedWith, raced>>

CreateArea(a) ==
    /\ a \notin areas
    /\ areas' = areas \cup {a}
    /\ displaced' = displaced \cup {i \in RoomIds : rooms[i].area = a}
    /\ UNCHANGED <<config, devices, flows, lifecycle, loadedWith, raced>>

\* Deleting an area clears it from every device filed in it.
DeleteArea(a) ==
    /\ a \in areas
    /\ areas' = areas \ {a}
    /\ devices' = [i \in DOMAIN devices |->
           IF devices[i].area = a THEN [devices[i] EXCEPT !.area = NoArea] ELSE devices[i]]
    /\ raced' = Waiting
    /\ UNCHANGED <<config, flows, lifecycle, displaced, loadedWith>>

\* The user files a device by hand.
MoveDevice(i, a) ==
    /\ i \in DOMAIN devices
    /\ a \in areas \cup {NoArea}
    /\ devices[i].area # a
    /\ devices' = [devices EXCEPT ![i].area = a]
    /\ displaced' = displaced \cup {i}
    /\ UNCHANGED <<config, areas, flows, lifecycle, loadedWith, raced>>

\* Enabling and disabling the entry both end in a reload of their own.
SetEnabled(b) ==
    /\ enabled # b
    /\ tasks < MaxTasks
    /\ enabled' = b
    /\ tasks' = tasks + 1
    /\ UNCHANGED <<config, areas, devices, flows, state, busy, listening, history>>

\* Registries and the entry are on disk; forms, listeners and tasks are not.
Restart ==
    /\ state' = "not_loaded" /\ busy' = TRUE /\ listening' = FALSE /\ tasks' = 0
    /\ flows' = [f \in Flow |-> Closed]
    /\ raced' = {}
    /\ UNCHANGED <<config, areas, devices, enabled, displaced, loadedWith>>

-----------------------------------------------------------------------------
(* The entry's lifecycle.  Each action is a stretch without an await.      *)

\* Mutant: only a hub that runs is reloaded.
StartReloadIfLoaded ==
    /\ tasks > 0 /\ ~busy
    /\ tasks' = tasks - 1
    /\ busy' = (state = "loaded")
    /\ state' = IF state = "loaded" THEN "unload_in_progress" ELSE state
    /\ UNCHANGED <<config, areas, devices, flows, enabled, listening, history>>

\* _async_config_updated: the reload takes the lock and starts unloading.
StartReload ==
    /\ tasks > 0 /\ ~busy
    /\ tasks' = tasks - 1
    /\ busy' = TRUE
    /\ state' = IF state = "loaded" THEN "unload_in_progress" ELSE state
    /\ UNCHANGED <<config, areas, devices, flows, enabled, listening, history>>

\* async_unload_entry has returned: what async_on_unload holds is run.
FinishUnload ==
    /\ state = "unload_in_progress"
    /\ state' = "not_loaded"
    /\ listening' = FALSE
    /\ UNCHANGED <<config, areas, devices, flows, enabled, busy, tasks, history>>

\* Mutant: a stored area is used as it is.
StoredArea(area) == area

\* A stored area that has been deleted counts as no area.
LiveArea(area) == IF area \in areas THEN area ELSE NoArea

\* Mutant: a room without a live area takes its device out of any area.
FiledAreaOrNone(i) == LiveArea(rooms[i].area)

\* Without an area to file it in, a device keeps the place it has.
FiledArea(i) ==
    LET area == LiveArea(rooms[i].area)
    IN  IF area # NoArea THEN area
        ELSE IF i \in DOMAIN devices THEN devices[i].area ELSE NoArea

\* Mutant: every subentry gets a device.
DevicesForAll ==
    [i \in DOMAIN rooms |-> [name |-> rooms[i].title, area |-> FiledArea(i)]]

\* Mutant: devices are created, and left alone after that.
DevicesCreatedOnce ==
    [i \in DOMAIN devices \cup RoomIds |->
        IF i \in DOMAIN devices THEN devices[i]
        ELSE [name |-> rooms[i].title, area |-> FiledArea(i)]]

\* Mutant: each device is created with its room's name and never updated.
DevicesKeepNames ==
    [i \in DOMAIN devices \cup RoomIds |->
        IF i \in RoomIds
        THEN [name |-> IF i \in DOMAIN devices THEN devices[i].name ELSE rooms[i].title,
              area |-> FiledArea(i)]
        ELSE devices[i]]

\* _async_register_room_devices: get or create, then update, every room's.
RegisteredDevices ==
    [i \in DOMAIN devices \cup RoomIds |->
        IF i \in RoomIds THEN [name |-> rooms[i].title, area |-> FiledArea(i)]
                         ELSE devices[i]]

\* Mutant: the update listener is never added.
SetupWithoutListener ==
    /\ busy /\ state = "not_loaded" /\ enabled
    /\ devices' = RegisteredDevices
    /\ state' = "setup_in_progress"
    /\ displaced' = {}
    /\ loadedWith' = options
    /\ UNCHANGED <<config, areas, flows, enabled, busy, listening, tasks, raced>>

\* async_setup_entry up to its await: devices first, then the listener.
SetupEntry ==
    /\ busy /\ state = "not_loaded" /\ enabled
    /\ devices' = RegisteredDevices
    /\ listening' = TRUE
    /\ state' = "setup_in_progress"
    /\ displaced' = {}
    /\ loadedWith' = options
    /\ UNCHANGED <<config, areas, flows, enabled, busy, tasks, raced>>

\* async_setup_entry after its await.
FinishSetup ==
    /\ state = "setup_in_progress"
    /\ state' = "loaded"
    /\ busy' = FALSE
    /\ UNCHANGED <<config, areas, devices, flows, enabled, listening, tasks, history>>

\* A disabled entry is not set up again.
SkipSetup ==
    /\ busy /\ state = "not_loaded" /\ ~enabled
    /\ busy' = FALSE
    /\ UNCHANGED <<config, areas, devices, flows, state, enabled, listening, tasks, history>>

-----------------------------------------------------------------------------
FlowStep(f) ==
    \/ StartAdd(f)
    \/ \E n \in MaybeName, a \in MaybeArea : SubmitUser(f, n, a)
    \/ \E i \in Id : StartReconfigure(f, i)
    \/ \E a \in MaybeArea : SubmitReconfigure(f, a)
    \/ \E i \in Id : CommitAdd(f, i)
    \/ CommitReconfigure(f)
    \/ Abandon(f)

UserStep ==
    \/ \E o \in Option : SubmitOptions(o)
    \/ \E i \in Id, n \in Name : Rename(i, n)
    \/ \E i \in Id : RemoveRoom(i)
    \/ \E a \in Area : CreateArea(a)
    \/ \E a \in Area : DeleteArea(a)
    \/ \E i \in Id, a \in MaybeArea : MoveDevice(i, a)
    \/ \E b \in BOOLEAN : SetEnabled(b)

ReloadStep ==
    \/ StartReload
    \/ FinishUnload
    \/ SetupEntry
    \/ FinishSetup
    \/ SkipSetup

Next == ReloadStep \/ UserStep \/ Restart \/ \E f \in Flow : FlowStep(f)

\* The event loop runs every task that is ready; a user owes nothing.
Fairness == WF_vars(ReloadStep)

Spec == Init /\ [][Next]_vars
FairSpec == Spec /\ Fairness

-----------------------------------------------------------------------------
(* Type invariant.                                                         *)
TypeOK ==
    /\ rooms \in Dict(Id, Subentry)
    /\ used \in SUBSET Id
    /\ options \in Option
    /\ areas \in SUBSET Area
    /\ devices \in Dict(Id, Device)
    /\ flows \in [Flow -> FlowState]
    /\ \A f \in Waiting : flows[f].name # NoName
    /\ state \in {"not_loaded", "setup_in_progress", "loaded", "unload_in_progress"}
    /\ enabled \in BOOLEAN /\ busy \in BOOLEAN /\ listening \in BOOLEAN
    /\ tasks \in 0..MaxTasks
    /\ displaced \in SUBSET Id
    /\ loadedWith \in Option
    /\ raced \in SUBSET Flow

(***************************************************************************)
(* Properties.                                                             *)
(***************************************************************************)

(* No device is ever filed in an area that does not exist, although rooms  *)
(* keep the id of an area after it is deleted and set-up files devices by  *)
(* those stored ids (_async_register_room_devices).                        *)
NoDanglingArea ==
    \A i \in DOMAIN devices : devices[i].area \in areas \cup {NoArea}

(* Every device belongs to a room that exists: set-up gives none to a      *)
(* subentry that is not a room and none comes back after its room is gone. *)
OnlyRoomsHaveDevices == DOMAIN devices \subseteq RoomIds

\* The hub runs and no reload is on its way.
Settled == state = "loaded" /\ tasks = 0

\* What set-up made of the configuration is still what it says.
UpToDate ==
    /\ loadedWith = options
    /\ \A i \in RoomIds :
          /\ i \in DOMAIN devices
          /\ devices[i].name = rooms[i].title
          /\ (rooms[i].area \in areas /\ i \notin displaced)
                => devices[i].area = rooms[i].area

(* However edits, reloads, restarts and disabling interleave, a hub at     *)
(* rest has shown every room's latest title and area on its device and     *)
(* started from the latest options: no update falls between dropping the   *)
(* old listener and reading the configuration again (async_setup_entry     *)
(* registers devices and adds the listener with no await between them).    *)
NoLostUpdate == Settled => UpToDate

(* An enabled hub is never left behind: when nothing holds the lock and no *)
(* reload waits, it runs and shows the latest configuration, however often *)
(* it was disabled, enabled, edited and restarted in whatever order        *)
(* (_async_config_updated reloads a hub that is not loaded just as well).  *)
QuietIsDone ==
    enabled /\ ~busy /\ tasks = 0 => state = "loaded" /\ UpToDate

\* A name and an area a room could be given now.
Covered(name) == \E i \in RoomIds : NormalName[rooms[i].title] = NormalName[name]
Placeable(area) == area \in areas \cup {NoArea}

(* What a form holds between its steps is still what _validate promised,   *)
(* a live area and a name no room has, unless a room was added or renamed  *)
(* or an area deleted after the check.                                     *)
HeldAnswersHold ==
    \A f \in Waiting \ raced :
        /\ Placeable(flows[f].area)
        /\ flows[f].room = NoRoom => ~Covered(flows[f].name)

(* The inductive invariant behind these.  The listener is there exactly    *)
(* while the entry is set up, the lock is held through every step of a     *)
(* reload, and from set-up to the next unload the devices are up to date   *)
(* unless a reload already waits.                                          *)
LifecycleOK ==
    /\ listening <=> state # "not_loaded"
    /\ state = "loaded" => ~busy
    /\ state \in {"setup_in_progress", "unload_in_progress"} => busy

\* An enabled hub that is not set up will be.
ComesBack == enabled /\ state = "not_loaded" => busy \/ tasks > 0

InSync == state \in {"setup_in_progress", "loaded"} /\ tasks = 0 => UpToDate

\* A room's id was given out, so no later room gets it.
IdsGivenOut == DOMAIN rooms \subseteq used

HubInv ==
    /\ LifecycleOK
    /\ ComesBack
    /\ IdsGivenOut
    /\ NoDanglingArea
    /\ OnlyRoomsHaveDevices
    /\ InSync
    /\ HeldAnswersHold

(* Set-up re-files a device only into its room's own live area: a device   *)
(* the user placed stays put when its room has no area, or a deleted one.  *)
SetupKeepsPlacement ==
    [][\A i \in DOMAIN devices \cap DOMAIN devices' :
          devices'[i].area # devices[i].area =>
              \/ devices'[i].area = rooms[i].area
              \/ devices[i].area \notin areas'
              \/ i \in displaced']_vars

(* A form never changes the title of a room that exists, even one renamed  *)
(* while the form was open and held the old title (async_step_inputs).     *)
FormsKeepTitles ==
    [][flows' # flows =>
          \A i \in DOMAIN rooms \cap DOMAIN rooms' :
              rooms'[i].title = rooms[i].title]_vars

(* A new title reaches the device: a room of an enabled hub has, in the    *)
(* end, a device of its name unless it is renamed or removed before then,  *)
(* or the hub is disabled (_async_config_updated).                         *)
TitleReachesDevice ==
    \A i \in Id \ Foreign, n \in Name :
        (enabled /\ i \in RoomIds /\ rooms[i].title = n)
            ~> \/ ~enabled
               \/ i \notin RoomIds
               \/ rooms[i].title # n
               \/ i \in DOMAIN devices /\ devices[i].name = n

(* The hub implements the promise of RoomMirror: its devices carry the     *)
(* rooms' names, lag only while it is not at rest, and catch up in one     *)
(* step (_async_register_room_devices) that is always reached.             *)
Mirror == INSTANCE RoomMirror WITH
    Id <- Id \ Foreign,
    title <- [i \in RoomIds |-> rooms[i].title],
    shown <- [i \in DOMAIN devices |-> devices[i].name],
    stale <- ~Settled,
    active <- enabled

MirrorsRooms == Mirror!Spec

(* test_subentries.py: "Adding a room for an area already covered is       *)
(* refused.  The second room takes the same name from the same area": no   *)
(* room is added with the area and the name of a room that is there.       *)
CoveredAreasAreRefused ==
    [][\A i \in DOMAIN rooms' \ DOMAIN rooms, j \in RoomIds :
          ~ /\ rooms'[i].area \in Area /\ rooms'[i].area = rooms[j].area
            /\ NormalName[rooms'[i].title] = NormalName[rooms[j].title]]_vars

(* test_subentries.py: "An area that disappears mid-flow is caught when     *)
(* editing too": no edit stores an area that does not exist.               *)
EditedAreasExist ==
    [][\A i \in DOMAIN rooms \cap DOMAIN rooms' :
          rooms'[i] # rooms[i] /\ flows' # flows => Placeable(rooms'[i].area)]_vars

=============================================================================
