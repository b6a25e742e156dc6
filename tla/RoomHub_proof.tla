--------------------------- MODULE RoomHub_proof ---------------------------
(***************************************************************************)
(* Proofs about RoomHub: its types, that no device is filed in an area     *)
(* that does not exist, that only rooms have devices, that a hub at rest   *)
(* has lost no update and an enabled one always comes to rest up to date,  *)
(* that what a form holds stays what it checked, and the refinement.       *)
(***************************************************************************)
EXTENDS RoomHub, TLAPS

USE DEF MaybeArea, MaybeName

-----------------------------------------------------------------------------
(* Dictionaries.                                                           *)

(* A dictionary is a function whose keys and values are of the right kind. *)
LEMMA DictIntro ==
    ASSUME NEW K, NEW V, NEW S \in SUBSET K, NEW d \in [S -> V]
    PROVE  d \in Dict(K, V)
BY DEF Dict

LEMMA DictElim ==
    ASSUME NEW K, NEW V, NEW d \in Dict(K, V)
    PROVE  /\ DOMAIN d \subseteq K
           /\ d \in [DOMAIN d -> V]
           /\ \A k \in DOMAIN d : d[k] \in V
BY DEF Dict

(* Writing one entry keeps a dictionary a dictionary.                      *)
LEMMA PutType ==
    ASSUME NEW K, NEW V, NEW d \in Dict(K, V), NEW k \in K, NEW v \in V
    PROVE  Put(d, k, v) \in Dict(K, V)
<1>1. DOMAIN d \cup {k} \in SUBSET K
  BY DictElim
<1>2. Put(d, k, v) \in [DOMAIN d \cup {k} -> V]
  BY DictElim DEF Put
<1> QED
  BY <1>1, <1>2, DictIntro

(* So does dropping one.                                                   *)
LEMMA DropType ==
    ASSUME NEW K, NEW V, NEW d \in Dict(K, V), NEW k
    PROVE  Drop(d, k) \in Dict(K, V)
<1>1. DOMAIN d \ {k} \in SUBSET K
  BY DictElim
<1>2. Drop(d, k) \in [DOMAIN d \ {k} -> V]
  BY DictElim DEF Drop
<1> QED
  BY <1>1, <1>2, DictIntro

(* And so does replacing the value of a key it has.                        *)
LEMMA ReplaceType ==
    ASSUME NEW K, NEW V, NEW d \in Dict(K, V), NEW k \in DOMAIN d, NEW v \in V
    PROVE  [d EXCEPT ![k] = v] \in Dict(K, V)
<1>1. [d EXCEPT ![k] = v] \in [DOMAIN d -> V]
  BY DictElim
<1> QED
  BY <1>1, DictElim, DictIntro

-----------------------------------------------------------------------------
(* Type correctness.                                                       *)

LEMMA TypeInit == Init => TypeOK
<1> SUFFICES ASSUME Init PROVE TypeOK
  OBVIOUS
<1> USE ConstantsAssumption DEF Init
<1>1. rooms \in Dict(Id, Subentry)
  <2>1. PICK n \in Name : rooms = [i \in Foreign |-> [title |-> n, area |-> NoArea]]
    OBVIOUS
  <2>2. rooms \in [Foreign -> Subentry]
    BY <2>1 DEF Subentry
  <2> QED
    BY <2>2, DictIntro
<1>2. devices \in Dict(Id, Device)
  <2>1. devices \in [{} -> Device]
    OBVIOUS
  <2> QED
    BY <2>1, DictIntro
<1>3. flows \in [Flow -> FlowState]
  BY DEF Closed, FlowState
<1>w. \A f \in Waiting : flows[f].name # NoName
  BY DEF Waiting, Closed
<1>4. enabled \in BOOLEAN /\ busy \in BOOLEAN /\ listening \in BOOLEAN
  BY Zenon
<1>5. tasks \in 0..MaxTasks
  OBVIOUS
<1>6. /\ used \in SUBSET Id /\ options \in Option /\ areas \in SUBSET Area
      /\ displaced \in SUBSET Id /\ loadedWith \in Option /\ raced \in SUBSET Flow
      /\ state \in {"not_loaded", "setup_in_progress", "loaded", "unload_in_progress"}
  OBVIOUS
<1> QED
  BY <1>1, <1>2, <1>3, <1>4, <1>5, <1>6, <1>w DEF TypeOK

(* The type of what set-up registers.                                      *)
LEMMA RegisteredType ==
    ASSUME TypeOK
    PROVE  RegisteredDevices \in Dict(Id, Device)
<1>1. DOMAIN rooms \subseteq Id /\ \A i \in DOMAIN rooms : rooms[i] \in Subentry
  BY DictElim DEF TypeOK
<1>2. DOMAIN devices \subseteq Id /\ \A i \in DOMAIN devices : devices[i] \in Device
  BY DictElim DEF TypeOK
<1>3. \A i \in RoomIds : FiledArea(i) \in MaybeArea
  BY <1>1, <1>2 DEF FiledArea, LiveArea, RoomIds, Subentry, Device
<1>4. RegisteredDevices \in [DOMAIN devices \cup RoomIds -> Device]
  BY <1>1, <1>2, <1>3 DEF RegisteredDevices, RoomIds, Subentry, Device
<1>5. DOMAIN devices \cup RoomIds \in SUBSET Id
  BY <1>1, <1>2 DEF RoomIds
<1> QED
  BY <1>4, <1>5, DictIntro

LEMMA TypeNext == TypeOK /\ [Next]_vars => TypeOK'
<1> SUFFICES ASSUME TypeOK, [Next]_vars PROVE TypeOK'
  OBVIOUS
<1> USE ConstantsAssumption
<1>r. DOMAIN rooms \subseteq Id /\ \A i \in DOMAIN rooms : rooms[i] \in Subentry
  BY DictElim DEF TypeOK
<1>d. DOMAIN devices \subseteq Id /\ \A i \in DOMAIN devices : devices[i] \in Device
  BY DictElim DEF TypeOK
<1>c. Closed \in FlowState /\ Closed.step = "closed"
  BY DEF Closed, FlowState
<1> USE DEF Waiting
<1>1. ASSUME NEW f \in Flow, StartAdd(f) PROVE TypeOK'
  BY <1>1 DEF TypeOK, StartAdd, FlowState, config, lifecycle, history
<1>2. ASSUME NEW f \in Flow, NEW n \in MaybeName, NEW a \in MaybeArea, SubmitUser(f, n, a)
      PROVE  TypeOK'
  <2>1. SeededName(n, a) \in MaybeName
    BY DEF SeededName, TypeOK
  <2>2. flows' \in [Flow -> FlowState]
    BY <1>2, <2>1 DEF TypeOK, SubmitUser, FlowState
  <2> QED
    BY <1>2, <2>2 DEF TypeOK, SubmitUser, config, lifecycle
<1>3. ASSUME NEW f \in Flow, NEW i \in Id, StartReconfigure(f, i) PROVE TypeOK'
  <2>1. flows' \in [Flow -> FlowState]
    BY <1>3, <1>c DEF TypeOK, StartReconfigure, FlowState
  <2>2. Waiting' = Waiting /\ \A g \in Waiting : flows'[g] = flows[g]
    BY <1>3, <2>1 DEF StartReconfigure, Closed, TypeOK
  <2> QED
    BY <1>3, <2>1, <2>2 DEF TypeOK, StartReconfigure, config, lifecycle, history
<1>4. ASSUME NEW f \in Flow, NEW a \in MaybeArea, SubmitReconfigure(f, a) PROVE TypeOK'
  <2>1. rooms[flows[f].room] \in Subentry
    BY <1>4, <1>r DEF SubmitReconfigure, RoomIds
  <2>2. flows' \in [Flow -> FlowState]
    BY <1>4, <2>1 DEF TypeOK, SubmitReconfigure, FlowState, Subentry
  <2> QED
    BY <1>4, <2>1, <2>2 DEF TypeOK, SubmitReconfigure, Subentry, config, lifecycle
<1>5. ASSUME NEW f \in Flow, NEW i \in Id, CommitAdd(f, i) PROVE TypeOK'
  <2>1. rooms' \in Dict(Id, Subentry)
    BY <1>5, PutType DEF CommitAdd, TypeOK, FlowState, Subentry
  <2> QED
    BY <1>5, <1>c, <2>1 DEF CommitAdd, FireListeners, TypeOK, FlowState
<1>6. ASSUME NEW f \in Flow, CommitReconfigure(f) PROVE TypeOK'
  <2>1. rooms' \in Dict(Id, Subentry)
    <3> DEFINE i == flows[f].room
    <3>1. i \in DOMAIN rooms /\ Edited(rooms[i], flows[f]) \in Subentry
      BY <1>6, <1>r DEF CommitReconfigure, RoomIds, Edited, TypeOK, FlowState, Subentry
    <3> QED
      BY <1>6, <3>1, ReplaceType DEF CommitReconfigure, TypeOK
  <2>2. flows' \in [Flow -> FlowState]
    BY <1>6, <1>c DEF CommitReconfigure, TypeOK
  <2>3. Waiting' = Waiting \ {f} /\ \A g \in Waiting' : flows'[g] = flows[g]
    BY <1>6, <1>c, <2>2 DEF CommitReconfigure, TypeOK
  <2> QED
    BY <1>6, <2>1, <2>2, <2>3 DEF CommitReconfigure, FireListeners, TypeOK
<1>7. ASSUME NEW f \in Flow, Abandon(f) PROVE TypeOK'
  BY <1>7, <1>c DEF Abandon, TypeOK, config, lifecycle
<1>8. ASSUME NEW o \in Option, SubmitOptions(o) PROVE TypeOK'
  BY <1>8 DEF SubmitOptions, FireListeners, TypeOK, history
<1>9. ASSUME NEW i \in Id, NEW n \in Name, Rename(i, n) PROVE TypeOK'
  <2>1. [rooms[i] EXCEPT !.title = n] \in Subentry
    BY <1>9, <1>r DEF Rename, Subentry
  <2>2. rooms' \in Dict(Id, Subentry)
    BY <1>9, <2>1, ReplaceType DEF Rename, TypeOK
  <2> QED
    BY <1>9, <2>2 DEF Rename, FireListeners, Waiting, TypeOK
<1>10. ASSUME NEW i \in Id, RemoveRoom(i) PROVE TypeOK'
  <2>1. rooms' \in Dict(Id, Subentry) /\ devices' \in Dict(Id, Device)
    BY <1>10, DropType DEF RemoveRoom, TypeOK
  <2> QED
    BY <1>10, <2>1 DEF RemoveRoom, FireListeners, TypeOK
<1>11. ASSUME NEW a \in Area, CreateArea(a) PROVE TypeOK'
  BY <1>11, <1>r DEF CreateArea, RoomIds, TypeOK, config, lifecycle
<1>12. ASSUME NEW a \in Area, DeleteArea(a) PROVE TypeOK'
  <2>1. devices' \in [DOMAIN devices -> Device]
    BY <1>12, <1>d DEF DeleteArea, Device
  <2>2. devices' \in Dict(Id, Device)
    BY <2>1, <1>d, DictIntro
  <2> QED
    BY <1>12, <2>2 DEF DeleteArea, Waiting, TypeOK, config, lifecycle
<1>13. ASSUME NEW i \in Id, NEW a \in MaybeArea, MoveDevice(i, a) PROVE TypeOK'
  <2>1. [devices[i] EXCEPT !.area = a] \in Device
    BY <1>13, <1>d DEF MoveDevice, Device
  <2>2. devices' \in Dict(Id, Device)
    BY <1>13, <2>1, ReplaceType DEF MoveDevice, TypeOK
  <2> QED
    BY <1>13, <2>2 DEF MoveDevice, TypeOK, config, lifecycle
<1>14. ASSUME NEW b \in BOOLEAN, SetEnabled(b) PROVE TypeOK'
  BY <1>14 DEF SetEnabled, TypeOK, config, history
<1>15. CASE Restart
  <2>1. flows' \in [Flow -> FlowState]
    BY <1>15, <1>c DEF Restart
  <2>2. busy' \in BOOLEAN /\ listening' \in BOOLEAN
    BY <1>15, Zenon DEF Restart
  <2>3. Waiting' = {}
    BY <1>15, <1>c DEF Restart
  <2> QED
    BY <1>15, <2>1, <2>2, <2>3 DEF Restart, TypeOK, config
<1>16. CASE StartReload
  <2>1. busy' \in BOOLEAN
    BY <1>16, Zenon DEF StartReload
  <2> QED
    BY <1>16, <2>1 DEF StartReload, TypeOK, config, history
<1>17. CASE FinishUnload
  <2>1. listening' \in BOOLEAN
    BY <1>17, Zenon DEF FinishUnload
  <2> QED
    BY <1>17, <2>1 DEF FinishUnload, TypeOK, config, history
<1>18. CASE SetupEntry
  <2>1. listening' \in BOOLEAN
    BY <1>18, Zenon DEF SetupEntry
  <2> QED
    BY <1>18, <2>1, RegisteredType DEF SetupEntry, TypeOK, config
<1>19. CASE FinishSetup
  <2>1. busy' \in BOOLEAN
    BY <1>19, Zenon DEF FinishSetup
  <2> QED
    BY <1>19, <2>1 DEF FinishSetup, TypeOK, config, history
<1>20. CASE SkipSetup
  <2>1. busy' \in BOOLEAN
    BY <1>20, Zenon DEF SkipSetup
  <2> QED
    BY <1>20, <2>1 DEF SkipSetup, TypeOK, config, history
<1>21. CASE UNCHANGED vars
  BY <1>21 DEF vars, config, lifecycle, history, TypeOK
<1> QED
  BY <1>1, <1>2, <1>3, <1>4, <1>5, <1>6, <1>7, <1>8, <1>9, <1>10, <1>11, <1>12, <1>13,
     <1>14, <1>15, <1>16, <1>17, <1>18, <1>19, <1>20, <1>21
     DEF Next, ReloadStep, UserStep, FlowStep

(* TypeOK is an invariant of the hub.                                      *)
THEOREM TypeCorrect == Spec => []TypeOK
BY TypeInit, TypeNext, PTL DEF Spec

-----------------------------------------------------------------------------
(* The safety invariants.  Each part of HubInv is preserved by itself, on  *)
(* top of the types and, for InSync, of LifecycleOK.                       *)

LEMMA HubInit == Init => HubInv
<1> SUFFICES ASSUME Init PROVE HubInv
  OBVIOUS
<1> USE ConstantsAssumption DEF Init
<1>1. DOMAIN rooms = Foreign /\ DOMAIN devices = {} /\ RoomIds = {}
  BY DEF RoomIds
<1>2. LifecycleOK /\ ComesBack
  BY DEF LifecycleOK, ComesBack
<1>3. NoDanglingArea /\ OnlyRoomsHaveDevices /\ InSync /\ IdsGivenOut
  BY <1>1 DEF IdsGivenOut, NoDanglingArea, OnlyRoomsHaveDevices, InSync
<1>4. HeldAnswersHold
  BY DEF HeldAnswersHold, Waiting, Closed
<1> QED
  BY <1>2, <1>3, <1>4 DEF HubInv

(* The steps of the forms and the user leave these four alone.             *)
LEMMA LifecycleNext == LifecycleOK /\ [Next]_vars => LifecycleOK'
<1> SUFFICES ASSUME LifecycleOK, [Next]_vars PROVE LifecycleOK'
  OBVIOUS
<1> USE DEF LifecycleOK
<1>1. ASSUME NEW f \in Flow, FlowStep(f) PROVE LifecycleOK'
  <2>1. UNCHANGED <<state, busy, listening>>
    BY <1>1 DEF FlowStep, StartAdd, SubmitUser, StartReconfigure, SubmitReconfigure,
                CommitAdd, CommitReconfigure, Abandon, FireListeners, lifecycle
  <2> QED
    BY <2>1
<1>2. CASE UserStep
  BY <1>2 DEF UserStep, SubmitOptions, Rename, RemoveRoom, CreateArea, DeleteArea,
              MoveDevice, SetEnabled, FireListeners, lifecycle
<1>3. CASE ReloadStep
  BY <1>3 DEF ReloadStep, StartReload, FinishUnload, SetupEntry, FinishSetup, SkipSetup
<1>4. CASE Restart
  BY <1>4 DEF Restart
<1>5. CASE UNCHANGED vars
  BY <1>5 DEF vars, lifecycle
<1> QED
  BY <1>1, <1>2, <1>3, <1>4, <1>5 DEF Next

(* An enabled hub that is not set up holds the lock or has a reload to     *)
(* come: enabling it queues one, and set-up is skipped only when disabled. *)
LEMMA ComesBackNext == TypeOK /\ LifecycleOK /\ ComesBack /\ [Next]_vars => ComesBack'
<1> SUFFICES ASSUME TypeOK, LifecycleOK, ComesBack, [Next]_vars PROVE ComesBack'
  OBVIOUS
<1> USE DEF ComesBack
<1>t. tasks \in Nat
  BY ConstantsAssumption DEF TypeOK
<1>l. LifecycleOK
  OBVIOUS
<1>1. FireListeners => ComesBack'
  BY <1>t DEF FireListeners
<1>2. UNCHANGED lifecycle => ComesBack'
  BY DEF lifecycle
<1>3. ASSUME NEW f \in Flow, FlowStep(f) PROVE ComesBack'
  BY <1>1, <1>2, <1>3 DEF FlowStep, StartAdd, SubmitUser, StartReconfigure,
     SubmitReconfigure, CommitAdd, CommitReconfigure, Abandon
<1>4. CASE UserStep
  <2>1. ASSUME NEW b \in BOOLEAN, SetEnabled(b) PROVE ComesBack'
    BY <1>t, <2>1 DEF SetEnabled
  <2>2. ASSUME NEW o \in Option, SubmitOptions(o) PROVE ComesBack'
    BY <1>1, <2>2 DEF SubmitOptions
  <2>3. ASSUME NEW i \in Id, NEW n \in Name, Rename(i, n) PROVE ComesBack'
    BY <1>1, <2>3 DEF Rename
  <2>4. ASSUME NEW i \in Id, RemoveRoom(i) PROVE ComesBack'
    BY <1>1, <2>4 DEF RemoveRoom
  <2>5. ASSUME NEW a \in Area, CreateArea(a) \/ DeleteArea(a) PROVE ComesBack'
    BY <1>2, <2>5 DEF CreateArea, DeleteArea
  <2>6. ASSUME NEW i \in Id, NEW a \in MaybeArea, MoveDevice(i, a) PROVE ComesBack'
    BY <1>2, <2>6 DEF MoveDevice
  <2> QED
    BY <1>4, <2>1, <2>2, <2>3, <2>4, <2>5, <2>6 DEF UserStep
<1>5. CASE ReloadStep
  <2>1. CASE StartReload
    BY <2>1 DEF StartReload
  <2>2. CASE FinishUnload
    <3>1. busy
      BY <2>2, <1>l DEF FinishUnload, LifecycleOK
    <3> QED
      BY <2>2, <3>1 DEF FinishUnload
  <2>3. CASE SetupEntry
    BY <2>3 DEF SetupEntry
  <2>4. CASE FinishSetup
    BY <2>4 DEF FinishSetup
  <2>5. CASE SkipSetup
    BY <2>5 DEF SkipSetup
  <2> QED
    BY <1>5, <2>1, <2>2, <2>3, <2>4, <2>5 DEF ReloadStep
<1>6. CASE Restart
  BY <1>6 DEF Restart
<1>7. CASE UNCHANGED vars
  BY <1>7, <1>2 DEF vars, lifecycle
<1> QED
  BY <1>3, <1>4, <1>5, <1>6, <1>7 DEF Next

(* Only CommitAdd adds an id, and counts it as used in the same step.      *)
LEMMA IdsNext == IdsGivenOut /\ [Next]_vars => IdsGivenOut'
<1> SUFFICES ASSUME IdsGivenOut, [Next]_vars PROVE IdsGivenOut'
  OBVIOUS
<1> USE DEF IdsGivenOut
<1>1. ASSUME NEW f \in Flow, FlowStep(f) PROVE IdsGivenOut'
  BY <1>1 DEF FlowStep, StartAdd, SubmitUser, StartReconfigure, SubmitReconfigure,
              CommitAdd, CommitReconfigure, Abandon, config, Put
<1>2. CASE UserStep
  BY <1>2 DEF UserStep, SubmitOptions, Rename, RemoveRoom, CreateArea, DeleteArea,
              MoveDevice, SetEnabled, config, Drop
<1>3. CASE ReloadStep \/ Restart
  BY <1>3 DEF ReloadStep, StartReload, FinishUnload, SetupEntry, FinishSetup, SkipSetup,
              Restart, config
<1>4. CASE UNCHANGED vars
  BY <1>4 DEF vars, config
<1> QED
  BY <1>1, <1>2, <1>3, <1>4 DEF Next

(* Set-up files devices in areas that exist.                               *)
LEMMA DanglingNext == NoDanglingArea /\ [Next]_vars => NoDanglingArea'
<1> SUFFICES ASSUME NoDanglingArea, [Next]_vars PROVE NoDanglingArea'
  OBVIOUS
<1> USE DEF NoDanglingArea
<1>1. ASSUME NEW f \in Flow, FlowStep(f) PROVE NoDanglingArea'
  BY <1>1 DEF FlowStep, StartAdd, SubmitUser, StartReconfigure, SubmitReconfigure,
              CommitAdd, CommitReconfigure, Abandon
<1>2. CASE UserStep
  <2>1. ASSUME NEW o \in Option, SubmitOptions(o) PROVE NoDanglingArea'
    BY <2>1 DEF SubmitOptions
  <2>2. ASSUME NEW i \in Id, NEW n \in Name, Rename(i, n) PROVE NoDanglingArea'
    BY <2>2 DEF Rename
  <2>3. ASSUME NEW i \in Id, RemoveRoom(i) PROVE NoDanglingArea'
    BY <2>3 DEF RemoveRoom, Drop
  <2>4. ASSUME NEW a \in Area, CreateArea(a) PROVE NoDanglingArea'
    BY <2>4 DEF CreateArea
  <2>5. ASSUME NEW a \in Area, DeleteArea(a) PROVE NoDanglingArea'
    BY <2>5 DEF DeleteArea
  <2>6. ASSUME NEW i \in Id, NEW a \in MaybeArea, MoveDevice(i, a) PROVE NoDanglingArea'
    BY <2>6 DEF MoveDevice
  <2>7. ASSUME NEW b \in BOOLEAN, SetEnabled(b) PROVE NoDanglingArea'
    BY <2>7 DEF SetEnabled
  <2> QED
    BY <1>2, <2>1, <2>2, <2>3, <2>4, <2>5, <2>6, <2>7 DEF UserStep
<1>3. CASE SetupEntry
  BY <1>3 DEF SetupEntry, RegisteredDevices, FiledArea, LiveArea
<1>4. CASE StartReload \/ FinishUnload \/ FinishSetup \/ SkipSetup \/ Restart
  BY <1>4 DEF StartReload, FinishUnload, FinishSetup, SkipSetup, Restart
<1>5. CASE UNCHANGED vars
  BY <1>5 DEF vars
<1> QED
  BY <1>1, <1>2, <1>3, <1>4, <1>5 DEF Next, ReloadStep

(* Set-up gives devices to rooms alone, and a removed room's goes with it. *)
LEMMA OnlyRoomsNext == OnlyRoomsHaveDevices /\ [Next]_vars => OnlyRoomsHaveDevices'
<1> SUFFICES ASSUME OnlyRoomsHaveDevices, [Next]_vars PROVE OnlyRoomsHaveDevices'
  OBVIOUS
<1> USE DEF OnlyRoomsHaveDevices, RoomIds
<1>1. ASSUME NEW f \in Flow, FlowStep(f) PROVE OnlyRoomsHaveDevices'
  BY <1>1 DEF FlowStep, StartAdd, SubmitUser, StartReconfigure, SubmitReconfigure,
              CommitAdd, CommitReconfigure, Abandon, config, Put
<1>2. CASE UserStep
  BY <1>2 DEF UserStep, SubmitOptions, Rename, RemoveRoom, CreateArea, DeleteArea,
              MoveDevice, SetEnabled, config, Drop
<1>3. CASE SetupEntry
  BY <1>3 DEF SetupEntry, RegisteredDevices, config
<1>4. CASE StartReload \/ FinishUnload \/ FinishSetup \/ SkipSetup \/ Restart
  BY <1>4 DEF StartReload, FinishUnload, FinishSetup, SkipSetup, Restart, config
<1>5. CASE UNCHANGED vars
  BY <1>5 DEF vars, config
<1> QED
  BY <1>1, <1>2, <1>3, <1>4, <1>5 DEF Next, ReloadStep

(* Every change to the configuration of a listening hub leaves a reload    *)
(* waiting; a hub that does not listen has set-up still ahead of it.       *)
LEMMA FiredListeners ==
    ASSUME TypeOK, LifecycleOK, FireListeners
    PROVE  InSync'
<1>1. tasks' = 0 => state = "not_loaded"
  BY DEF TypeOK, LifecycleOK, FireListeners
<1> QED
  BY <1>1 DEF InSync, FireListeners

LEMMA InSyncNext == TypeOK /\ LifecycleOK /\ InSync /\ [Next]_vars => InSync'
<1> SUFFICES ASSUME TypeOK, LifecycleOK, InSync, [Next]_vars PROVE InSync'
  OBVIOUS
<1>f. CASE FireListeners
  BY <1>f, FiredListeners
<1>1. ASSUME NEW f \in Flow, FlowStep(f), ~FireListeners PROVE InSync'
  BY <1>1 DEF FlowStep, StartAdd, SubmitUser, StartReconfigure, SubmitReconfigure, Abandon,
              CommitAdd, CommitReconfigure, InSync, UpToDate, RoomIds, config, lifecycle, history
<1>2. ASSUME NEW a \in Area, CreateArea(a) PROVE InSync'
  BY <1>2 DEF CreateArea, InSync, UpToDate, RoomIds, config, lifecycle
<1>3. ASSUME NEW a \in Area, DeleteArea(a) PROVE InSync'
  BY <1>3 DEF DeleteArea, InSync, UpToDate, RoomIds, config, lifecycle
<1>4. ASSUME NEW i \in Id, NEW a \in MaybeArea, MoveDevice(i, a) PROVE InSync'
  BY <1>4 DEF MoveDevice, InSync, UpToDate, RoomIds, config, lifecycle
<1>5. ASSUME NEW b \in BOOLEAN, SetEnabled(b) PROVE InSync'
  BY <1>5 DEF SetEnabled, InSync, TypeOK
<1>6. CASE StartReload
  BY <1>6 DEF StartReload, InSync, LifecycleOK
<1>7. CASE FinishUnload \/ Restart
  BY <1>7 DEF FinishUnload, Restart, InSync
<1>8. CASE SetupEntry
  <2>1. \A i \in RoomIds : rooms[i].area \in Area \cup {NoArea}
    <3>1. \A i \in DOMAIN rooms : rooms[i] \in Subentry
      BY DictElim DEF TypeOK
    <3> QED
      BY <3>1 DEF RoomIds, Subentry
  <2>2. UpToDate'
    BY <1>8, <2>1, ConstantsAssumption
       DEF SetupEntry, UpToDate, RegisteredDevices, FiledArea, LiveArea, RoomIds, config, TypeOK
  <2> QED
    BY <2>2 DEF InSync
<1>9. CASE FinishSetup \/ SkipSetup
  BY <1>9 DEF FinishSetup, SkipSetup, InSync, UpToDate, RoomIds, config, history
<1>10. CASE UNCHANGED vars
  BY <1>10 DEF vars, InSync, UpToDate, RoomIds, config, lifecycle, history
<1>11. ASSUME UserStep, ~FireListeners PROVE InSync'
  BY <1>11, <1>2, <1>3, <1>4, <1>5 DEF UserStep, SubmitOptions, Rename, RemoveRoom
<1> QED
  BY <1>f, <1>1, <1>6, <1>7, <1>8, <1>9, <1>10, <1>11 DEF Next, ReloadStep

(* What a form holds outlives every step that does not mark it as raced.   *)
LEMMA HeldNext == TypeOK /\ HeldAnswersHold /\ [Next]_vars => HeldAnswersHold'
<1> SUFFICES ASSUME TypeOK, HeldAnswersHold, [Next]_vars PROVE HeldAnswersHold'
  OBVIOUS
<1> USE DEF HeldAnswersHold, Covered, Placeable, Waiting, NameTaken, UnknownArea, RoomIds
<1>c. Closed.step = "closed"
  BY DEF Closed
<1>1. ASSUME NEW f \in Flow, StartAdd(f) PROVE HeldAnswersHold'
  BY <1>1 DEF StartAdd, TypeOK, config, history
<1>2. ASSUME NEW f \in Flow, NEW n \in MaybeName, NEW a \in MaybeArea, SubmitUser(f, n, a)
      PROVE  HeldAnswersHold'
  BY <1>2 DEF SubmitUser, TypeOK, config
<1>3. ASSUME NEW f \in Flow, NEW i \in Id, StartReconfigure(f, i) PROVE HeldAnswersHold'
  BY <1>3 DEF StartReconfigure, Closed, TypeOK, config, history
<1>4. ASSUME NEW f \in Flow, NEW a \in MaybeArea, SubmitReconfigure(f, a) PROVE HeldAnswersHold'
  <2>1. flows' = [flows EXCEPT ![f] = [step |-> "inputs", room |-> flows[f].room,
                     name |-> rooms[flows[f].room].title, area |-> a]]
        /\ ~UnknownArea(a)
    BY <1>4 DEF SubmitReconfigure
  <2>r. flows[f].room \in Id
    BY <1>4, DictElim DEF SubmitReconfigure, TypeOK
  <2>2. flows'[f].room # NoRoom /\ flows'[f].area = a
    BY <2>1, <2>r, ConstantsAssumption DEF TypeOK
  <2>3. \A g \in Flow \ {f} : flows'[g] = flows[g]
    BY <2>1 DEF TypeOK
  <2> QED
    BY <1>4, <2>1, <2>2, <2>3 DEF SubmitReconfigure, config
<1>5. ASSUME NEW f \in Flow, NEW i \in Id, CommitAdd(f, i) PROVE HeldAnswersHold'
  <2>1. Waiting' \ raced' = {}
    BY <1>5, <1>c DEF CommitAdd, TypeOK
  <2> QED
    BY <2>1
<1>6. ASSUME NEW f \in Flow, CommitReconfigure(f) PROVE HeldAnswersHold'
  <2>1. RoomIds' = RoomIds /\ \A i \in RoomIds : rooms'[i].title = rooms[i].title
    BY <1>6 DEF CommitReconfigure, Edited, TypeOK
  <2>2. Waiting' \ raced' \subseteq Waiting \ raced
        /\ \A g \in Waiting' : flows'[g] = flows[g]
    BY <1>6, <1>c DEF CommitReconfigure, TypeOK
  <2>3. areas' = areas
    BY <1>6 DEF CommitReconfigure
  <2> QED
    BY <2>1, <2>2, <2>3
<1>7. ASSUME NEW f \in Flow, Abandon(f) PROVE HeldAnswersHold'
  BY <1>7, <1>c DEF Abandon, TypeOK, config
<1>8. ASSUME NEW o \in Option, SubmitOptions(o) PROVE HeldAnswersHold'
  BY <1>8 DEF SubmitOptions, history
<1>9. ASSUME NEW i \in Id, NEW n \in Name, Rename(i, n) PROVE HeldAnswersHold'
  BY <1>9 DEF Rename
<1>10. ASSUME NEW i \in Id, RemoveRoom(i) PROVE HeldAnswersHold'
  BY <1>10 DEF RemoveRoom, Drop
<1>11. ASSUME NEW a \in Area, CreateArea(a) PROVE HeldAnswersHold'
  BY <1>11 DEF CreateArea, config
<1>12. ASSUME NEW a \in Area, DeleteArea(a) PROVE HeldAnswersHold'
  BY <1>12 DEF DeleteArea
<1>13. ASSUME NEW i \in Id, NEW a \in MaybeArea, MoveDevice(i, a) PROVE HeldAnswersHold'
  BY <1>13 DEF MoveDevice, config
<1>14. ASSUME NEW b \in BOOLEAN, SetEnabled(b) PROVE HeldAnswersHold'
  BY <1>14 DEF SetEnabled, config, history
<1>15. CASE Restart
  BY <1>15, <1>c DEF Restart
<1>16. CASE ReloadStep
  BY <1>16 DEF ReloadStep, StartReload, FinishUnload, SetupEntry, FinishSetup, SkipSetup,
               config, history
<1>17. CASE UNCHANGED vars
  BY <1>17 DEF vars, config, history
<1> QED
  BY <1>1, <1>2, <1>3, <1>4, <1>5, <1>6, <1>7, <1>8, <1>9, <1>10, <1>11, <1>12, <1>13,
     <1>14, <1>15, <1>16, <1>17 DEF Next, UserStep, FlowStep

LEMMA HubNext == TypeOK /\ HubInv /\ [Next]_vars => HubInv'
BY LifecycleNext, ComesBackNext, IdsNext, DanglingNext, OnlyRoomsNext, InSyncNext, HeldNext DEF HubInv

(* The inductive invariant holds of every behaviour of the hub.            *)
THEOREM HubSafe == Spec => []HubInv
<1>1. Init => TypeOK /\ HubInv
  BY TypeInit, HubInit
<1>2. TypeOK /\ HubInv /\ [Next]_vars => (TypeOK /\ HubInv)'
  BY TypeNext, HubNext
<1> QED
  BY <1>1, <1>2, PTL DEF Spec

(* No device is ever filed in an area that does not exist.                 *)
THEOREM DevicesInLiveAreas == Spec => []NoDanglingArea
<1>1. HubInv => NoDanglingArea
  BY DEF HubInv
<1> QED
  BY <1>1, HubSafe, PTL

(* Only rooms that exist have devices.                                     *)
THEOREM DevicesOfRooms == Spec => []OnlyRoomsHaveDevices
<1>1. HubInv => OnlyRoomsHaveDevices
  BY DEF HubInv
<1> QED
  BY <1>1, HubSafe, PTL

(* A hub at rest has lost no update, whatever interleaving led to it.      *)
THEOREM NothingLost == Spec => []NoLostUpdate
<1>1. HubInv => NoLostUpdate
  BY DEF HubInv, NoLostUpdate, Settled, InSync
<1> QED
  BY <1>1, HubSafe, PTL

(* No enabled hub is left unloaded, or behind its configuration, with      *)
(* nothing on its way to change that.                                      *)
THEOREM QuietHubDone == Spec => []QuietIsDone
<1>1. TypeOK /\ HubInv => QuietIsDone
  BY DEF TypeOK, HubInv, LifecycleOK, ComesBack, InSync, QuietIsDone
<1> QED
  BY <1>1, TypeCorrect, HubSafe, PTL

-----------------------------------------------------------------------------
(* Progress of the reloads, as far as it can be said without ENABLED.      *)

\* How many steps the reload that holds the lock still needs, at most.
StepsLeft ==
    IF ~busy THEN 0
    ELSE CASE state = "unload_in_progress" -> 3
           [] state = "not_loaded" -> 2
           [] state = "setup_in_progress" -> 1
           [] state = "loaded" -> 0

\* A waiting reload needs one step more, to take the lock.
WorkLeft == 4 * tasks + StepsLeft

\* The guards of the five steps of a reload.
CanReload ==
    \/ tasks > 0 /\ ~busy
    \/ state = "unload_in_progress"
    \/ busy /\ state = "not_loaded" /\ enabled
    \/ state = "setup_in_progress"
    \/ busy /\ state = "not_loaded" /\ ~enabled

(* A step of the reload under way is worth less than a whole reload.      *)
LEMMA QuarterLess ==
    ASSUME NEW t \in Nat, NEW n \in Nat, n < 4
    PROVE  4 * t + 4 \in Nat /\ 4 * t + n \in Nat /\ 4 * t + n < 4 * t + 4
OBVIOUS

(* Reloads wind down: every step of one leaves less to do, so however many *)
(* changes are queued behind the lock, the event loop gets through them in *)
(* a bounded number of steps unless the user makes more                    *)
(* (_async_config_updated, async_setup_entry, async_unload_entry).         *)
THEOREM ReloadsWindDown ==
    Spec => [][ReloadStep => WorkLeft \in Nat /\ WorkLeft' \in Nat /\ WorkLeft' < WorkLeft]_vars
<1>1. TypeOK /\ TypeOK' /\ LifecycleOK /\ ReloadStep =>
         WorkLeft \in Nat /\ WorkLeft' \in Nat /\ WorkLeft' < WorkLeft
  <2> SUFFICES ASSUME TypeOK, TypeOK', LifecycleOK, ReloadStep
               PROVE  WorkLeft \in Nat /\ WorkLeft' \in Nat /\ WorkLeft' < WorkLeft
    OBVIOUS
  <2>t. tasks \in Nat /\ tasks' \in Nat
    BY ConstantsAssumption DEF TypeOK
  <2>s. state \in {"not_loaded", "setup_in_progress", "loaded", "unload_in_progress"}
    BY DEF TypeOK
  <2>1. CASE StartReload
    <3>1. /\ StepsLeft = 0 /\ tasks > 0 /\ tasks' = tasks - 1
      BY <2>1 DEF StartReload, StepsLeft
    <3>2. busy' /\ state' \in {"unload_in_progress", "not_loaded"}
      BY <2>1, <2>s DEF StartReload, LifecycleOK
    <3>3. StepsLeft' \in Nat /\ StepsLeft' < 4
      BY <3>2 DEF StepsLeft
    <3>4. tasks = tasks' + 1 /\ StepsLeft = 0
      BY <3>1, <2>t
    <3>5. WorkLeft = 4 * tasks' + 4 /\ WorkLeft' = 4 * tasks' + StepsLeft'
      BY <3>4, <2>t DEF WorkLeft
    <3> QED
      BY <3>3, <3>5, <2>t, QuarterLess
  <2>2. ASSUME NEW n \in Nat, StepsLeft = n + 1, StepsLeft' = n, UNCHANGED tasks
        PROVE  WorkLeft \in Nat /\ WorkLeft' \in Nat /\ WorkLeft' < WorkLeft
    BY <2>2, <2>t DEF WorkLeft
  <2>3. CASE FinishUnload
    <3>1. StepsLeft = 3 /\ StepsLeft' = 2 /\ UNCHANGED tasks
      BY <2>3 DEF FinishUnload, StepsLeft, LifecycleOK
    <3> QED
      BY <3>1, <2>2
  <2>4. CASE SetupEntry
    <3>1. StepsLeft = 2 /\ StepsLeft' = 1 /\ UNCHANGED tasks
      BY <2>4 DEF SetupEntry, StepsLeft
    <3> QED
      BY <3>1, <2>2
  <2>5. CASE FinishSetup
    <3>1. StepsLeft = 1 /\ StepsLeft' = 0 /\ UNCHANGED tasks
      BY <2>5 DEF FinishSetup, StepsLeft, LifecycleOK
    <3> QED
      BY <3>1, <2>2
  <2>6. CASE SkipSetup
    <3>1. StepsLeft = 2 /\ StepsLeft' = 0 /\ UNCHANGED tasks
      BY <2>6 DEF SkipSetup, StepsLeft
    <3> QED
      BY <3>1, <2>t DEF WorkLeft
  <2> QED
    BY <2>1, <2>3, <2>4, <2>5, <2>6 DEF ReloadStep
<1>2. HubInv => LifecycleOK
  BY DEF HubInv
<1> QED
  BY <1>1, <1>2, TypeCorrect, HubSafe, PTL DEF Spec

(* No reload is stuck behind another: while any work is left, one of a     *)
(* reload's steps has its guard, whoever holds the lock, and with none     *)
(* left the lock is free and no reload waits.                              *)
THEOREM ReloadsGoOn ==
    Spec => []((WorkLeft > 0 <=> CanReload) /\ (WorkLeft = 0 => ~busy /\ tasks = 0))
<1>1. TypeOK /\ HubInv =>
         /\ WorkLeft > 0 <=> CanReload
         /\ WorkLeft = 0 => ~busy /\ tasks = 0
  <2> SUFFICES ASSUME TypeOK, HubInv
               PROVE  /\ WorkLeft > 0 <=> CanReload
                      /\ WorkLeft = 0 => ~busy /\ tasks = 0
    OBVIOUS
  <2>1. /\ tasks \in Nat /\ busy \in BOOLEAN /\ enabled \in BOOLEAN
        /\ state \in {"not_loaded", "setup_in_progress", "loaded", "unload_in_progress"}
        /\ LifecycleOK
    BY ConstantsAssumption DEF TypeOK, HubInv
  <2>2. CASE busy
    <3>1. StepsLeft \in 1..3
      BY <2>1, <2>2 DEF StepsLeft, LifecycleOK
    <3> QED
      BY <2>1, <2>2, <3>1 DEF WorkLeft, CanReload, LifecycleOK
  <2>3. CASE ~busy
    BY <2>1, <2>3 DEF WorkLeft, StepsLeft, CanReload, LifecycleOK
  <2> QED
    BY <2>2, <2>3
<1> QED
  BY <1>1, TypeCorrect, HubSafe, PTL

(* The name and area a form holds stay good until somebody else's step     *)
(* spoils them.                                                            *)
THEOREM AnswersHold == Spec => []HeldAnswersHold
<1>1. HubInv => HeldAnswersHold
  BY DEF HubInv
<1> QED
  BY <1>1, HubSafe, PTL

-----------------------------------------------------------------------------
(* Action properties.                                                      *)

(* No step of a form changes the title of a room that exists.              *)
THEOREM TitlesKept == Spec => FormsKeepTitles
<1> DEFINE Kept == flows' # flows =>
                     \A i \in DOMAIN rooms \cap DOMAIN rooms' :
                         rooms'[i].title = rooms[i].title
<1>1. TypeOK /\ HubInv /\ [Next]_vars => [Kept]_vars
  <2> SUFFICES ASSUME TypeOK, HubInv, [Next]_vars PROVE Kept
    OBVIOUS
  <2>r. \A i \in DOMAIN rooms : rooms[i] \in Subentry
    BY DictElim DEF TypeOK
  <2>1. ASSUME NEW f \in Flow, CommitReconfigure(f) PROVE Kept
    BY <2>1, <2>r DEF CommitReconfigure, Edited, Subentry, RoomIds
  <2>2. ASSUME NEW f \in Flow, NEW i \in Id, CommitAdd(f, i) PROVE Kept
    <3>1. i \notin DOMAIN rooms
      BY <2>2 DEF CommitAdd, HubInv, IdsGivenOut
    <3> QED
      BY <2>2, <3>1 DEF CommitAdd, Put
  <2>3. ASSUME NEW f \in Flow, FlowStep(f) PROVE Kept
    BY <2>1, <2>2, <2>3 DEF FlowStep, StartAdd, SubmitUser, StartReconfigure,
                            SubmitReconfigure, Abandon, config
  <2>4. CASE ReloadStep \/ Restart
    BY <2>4 DEF ReloadStep, StartReload, FinishUnload, SetupEntry, FinishSetup, SkipSetup,
                Restart, config
  <2>5. CASE UserStep
    BY <2>5 DEF UserStep, SubmitOptions, Rename, RemoveRoom, CreateArea, DeleteArea,
                MoveDevice, SetEnabled
  <2>6. CASE UNCHANGED vars
    BY <2>6 DEF vars
  <2> QED
    BY <2>3, <2>4, <2>5, <2>6 DEF Next
<1> QED
  BY <1>1, TypeCorrect, HubSafe, PTL DEF Spec, FormsKeepTitles

(* Set-up never takes a device out of a place its room gives no reason to. *)
THEOREM PlacementKept == Spec => SetupKeepsPlacement
<1> DEFINE Kept == \A i \in DOMAIN devices \cap DOMAIN devices' :
                      devices'[i].area # devices[i].area =>
                          \/ devices'[i].area = rooms[i].area
                          \/ devices[i].area \notin areas'
                          \/ i \in displaced'
<1>1. TypeOK /\ [Next]_vars => [Kept]_vars
  <2> SUFFICES ASSUME TypeOK, [Next]_vars PROVE Kept
    OBVIOUS
  <2>1. ASSUME NEW f \in Flow, FlowStep(f) PROVE Kept
    BY <2>1 DEF FlowStep, StartAdd, SubmitUser, StartReconfigure, SubmitReconfigure,
                CommitAdd, CommitReconfigure, Abandon
  <2>2. CASE UserStep
    <3>1. ASSUME NEW i \in Id, RemoveRoom(i) PROVE Kept
      BY <3>1 DEF RemoveRoom, Drop
    <3>2. ASSUME NEW a \in Area, DeleteArea(a) PROVE Kept
      BY <3>2 DEF DeleteArea
    <3>3. ASSUME NEW i \in Id, NEW a \in MaybeArea, MoveDevice(i, a) PROVE Kept
      BY <3>3 DEF MoveDevice
    <3>4. CASE UNCHANGED devices
      BY <3>4
    <3> QED
      BY <2>2, <3>1, <3>2, <3>3, <3>4
         DEF UserStep, SubmitOptions, Rename, CreateArea, SetEnabled
  <2>3. CASE SetupEntry
    BY <2>3 DEF SetupEntry, RegisteredDevices, FiledArea, LiveArea
  <2>4. CASE StartReload \/ FinishUnload \/ FinishSetup \/ SkipSetup \/ Restart
    BY <2>4 DEF StartReload, FinishUnload, FinishSetup, SkipSetup, Restart
  <2>5. CASE UNCHANGED vars
    BY <2>5 DEF vars
  <2> QED
    BY <2>1, <2>2, <2>3, <2>4, <2>5 DEF Next, ReloadStep
<1> QED
  BY <1>1, TypeCorrect, PTL DEF Spec, SetupKeepsPlacement

-----------------------------------------------------------------------------
(* Refinement: the hub's steps are those of RoomMirror, or stutters.       *)

Titles == [i \in RoomIds |-> rooms[i].title]
Shown == [i \in DOMAIN devices |-> devices[i].name]

LEMMA TitlesType == TypeOK => Titles \in Mirror!Names
<1> SUFFICES ASSUME TypeOK PROVE Titles \in Mirror!Names
  OBVIOUS
<1>1. DOMAIN rooms \subseteq Id /\ \A i \in DOMAIN rooms : rooms[i] \in Subentry
  BY DictElim DEF TypeOK
<1>2. RoomIds \in SUBSET (Id \ Foreign) /\ Titles \in [RoomIds -> Name]
  BY <1>1 DEF Titles, RoomIds, Subentry
<1> QED
  BY <1>2 DEF Mirror!Names

(* A step that notifies the listeners leaves the hub away from rest.       *)
LEMMA NotSettled ==
    ASSUME TypeOK, LifecycleOK, FireListeners
    PROVE  ~Settled' /\ enabled' = enabled
BY DEF TypeOK, LifecycleOK, FireListeners, Settled

(* Whatever the configuration becomes, a step that notifies the listeners  *)
(* and keeps the devices of the rooms that stay is an Edit.                *)
LEMMA EditStep ==
    ASSUME TypeOK, LifecycleOK, TypeOK', FireListeners,
           Shown' = [i \in DOMAIN Shown \cap DOMAIN Titles' |-> Shown[i]]
    PROVE  Mirror!Edit
<1>1. Titles' \in Mirror!Names
  <2>1. TypeOK' => (Titles \in Mirror!Names)'
    BY TitlesType, PTL
  <2> QED
    BY <2>1 DEF Mirror!Names
<1> QED
  BY <1>1, NotSettled DEF Mirror!Edit, Titles, Shown

LEMMA MirrorInit == Init => Mirror!Init
<1> SUFFICES ASSUME Init PROVE Mirror!Init
  OBVIOUS
<1>1. DOMAIN rooms = Foreign /\ DOMAIN devices = {}
  BY DEF Init
<1>2. ~Settled /\ enabled = TRUE
  BY DEF Init, Settled
<1> QED
  BY <1>1, <1>2 DEF Mirror!Init, RoomIds

LEMMA MirrorNext ==
    TypeOK /\ TypeOK' /\ HubInv /\ [Next]_vars => [Mirror!Next]_(Mirror!vars)
<1> SUFFICES ASSUME TypeOK, TypeOK', HubInv, [Next]_vars
             PROVE  [Mirror!Next]_(Mirror!vars)
  OBVIOUS
<1>h. LifecycleOK /\ OnlyRoomsHaveDevices /\ InSync
  BY DEF HubInv
<1> DEFINE Stutter == /\ Titles' = Titles /\ Shown' = Shown
                      /\ Settled' = Settled /\ enabled' = enabled
           Disturbed == /\ Titles' = Titles /\ Shown' = Shown
                        /\ ~Settled' /\ enabled' \in BOOLEAN
<1>s. Stutter => UNCHANGED Mirror!vars
  BY DEF Mirror!vars, Titles, Shown
<1>d. Disturbed => Mirror!Disturb
  BY DEF Mirror!Disturb, Titles, Shown
<1>b. enabled \in BOOLEAN /\ enabled' \in BOOLEAN
  BY DEF TypeOK
<1>1. ASSUME NEW f \in Flow, FlowStep(f) PROVE Mirror!Edit \/ Stutter
  <2>1. CASE ~FireListeners
    BY <1>1, <2>1 DEF FlowStep, StartAdd, SubmitUser, StartReconfigure, SubmitReconfigure,
       Abandon, CommitAdd, CommitReconfigure, config, lifecycle, Titles, RoomIds, Shown, Settled
  <2>2. CASE FireListeners
    <3>1. UNCHANGED devices /\ DOMAIN rooms \subseteq DOMAIN rooms'
      BY <1>1 DEF FlowStep, StartAdd, SubmitUser, StartReconfigure, SubmitReconfigure,
         Abandon, CommitAdd, CommitReconfigure, config, Put
    <3>2. DOMAIN Shown \subseteq DOMAIN Titles' /\ Shown' = Shown
      BY <1>h, <3>1 DEF OnlyRoomsHaveDevices, RoomIds, Shown, Titles
    <3>3. Shown' = [i \in DOMAIN Shown \cap DOMAIN Titles' |-> Shown[i]]
      BY <3>2 DEF Shown
    <3> QED
      BY <1>h, <2>2, <3>3, EditStep
  <2> QED
    BY <2>1, <2>2
<1>2. CASE UserStep
  <2>1. ASSUME NEW i \in Id, RemoveRoom(i) PROVE Mirror!Edit
    <3>1. DOMAIN rooms' = DOMAIN rooms \ {i} /\ DOMAIN devices' = DOMAIN devices \ {i}
          /\ FireListeners
      BY <2>1 DEF RemoveRoom, Drop
    <3>2. DOMAIN Shown \cap DOMAIN Titles' = DOMAIN devices'
      BY <1>h, <3>1 DEF OnlyRoomsHaveDevices, RoomIds, Shown, Titles
    <3>3. Shown' = [j \in DOMAIN Shown \cap DOMAIN Titles' |-> Shown[j]]
      BY <2>1, <3>1, <3>2 DEF RemoveRoom, Drop, Shown
    <3> QED
      BY <1>h, <3>1, <3>3, EditStep
  <2>2. ASSUME NEW o \in Option, SubmitOptions(o) PROVE Disturbed
    BY <2>2, <1>h, <1>b, NotSettled DEF SubmitOptions, Titles, RoomIds, Shown
  <2>3. ASSUME NEW i \in Id, NEW n \in Name, Rename(i, n) PROVE Mirror!Edit
    <3>1. DOMAIN rooms' = DOMAIN rooms /\ devices' = devices /\ FireListeners
      BY <2>3 DEF Rename
    <3>2. DOMAIN Shown \subseteq DOMAIN Titles' /\ Shown' = Shown
      BY <1>h, <3>1 DEF OnlyRoomsHaveDevices, RoomIds, Shown, Titles
    <3>3. Shown' = [j \in DOMAIN Shown \cap DOMAIN Titles' |-> Shown[j]]
      BY <3>2 DEF Shown
    <3> QED
      BY <1>h, <3>1, <3>3, EditStep
  <2>4. ASSUME NEW a \in Area, CreateArea(a) PROVE Stutter
    BY <2>4 DEF CreateArea, config, lifecycle, Titles, RoomIds, Shown, Settled
  <2>5. ASSUME NEW a \in Area, DeleteArea(a) PROVE Stutter
    BY <2>5 DEF DeleteArea, config, lifecycle, Titles, RoomIds, Shown, Settled
  <2>6. ASSUME NEW i \in Id, NEW a \in MaybeArea, MoveDevice(i, a) PROVE Stutter
    BY <2>6 DEF MoveDevice, config, lifecycle, Titles, RoomIds, Shown, Settled
  <2>7. ASSUME NEW b \in BOOLEAN, SetEnabled(b) PROVE Disturbed
    <3>1. tasks' # 0
      BY <2>7 DEF SetEnabled, TypeOK
    <3> QED
      BY <2>7, <1>b, <3>1 DEF SetEnabled, config, Titles, RoomIds, Shown, Settled
  <2> QED
    BY <1>2, <1>s, <1>d, <2>1, <2>2, <2>3, <2>4, <2>5, <2>6, <2>7
       DEF UserStep, Mirror!Next
<1>3. CASE SetupEntry
  <2>1. enabled /\ UNCHANGED enabled /\ ~Settled /\ ~Settled' /\ Titles' = Titles
    BY <1>3 DEF SetupEntry, Settled, Titles, RoomIds, config
  <2>2. Shown' = Titles
    <3>1. DOMAIN devices' = RoomIds
      BY <1>3, <1>h DEF SetupEntry, RegisteredDevices, OnlyRoomsHaveDevices
    <3>2. \A i \in RoomIds : devices'[i].name = rooms[i].title
      BY <1>3 DEF SetupEntry, RegisteredDevices
    <3> QED
      BY <3>1, <3>2 DEF Shown, Titles
  <2>3. Mirror!Sync
    BY <2>1, <2>2 DEF Mirror!Sync, Titles, Shown
  <2> QED
    BY <2>3 DEF Mirror!Next
<1>4. CASE FinishSetup
  <2>1. Titles' = Titles /\ Shown' = Shown /\ enabled' = enabled /\ ~Settled
    BY <1>4 DEF FinishSetup, config, Titles, RoomIds, Shown, Settled
  <2>2. CASE Settled'
    <3>1. UpToDate /\ DOMAIN devices = RoomIds
      BY <1>4, <1>h, <2>2 DEF FinishSetup, Settled, InSync, UpToDate, OnlyRoomsHaveDevices
    <3>2. Shown = Titles
      BY <3>1 DEF Shown, Titles, UpToDate
    <3>3. Mirror!Rest
      BY <2>1, <2>2, <3>2 DEF Mirror!Rest, Titles, Shown
    <3> QED
      BY <3>3 DEF Mirror!Next
  <2>3. CASE ~Settled'
    BY <2>1, <2>3, <1>s DEF Settled
  <2> QED
    BY <2>2, <2>3
<1>5. CASE StartReload \/ FinishUnload \/ Restart
  <2>1. Titles' = Titles /\ Shown' = Shown /\ enabled' = enabled /\ ~Settled'
    BY <1>5 DEF StartReload, FinishUnload, Restart, config, Titles, RoomIds, Shown, Settled
  <2> QED
    BY <2>1, <1>b, <1>d DEF Mirror!Next
<1>6. CASE SkipSetup \/ UNCHANGED vars
  BY <1>6, <1>s DEF SkipSetup, vars, config, lifecycle, Titles, RoomIds, Shown, Settled
<1> QED
  BY <1>1, <1>2, <1>3, <1>4, <1>5, <1>6, <1>s DEF Next, ReloadStep, Mirror!Next

(* The hub implements the safety of RoomMirror: devices lag behind their   *)
(* rooms only while the hub is not at rest, and catch up all at once.      *)
THEOREM HubMirrors == Spec => Mirror!Safety
<1>1. Init => Mirror!Init
  BY MirrorInit
<1>2. TypeOK /\ TypeOK' /\ HubInv /\ [Next]_vars => [Mirror!Next]_(Mirror!vars)
  BY MirrorNext
<1> QED
  BY <1>1, <1>2, TypeCorrect, HubSafe, PTL DEF Spec, Mirror!Safety

=============================================================================
