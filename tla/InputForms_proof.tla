-------------------------- MODULE InputForms_proof --------------------------
(***************************************************************************)
(* Proofs about InputForms: types, that what users take out stays out, and *)
(* that a room is offered what its area has.                               *)
(***************************************************************************)
EXTENDS InputForms, FiniteSetTheorems, TLAPS

-----------------------------------------------------------------------------
(* Fields.                                                                 *)

\* A form's answers over what it showed are fields again.
LEMMA OverlayIsFields ==
    ASSUME NEW edit, NEW shown, NEW keys,
           Fields(edit, keys, Entity \cup {Blank}), Fields(shown, keys, Entity)
    PROVE  Fields(Over(edit, shown), keys, Entity \cup {Blank})
BY DEF Fields, Over

\* What is stored of a form is clean.
LEMMA CleanedIsClean ==
    ASSUME NEW form, NEW keys, Fields(form, keys, Entity \cup {Blank})
    PROVE  Clean(clean_inputs(form, keys), keys)
BY DEF Clean, Fields, clean_inputs

\* What an area proposes are entities, for inputs of a room.
LEMMA ProposalsAreFields ==
    ASSUME NEW area
    PROVE  Fields(suggest_room_inputs(area), RoomInputs, Entity)
<1>1. \A k : \A find \in Candidates(area, k) : find[1] \in Entity
  BY DEF Candidates, _area_entities
<1> DEFINE offers == DOMAIN suggest_room_inputs(area)
<1>2. /\ offers \subseteq RoomInputs
      /\ suggest_room_inputs(area) =
            [k \in offers |-> {find[1] : find \in Candidates(area, k)}]
  BY DEF suggest_room_inputs
<1> HIDE DEF offers
<1> QED
  BY <1>1, <1>2 DEF Fields

LEMMA NoInputsAreFields ==
    ASSUME NEW keys
    PROVE  Clean(NoInputs, keys)
BY DEF Clean, Fields, NoInputs

-----------------------------------------------------------------------------
(* Type correctness.                                                       *)

RoomOK(room) ==
    /\ room.area \in MaybeArea /\ room.asked \in BOOLEAN
    /\ Clean(room.inputs, RoomInputs)

LEMMA TypeInit == Init => TypeOK
<1> SUFFICES ASSUME Init PROVE TypeOK
  OBVIOUS
<1>1. IsForm(Closed)
  BY NoInputsAreFields, FormsAssumption DEF IsForm, Closed, Clean, MaybeArea
<1>2. \A f \in Form : IsForm(forms[f])
  BY <1>1 DEF Init
<1>3. DOMAIN rooms \subseteq Room /\ \A r \in DOMAIN rooms : RoomOK(rooms[r])
  BY NoInputsAreFields DEF Init, RoomOK
<1> QED
  BY <1>2, <1>3, NoInputsAreFields, FormsAssumption DEF Init, TypeOK, RoomOK

\* A form that opens shows fields.
LEMMA OpenType ==
    ASSUME TypeOK, NEW f \in Form, NEW owner \in Room \cup {NewRoom, Hub},
           NEW area \in MaybeArea, NEW shown, Open(f, owner, area, shown),
           Fields(shown, IF owner = Hub THEN SharedInputs ELSE RoomInputs, Entity)
    PROVE  TypeOK'
<1>1. IsForm([owner |-> owner, area |-> area, shown |-> shown])
  BY DEF IsForm
<1>2. DOMAIN forms' = Form /\ \A g \in Form : IsForm(forms'[g])
  BY <1>1 DEF Open, TypeOK
<1> QED
  BY <1>2 DEF Open, TypeOK, registries

\* Storing leaves the forms forms.
LEMMA StoredType ==
    ASSUME TypeOK, NEW f \in Form, NEW owner, NEW kept, Stored(f, owner, kept)
    PROVE  /\ DOMAIN forms' = Form /\ \A g \in Form : IsForm(forms'[g])
           /\ overtaken' \subseteq Form
           /\ submits' \in 0 .. MaxSubmits
           /\ UNCHANGED <<registries, hub>>
<1>1. IsForm(Closed)
  BY NoInputsAreFields, FormsAssumption DEF IsForm, Closed, Clean, MaybeArea
<1>2. submits' \in 0 .. MaxSubmits
  BY FormsAssumption DEF Stored, TypeOK
<1> QED
  BY <1>1, <1>2 DEF Stored, TypeOK

LEMMA TypeNext == TypeOK /\ [Next]_vars => TypeOK'
<1> SUFFICES ASSUME TypeOK, [Next]_vars PROVE TypeOK'
  OBVIOUS
<1> USE FormsAssumption
<1>1. ASSUME NEW f \in Form, NEW area \in MaybeArea, OpenAdd(f, area) PROVE TypeOK'
  BY <1>1, OpenType, ProposalsAreFields DEF OpenAdd
<1>2. ASSUME NEW f \in Form, NEW r \in Room, NEW area \in MaybeArea, OpenEdit(f, r, area)
      PROVE TypeOK'
  <2>1. Fields(_suggested_inputs(r, area), RoomInputs, Entity)
    BY <1>2, ProposalsAreFields DEF OpenEdit, _suggested_inputs, TypeOK, Clean
  <2> QED
    BY <1>2, <2>1, OpenType DEF OpenEdit
<1>3. ASSUME NEW f \in Form, OpenOptions(f) PROVE TypeOK'
  <2>1. Fields(shared, SharedInputs, Entity) /\ NoArea \in MaybeArea
    BY DEF TypeOK, Clean, MaybeArea
  <2> QED
    BY <1>3, <2>1, OpenType DEF OpenOptions
<1>4. ASSUME NEW f \in Form, NEW r \in Room, NEW edit \in RoomEdits, SubmitAdd(f, r, edit)
      PROVE TypeOK'
  <2> DEFINE kept == clean_inputs(Over(edit, forms[f].shown), RoomInputs)
  <2>1. IsForm(forms[f]) /\ forms[f].owner = NewRoom /\ Stored(f, r, kept)
    BY <1>4 DEF TypeOK, SubmitAdd
  <2>2. Clean(kept, RoomInputs)
    BY <2>1, OverlayIsFields, CleanedIsClean DEF IsForm
  <2>3. RoomOK([area |-> forms[f].area, asked |-> TRUE, inputs |-> kept])
    BY <2>1, <2>2 DEF IsForm, RoomOK
  <2>4. DOMAIN rooms' \subseteq Room /\ \A i \in DOMAIN rooms' : RoomOK(rooms'[i])
    BY <1>4, <2>3 DEF SubmitAdd, Over, TypeOK, RoomOK
  <2> QED
    BY <1>4, <2>1, <2>4, StoredType DEF SubmitAdd, TypeOK, RoomOK, registries
<1>5. ASSUME NEW f \in Form, NEW edit \in RoomEdits, SubmitEdit(f, edit) PROVE TypeOK'
  <2> DEFINE kept == clean_inputs(Over(edit, forms[f].shown), RoomInputs)
  <2>1. IsForm(forms[f]) /\ forms[f].owner \in Room /\ Stored(f, forms[f].owner, kept)
    BY <1>5 DEF TypeOK, SubmitEdit
  <2>2. Clean(kept, RoomInputs)
    BY <2>1, OverlayIsFields, CleanedIsClean DEF IsForm
  <2>3. RoomOK([area |-> forms[f].area, asked |-> TRUE, inputs |-> kept])
    BY <2>1, <2>2 DEF IsForm, RoomOK
  <2>4. DOMAIN rooms' \subseteq Room /\ \A i \in DOMAIN rooms' : RoomOK(rooms'[i])
    BY <1>5, <2>3 DEF SubmitEdit, TypeOK, RoomOK
  <2> QED
    BY <1>5, <2>1, <2>4, StoredType DEF SubmitEdit, TypeOK, RoomOK, registries
<1>6. ASSUME NEW f \in Form, NEW edit \in SharedEdits, SubmitOptions(f, edit) PROVE TypeOK'
  <2> DEFINE kept == clean_inputs(Over(edit, forms[f].shown), SharedInputs)
  <2>1. IsForm(forms[f]) /\ forms[f].owner = Hub /\ Stored(f, Hub, kept)
    BY <1>6 DEF TypeOK, SubmitOptions
  <2>2. Clean(kept, SharedInputs)
    BY <2>1, OverlayIsFields, CleanedIsClean DEF IsForm
  <2> QED
    BY <1>6, <2>1, <2>2, StoredType DEF SubmitOptions, TypeOK, registries
<1>7. ASSUME NEW f \in Form, Abandon(f) PROVE TypeOK'
  <2>1. IsForm(Closed)
    BY NoInputsAreFields DEF IsForm, Closed, Clean, MaybeArea
  <2> QED
    BY <1>7, <2>1 DEF Abandon, TypeOK, registries
<1>8. ASSUME NEW edit \in SharedEdits, CreateHub(edit) PROVE TypeOK'
  <2>1. Clean(clean_inputs(edit, SharedInputs), SharedInputs)
    BY CleanedIsClean
  <2> QED
    BY <1>8, <2>1 DEF CreateHub, TypeOK, registries
<1>9. ASSUME NEW r \in Room, RemoveRoom(r) PROVE TypeOK'
  BY <1>9 DEF RemoveRoom, TypeOK, registries
<1>10. ASSUME NEW e \in Entity, NEW entry \in Entries[e], UpdateEntity(e, entry) PROVE TypeOK'
  BY <1>10 DEF UpdateEntity, Move, TypeOK
<1>11. ASSUME NEW d \in Device, NEW area \in MaybeArea, MoveDevice(d, area) PROVE TypeOK'
  BY <1>11 DEF MoveDevice, Move, TypeOK
<1>12. CASE UNCHANGED vars
  BY <1>12 DEF vars, registries, TypeOK
<1> QED
  BY <1>1, <1>2, <1>3, <1>4, <1>5, <1>6, <1>7, <1>8, <1>9, <1>10, <1>11, <1>12
     DEF Next, FormStep

(* TypeOK is an invariant: whatever forms are submitted over each other,   *)
(* what is stored names entities, and no field is stored empty.            *)
THEOREM TypeCorrect == Spec => []TypeOK
BY TypeInit, TypeNext, PTL DEF Spec

-----------------------------------------------------------------------------
(* What was taken out stays out.                                           *)

LEMMA InvInit == Init => FormInv
BY FormsAssumption DEF Init, FormInv, ClearedStaysOut, ShowsWhatIsStored, Owners, Asked,
   StoredBy, Pairs, NoInputs, Closed

\* An owner's answers are stored: the invariant survives.
LEMMA StoredInv ==
    ASSUME TypeOK, FormInv, NEW f \in Form, NEW owner, NEW kept,
           Stored(f, owner, kept),
           owner # Nobody, owner # NewRoom,
           forms[f].owner = owner \/ (forms[f].owner = NewRoom /\ ~Asked(owner)),
           \A g \in Form : forms[g].owner = owner /\ ~Asked(owner) => forms[f].owner = owner,
           Asked(owner)', StoredBy(owner)' = kept, Owners' = Owners \cup {owner},
           \A o : o # owner =>
              (Asked(o)' <=> Asked(o)) /\ (Asked(o) => StoredBy(o)' = StoredBy(o))
    PROVE  FormInv'
<1> DEFINE before == Pairs(forms[f].shown)
           after == Pairs(kept)
<1>1. ShowsWhatIsStored'
  <2> SUFFICES ASSUME NEW g \in Form, NEW o, o = forms'[g].owner, g \notin overtaken', Asked(o)'
               PROVE  forms'[g].shown = StoredBy(o)'
    BY DEF ShowsWhatIsStored, Asked, StoredBy
  <2>1. CASE g = f
    <3>1. forms'[g].owner = Nobody /\ Nobody # Hub
      BY <2>1, FormsAssumption DEF Stored, TypeOK, Closed
    <3>2. Nobody \notin Room /\ DOMAIN rooms \subseteq Room
      BY FormsAssumption DEF TypeOK
    <3> QED
      BY <3>1, <3>2 DEF Asked
  <2>2. CASE g # f
    <3>1. forms'[g] = forms[g]
      BY <2>2 DEF Stored, TypeOK
    <3>2. forms[g].owner # owner /\ g \notin overtaken
      BY <2>2 DEF Stored
    <3> QED
      BY <3>1, <3>2 DEF FormInv, ShowsWhatIsStored
  <2> QED
    BY <2>1, <2>2
<1>2. ClearedStaysOut'
  <2> SUFFICES ASSUME NEW o \in Owners', Asked(o)', NEW p \in Pairs(StoredBy(o)'),
                      <<o, p>> \in cleared'
               PROVE  FALSE
    BY DEF ClearedStaysOut
  <2>1. CASE o # owner
    <3>1. o \in Owners /\ Asked(o) /\ StoredBy(o)' = StoredBy(o)
      BY <2>1
    <3>2. <<o, p>> \in cleared
      BY <2>1 DEF Stored
    <3> QED
      BY <3>1, <3>2 DEF FormInv, ClearedStaysOut
  <2>2. CASE o = owner
    <3>1. p \in after
      BY <2>2
    <3>2. /\ <<owner, p>> \in cleared
          /\ p \notin (IF f \in overtaken THEN after ELSE after \ before)
      BY <2>2, <3>1 DEF Stored
    <3>3. f \notin overtaken /\ p \in before
      BY <3>1, <3>2
    <3>4. Asked(owner)
      BY <3>2 DEF FormInv
    <3>5. forms[f].owner = owner /\ forms[f].shown = StoredBy(owner) /\ owner \in Owners
      BY <3>3, <3>4 DEF FormInv, ShowsWhatIsStored, Asked, Owners
    <3> QED
      BY <3>2, <3>3, <3>4, <3>5 DEF FormInv, ClearedStaysOut
  <2> QED
    BY <2>1, <2>2
<1>3. \A c \in cleared' : Asked(c[1])'
  <2> SUFFICES ASSUME NEW c \in cleared' PROVE Asked(c[1])'
    OBVIOUS
  <2>1. c \in cleared \/ c[1] = owner
    BY DEF Stored
  <2> QED
    BY <2>1 DEF FormInv
<1>4. ASSUME NEW g \in Form, forms'[g].owner = Hub PROVE hub'
  BY <1>4, FormsAssumption DEF Stored, FormInv, TypeOK, Closed
<1> QED
  BY <1>1, <1>2, <1>3, <1>4 DEF FormInv

\* A form opens on what is stored, if its owner has been asked.
LEMMA OpenInv ==
    ASSUME TypeOK, FormInv, NEW f \in Form, NEW owner, NEW area, NEW shown,
           Open(f, owner, area, shown),
           Asked(owner) => shown = StoredBy(owner), owner = Hub => hub
    PROVE  FormInv'
<1>1. /\ UNCHANGED <<rooms, hub, shared, cleared>>
      /\ \A o : (Asked(o)' <=> Asked(o)) /\ StoredBy(o)' = StoredBy(o)
      /\ Owners' = Owners
  BY DEF Open, Asked, StoredBy, Owners
<1>2. ShowsWhatIsStored'
  <2> SUFFICES ASSUME NEW g \in Form, NEW o, o = forms'[g].owner, g \notin overtaken', Asked(o)'
               PROVE  forms'[g].shown = StoredBy(o)'
    BY DEF ShowsWhatIsStored, Asked, StoredBy
  <2>1. CASE g = f
    <3>1. forms'[g] = [owner |-> owner, area |-> area, shown |-> shown]
      BY <2>1 DEF Open, TypeOK
    <3> QED
      BY <3>1, <1>1
  <2>2. CASE g # f
    <3>1. forms'[g] = forms[g] /\ g \notin overtaken
      BY <2>2 DEF Open, TypeOK
    <3> QED
      BY <3>1, <1>1 DEF FormInv, ShowsWhatIsStored
  <2> QED
    BY <2>1, <2>2
<1>3. ClearedStaysOut' /\ \A c \in cleared' : Asked(c[1])'
  BY <1>1 DEF FormInv, ClearedStaysOut
<1>4. ASSUME NEW g \in Form, forms'[g].owner = Hub PROVE hub'
  BY <1>1, <1>4 DEF Open, FormInv, TypeOK
<1> QED
  BY <1>2, <1>3, <1>4 DEF FormInv

\* A form that closes, or a registry that changes, disturbs nothing.
LEMMA CalmInv ==
    ASSUME TypeOK, FormInv, UNCHANGED <<rooms, hub, shared, cleared>>,
           \A g \in Form : \/ forms'[g] = Closed
                           \/ forms'[g] = forms[g] /\ (g \in overtaken => g \in overtaken')
    PROVE  FormInv'
<1>1. /\ \A o : (Asked(o)' <=> Asked(o)) /\ StoredBy(o)' = StoredBy(o)
      /\ Owners' = Owners
  BY DEF Asked, StoredBy, Owners
<1>2. ~Asked(Closed.owner) /\ Closed.owner # Hub
  BY FormsAssumption DEF Closed, Asked, TypeOK
<1> QED
  BY <1>1, <1>2 DEF FormInv, ClearedStaysOut, ShowsWhatIsStored

LEMMA InvNext == TypeOK /\ FormInv /\ [Next]_vars => FormInv'
<1> SUFFICES ASSUME TypeOK, FormInv, [Next]_vars PROVE FormInv'
  OBVIOUS
<1> USE FormsAssumption
<1>0. DOMAIN rooms \subseteq Room
  BY DEF TypeOK
<1>1. ASSUME NEW f \in Form, NEW area \in MaybeArea, OpenAdd(f, area) PROVE FormInv'
  <2>1. ~Asked(NewRoom)
    BY <1>0 DEF Asked
  <2> QED
    BY <1>1, <2>1, OpenInv DEF OpenAdd
<1>2. ASSUME NEW f \in Form, NEW r \in Room, NEW area \in MaybeArea, OpenEdit(f, r, area)
      PROVE FormInv'
  <2>1. r # Hub /\ (Asked(r) => _suggested_inputs(r, area) = StoredBy(r))
    BY DEF Asked, StoredBy, _suggested_inputs
  <2> QED
    BY <1>2, <2>1, OpenInv DEF OpenEdit
<1>3. ASSUME NEW f \in Form, OpenOptions(f) PROVE FormInv'
  <2>1. StoredBy(Hub) = shared /\ hub
    BY <1>3 DEF StoredBy, OpenOptions
  <2> QED
    BY <1>3, <2>1, OpenInv DEF OpenOptions
<1>4. ASSUME NEW f \in Form, NEW r \in Room, NEW edit \in RoomEdits, SubmitAdd(f, r, edit)
      PROVE FormInv'
  <2> DEFINE kept == clean_inputs(Over(edit, forms[f].shown), RoomInputs)
  <2>1. /\ Stored(f, r, kept) /\ hub' = hub /\ shared' = shared
        /\ forms[f].owner = NewRoom /\ r \notin DOMAIN rooms
        /\ \A g \in Form : forms[g].owner # r
    BY <1>4 DEF SubmitAdd, Stored
  <2>2. /\ DOMAIN rooms' = DOMAIN rooms \cup {r}
        /\ rooms'[r] = [area |-> forms[f].area, asked |-> TRUE, inputs |-> kept]
        /\ \A i \in DOMAIN rooms : rooms'[i] = rooms[i]
    BY <1>4, <2>1 DEF SubmitAdd, Over
  <2>3. r # Hub /\ r # Nobody /\ r # NewRoom /\ ~Asked(r)
    BY <2>1 DEF Asked
  <2>4. Asked(r)' /\ StoredBy(r)' = kept /\ Owners' = Owners \cup {r}
    BY <2>2, <2>3 DEF Asked, StoredBy, Owners
  <2>5. ASSUME NEW o, o # r
        PROVE  (Asked(o)' <=> Asked(o)) /\ (Asked(o) => StoredBy(o)' = StoredBy(o))
    BY <2>1, <2>2, <2>5 DEF Asked, StoredBy
  <2> HIDE DEF kept
  <2> QED
    BY <2>1, <2>3, <2>4, <2>5, StoredInv
<1>5. ASSUME NEW f \in Form, NEW edit \in RoomEdits, SubmitEdit(f, edit) PROVE FormInv'
  <2> DEFINE kept == clean_inputs(Over(edit, forms[f].shown), RoomInputs)
  <2>1. PICK r \in DOMAIN rooms : r = forms[f].owner
    BY <1>5 DEF SubmitEdit
  <2>2. Stored(f, r, kept) /\ hub' = hub /\ shared' = shared
    BY <1>5, <2>1 DEF SubmitEdit, Stored
  <2>3. /\ DOMAIN rooms' = DOMAIN rooms
        /\ rooms'[r] = [area |-> forms[f].area, asked |-> TRUE, inputs |-> kept]
        /\ \A i \in DOMAIN rooms \ {r} : rooms'[i] = rooms[i]
    BY <1>5, <2>1 DEF SubmitEdit
  <2>4. r # Hub /\ r # Nobody /\ r # NewRoom
    BY <1>0
  <2> HIDE DEF kept
  <2>5. Asked(r)' /\ StoredBy(r)' = kept /\ Owners' = Owners \cup {r}
    BY <2>3, <2>4 DEF Asked, StoredBy, Owners
  <2>6. ASSUME NEW o, o # r
        PROVE  (Asked(o)' <=> Asked(o)) /\ (Asked(o) => StoredBy(o)' = StoredBy(o))
    BY <2>2, <2>3, <2>6 DEF Asked, StoredBy
  <2> QED
    BY <2>1, <2>2, <2>4, <2>5, <2>6, StoredInv
<1>6. ASSUME NEW f \in Form, NEW edit \in SharedEdits, SubmitOptions(f, edit) PROVE FormInv'
  <2> DEFINE kept == clean_inputs(Over(edit, forms[f].shown), SharedInputs)
  <2>1. /\ Stored(f, Hub, kept) /\ hub' = hub /\ shared' = kept /\ rooms' = rooms
        /\ forms[f].owner = Hub /\ hub
    BY <1>6 DEF SubmitOptions, Stored, FormInv
  <2> HIDE DEF kept
  <2>2. Asked(Hub)' /\ StoredBy(Hub)' = kept /\ Owners' = Owners \cup {Hub}
    BY <2>1 DEF Asked, StoredBy, Owners
  <2>3. ASSUME NEW o, o # Hub PROVE (Asked(o)' <=> Asked(o)) /\ StoredBy(o)' = StoredBy(o)
    BY <2>1, <2>3 DEF Asked, StoredBy
  <2> QED
    BY <2>1, <2>2, <2>3, StoredInv
<1>7. ASSUME NEW f \in Form, Abandon(f) PROVE FormInv'
  BY <1>7, CalmInv DEF Abandon, TypeOK
<1>8. ASSUME NEW edit \in SharedEdits, CreateHub(edit) PROVE FormInv'
  <2>1. ~hub /\ hub' /\ UNCHANGED <<rooms, forms, overtaken, cleared>>
    BY <1>8 DEF CreateHub
  <2>2. ASSUME NEW o, o # Hub PROVE (Asked(o)' <=> Asked(o)) /\ StoredBy(o)' = StoredBy(o)
    BY <2>1, <2>2 DEF Asked, StoredBy
  <2>3. ~Asked(Hub) /\ Asked(Hub)' /\ Owners' = Owners
    BY <2>1 DEF Asked, Owners
  <2>4. \A g \in Form : forms[g].owner # Hub
    BY <2>1 DEF FormInv
  <2>5. ShowsWhatIsStored'
    BY <2>1, <2>2, <2>4 DEF FormInv, ShowsWhatIsStored
  <2>6. \A c \in cleared : c[1] # Hub /\ Asked(c[1])'
    BY <2>2, <2>3 DEF FormInv
  <2>7. ClearedStaysOut'
    <3> SUFFICES ASSUME NEW o \in Owners', Asked(o)', NEW p \in Pairs(StoredBy(o)'),
                        <<o, p>> \in cleared
                 PROVE  FALSE
      BY <2>1 DEF ClearedStaysOut
    <3>1. o # Hub
      BY <2>6
    <3> QED
      BY <2>2, <2>3, <3>1 DEF FormInv, ClearedStaysOut
  <2> QED
    BY <2>1, <2>4, <2>5, <2>6, <2>7 DEF FormInv
<1>9. ASSUME NEW r \in Room, RemoveRoom(r) PROVE FormInv'
  <2>1. /\ r # Hub /\ UNCHANGED <<hub, shared, forms, overtaken>>
        /\ DOMAIN rooms' = DOMAIN rooms \ {r} /\ \A i \in DOMAIN rooms' : rooms'[i] = rooms[i]
        /\ cleared' = {c \in cleared : c[1] # r}
    BY <1>9 DEF RemoveRoom
  <2>2. ~Asked(r)' /\ Owners' = Owners \ {r}
    BY <2>1 DEF Asked, Owners
  <2>3. ASSUME NEW o, o # r
        PROVE  (Asked(o)' <=> Asked(o)) /\ (Asked(o) => StoredBy(o)' = StoredBy(o))
    BY <2>1, <2>3 DEF Asked, StoredBy
  <2>4. ShowsWhatIsStored'
    BY <2>1, <2>2, <2>3 DEF FormInv, ShowsWhatIsStored
  <2>5. ClearedStaysOut' /\ \A c \in cleared' : Asked(c[1])'
    BY <2>1, <2>2, <2>3 DEF FormInv, ClearedStaysOut
  <2> QED
    BY <2>1, <2>4, <2>5 DEF FormInv
<1>10. ASSUME NEW e \in Entity, NEW entry \in Entries[e], UpdateEntity(e, entry) PROVE FormInv'
  BY <1>10, CalmInv DEF UpdateEntity
<1>11. ASSUME NEW d \in Device, NEW area \in MaybeArea, MoveDevice(d, area) PROVE FormInv'
  BY <1>11, CalmInv DEF MoveDevice
<1>12. CASE UNCHANGED vars
  BY <1>12, CalmInv DEF vars, registries
<1> QED
  BY <1>1, <1>2, <1>3, <1>4, <1>5, <1>6, <1>7, <1>8, <1>9, <1>10, <1>11, <1>12
     DEF Next, FormStep

(* The inductive invariant, in every reachable state.                      *)
THEOREM FormsSafe == Spec => []FormInv
BY InvInit, InvNext, TypeCorrect, PTL DEF Spec

(* What users take out of a room or the hub stays out, until they pick it  *)
(* again or submit a form that was open before.                            *)
THEOREM RemovalsTakeEffect == Spec => []ClearedStaysOut
<1>1. FormInv => ClearedStaysOut
  BY DEF FormInv
<1> QED
  BY <1>1, FormsSafe, PTL

(* A form nothing was stored behind shows what is stored.                  *)
THEOREM NotReoffered == Spec => []ShowsWhatIsStored
<1>1. FormInv => ShowsWhatIsStored
  BY DEF FormInv
<1> QED
  BY <1>1, FormsSafe, PTL

\* A form that shows what is stored keeps every field outside the edit.
LEMMA UntouchedIsKept ==
    ASSUME NEW edit, NEW shown, NEW keys,
           Fields(edit, keys, Entity \cup {Blank}), Clean(shown, keys)
    PROVE  ChangedOnly(edit, keys, shown, clean_inputs(Over(edit, shown), keys))
<1> DEFINE form == Over(edit, shown)
<1> SUFFICES ASSUME NEW k \in keys, k \notin DOMAIN edit
             PROVE  In(clean_inputs(form, keys), k) = In(shown, k)
  BY DEF ChangedOnly
<1>1. (k \in DOMAIN form <=> k \in DOMAIN shown) /\ (k \in DOMAIN shown => form[k] = shown[k])
  BY DEF Over
<1>2. k \in DOMAIN shown => shown[k] # {} /\ shown[k] \ {Blank} = shown[k]
  BY FormsAssumption DEF Clean, Fields
<1> HIDE DEF form
<1> QED
  BY <1>1, <1>2 DEF clean_inputs, In

(* And submitting it stores every field its user did not touch as it was.  *)
THEOREM OnlyWhatChanged == Spec => LeftAloneStays
<1> DEFINE Kept(f, owner) ==
        /\ \A edit \in RoomEdits : SubmitEdit(f, edit) =>
              ChangedOnly(edit, RoomInputs, StoredBy(owner), StoredBy(owner)')
        /\ \A edit \in SharedEdits : SubmitOptions(f, edit) =>
              ChangedOnly(edit, SharedInputs, StoredBy(owner), StoredBy(owner)')
<1>1. ASSUME TypeOK, ShowsWhatIsStored, NEW f \in Form \ overtaken, NEW owner \in Owners,
             Asked(owner), forms[f].owner = owner
      PROVE  Kept(f, owner)
  <2>1. forms[f].shown = StoredBy(owner)
    BY <1>1 DEF ShowsWhatIsStored
  <2>2. ASSUME NEW edit \in RoomEdits, SubmitEdit(f, edit)
        PROVE  ChangedOnly(edit, RoomInputs, StoredBy(owner), StoredBy(owner)')
    <3>1. owner \in DOMAIN rooms /\ owner # Hub
      BY <1>1, <2>2, FormsAssumption DEF SubmitEdit, TypeOK
    <3>2. StoredBy(owner)' = clean_inputs(Over(edit, forms[f].shown), RoomInputs)
      BY <1>1, <2>2, <3>1 DEF SubmitEdit, StoredBy
    <3>3. Clean(StoredBy(owner), RoomInputs)
      BY <1>1, <3>1 DEF TypeOK, StoredBy
    <3> QED
      BY <2>1, <3>2, <3>3, UntouchedIsKept, FormsAssumption
  <2>3. ASSUME NEW edit \in SharedEdits, SubmitOptions(f, edit)
        PROVE  ChangedOnly(edit, SharedInputs, StoredBy(owner), StoredBy(owner)')
    <3>1. owner = Hub
      BY <1>1, <2>3 DEF SubmitOptions
    <3>2. StoredBy(owner)' = clean_inputs(Over(edit, forms[f].shown), SharedInputs)
      BY <2>3, <3>1 DEF SubmitOptions, StoredBy
    <3>3. Clean(StoredBy(owner), SharedInputs)
      BY <1>1, <3>1 DEF TypeOK, StoredBy
    <3> QED
      BY <2>1, <3>2, <3>3, UntouchedIsKept, FormsAssumption
  <2> QED
    BY <2>2, <2>3
<1> HIDE DEF Kept
<1>2. TypeOK /\ ShowsWhatIsStored /\ [Next]_vars =>
         [\A f \in Form \ overtaken, owner \in Owners :
             Asked(owner) /\ forms[f].owner = owner => Kept(f, owner)]_vars
  BY <1>1
<1> USE DEF Kept
<1> QED
  BY <1>2, NotReoffered, TypeCorrect, PTL DEF Spec, LeftAloneStays

-----------------------------------------------------------------------------
(* What an area offers.                                                    *)

\* How an entity that is in an area is found there.
Way(area, e) == IF entries[e].area = area THEN "own" ELSE "device"

\* Every entity that fits is found, and found once.
LEMMA FoundOnce ==
    ASSUME NEW area, NEW k
    PROVE  Candidates(area, k) = {<<e, Way(area, e)>> : e \in Fits(area, k)}
<1>1. CASE area = NoArea
  BY <1>1 DEF Candidates, Fits
<1>2. CASE area # NoArea
  <2> DEFINE fits(e) == entries[e].status = "shown" /\ matches(k, domain[e], ClassOf(e))
  <2>1. Candidates(area, k) =
           {find \in _area_entities(area) : matches(k, domain[find[1]], ClassOf(find[1]))}
    BY <1>2 DEF Candidates
  <2>2. ASSUME NEW e, NEW way
        PROVE  <<e, way>> \in _area_entities(area) <=>
                  /\ e \in Entity /\ entries[e].status = "shown"
                  /\ Whereabouts(e) = area /\ way = Way(area, e)
    BY <1>2 DEF _area_entities, Whereabouts, Way
  <2>3. \A find \in _area_entities(area) : find = <<find[1], find[2]>>
    BY DEF _area_entities
  <2>4. ASSUME NEW e PROVE e \in Fits(area, k) <=>
                  /\ e \in Entity /\ entries[e].status = "shown" /\ Whereabouts(e) = area
                  /\ matches(k, domain[e], ClassOf(e))
    BY <1>2 DEF Fits
  <2> QED
    BY <2>1, <2>2, <2>3, <2>4
<1> QED
  BY <1>1, <1>2

LEMMA OneCandidate ==
    ASSUME NEW area, NEW k
    PROVE  /\ Candidates(area, k) = {} <=> Fits(area, k) = {}
           /\ Cardinality(Candidates(area, k)) = 1 <=> Cardinality(Fits(area, k)) = 1
           /\ {find[1] : find \in Candidates(area, k)} = Fits(area, k)
<1> DEFINE found == Candidates(area, k)
           fits == Fits(area, k)
<1>1. found = {<<e, Way(area, e)>> : e \in fits}
  BY FoundOnce
<1>2. IsFiniteSet(Entity) /\ IsFiniteSet({"own", "device"})
  <2>1. IsFiniteSet({"own"} \cup {"device"})
    BY FS_Singleton, FS_AddElement
  <2>2. {"own"} \cup {"device"} = {"own", "device"}
    OBVIOUS
  <2> QED
    BY <2>1, <2>2, FormsAssumption
<1>3. IsFiniteSet(found)
  <2>1. found \in SUBSET (Entity \X {"own", "device"})
    BY DEF Candidates, _area_entities
  <2>2. IsFiniteSet(Entity \X {"own", "device"})
    BY <1>2, FS_Product
  <2> HIDE DEF found
  <2> QED
    BY <2>1, <2>2, FS_Subset
<1>4. IsFiniteSet(fits)
  <2>1. fits \in SUBSET Entity
    BY DEF Fits
  <2> HIDE DEF fits
  <2> QED
    BY <1>2, <2>1, FS_Subset
<1> HIDE DEF found, fits
<1>5. (\E x : found = {x}) <=> \E e : fits = {e}
  <2>1. ASSUME NEW x, found = {x} PROVE \E e : fits = {e}
    <3>1. PICK e \in fits : x = <<e, Way(area, e)>>
      BY <1>1, <2>1
    <3>2. \A d \in fits : <<d, Way(area, d)>> = x
      BY <1>1, <2>1
    <3> QED
      BY <3>1, <3>2
  <2>2. ASSUME NEW e, fits = {e} PROVE found = {<<e, Way(area, e)>>}
    BY <1>1, <2>2
  <2> QED
    BY <2>1, <2>2
<1>6. Cardinality(found) = 1 <=> Cardinality(fits) = 1
  BY <1>3, <1>4, <1>5, FS_Singleton
<1>7. found = {} <=> fits = {}
  BY <1>1
<1>8. {find[1] : find \in found} = fits
  <2>1. \A find \in found : find[1] \in fits
    BY <1>1
  <2>2. \A e \in fits : <<e, Way(area, e)>> \in found /\ <<e, Way(area, e)>>[1] = e
    BY <1>1
  <2> QED
    BY <2>1, <2>2
<1> QED
  BY <1>6, <1>7, <1>8 DEF found, fits

\* What an area proposes is what it has.
LEMMA ProposesWhatFits ==
    ASSUME NEW area, NEW k \in RoomInputs
    PROVE  In(suggest_room_inputs(area), k) =
              IF Cardinality(Fits(area, k)) = 1 \/ (k \in MultipleInputs /\ Fits(area, k) # {})
              THEN Fits(area, k) ELSE {}
<1> DEFINE fits == Fits(area, k)
           offers == suggest_room_inputs(area)
<1>1. Cardinality(fits) = 1 => fits # {}
  BY FS_EmptySet
<1>2. k \in DOMAIN offers <=>
         IF k \in MultipleInputs THEN fits # {} ELSE Cardinality(fits) = 1
  BY OneCandidate DEF suggest_room_inputs
<1>3. k \in DOMAIN offers => offers[k] = fits
  BY OneCandidate DEF suggest_room_inputs
<1> HIDE DEF fits, offers
<1> QED
  BY <1>1, <1>2, <1>3 DEF In, fits, offers

(* A room that was never asked is offered what is in its area and of the   *)
(* right kind, an entity that is there by its own area and through its     *)
(* device counting once (suggest_room_inputs, _area_entities).             *)
THEOREM OffersWhatIsThere == Spec => OffersWhatTheAreaHas
<1>1. TypeOK /\ [Next]_vars => [\A f \in Form : OpensOnWhatFits(f)]_vars
  <2> SUFFICES ASSUME TypeOK, Next, NEW f \in Form, forms[f] = Closed,
                      forms'[f].owner \in Room \cup {NewRoom}, ~Asked(forms'[f].owner)
               PROVE  \E area :
                         forms'[f].area = area /\ forms'[f].shown = suggest_room_inputs(area)
    BY ProposesWhatFits DEF OpensOnWhatFits
  <2>1. forms'[f] # Closed /\ DOMAIN forms = Form
    BY FormsAssumption DEF Closed, TypeOK
  <2>2. ASSUME NEW g \in Form, NEW owner, NEW area, NEW shown, Open(g, owner, area, shown)
        PROVE  forms'[f] = [owner |-> owner, area |-> area, shown |-> shown]
    BY <2>1, <2>2 DEF Open
  <2>3. ASSUME NEW g \in Form, NEW area \in MaybeArea, OpenAdd(g, area)
        PROVE  forms'[f].area = area /\ forms'[f].shown = suggest_room_inputs(area)
    <3>1. forms'[f] = [owner |-> NewRoom, area |-> area, shown |-> suggest_room_inputs(area)]
      BY <2>2, <2>3 DEF OpenAdd
    <3> QED
      BY <3>1
  <2>4. ASSUME NEW g \in Form, NEW r \in Room, NEW area \in MaybeArea, OpenEdit(g, r, area)
        PROVE  forms'[f].area = area /\ forms'[f].shown = suggest_room_inputs(area)
    <3>1. forms'[f] = [owner |-> r, area |-> area, shown |-> _suggested_inputs(r, area)]
      BY <2>2, <2>4 DEF OpenEdit
    <3>2. ~rooms[r].asked
      BY <2>4, <3>1, FormsAssumption DEF OpenEdit, Asked
    <3> QED
      BY <3>1, <3>2 DEF _suggested_inputs
  <2>5. ASSUME NEW g \in Form, OpenOptions(g) PROVE FALSE
    <3>1. forms'[f] = [owner |-> Hub, area |-> NoArea, shown |-> shared]
      BY <2>2, <2>5 DEF OpenOptions
    <3> QED
      BY <3>1, FormsAssumption
  <2>6. ASSUME NEW g \in Form, NEW owner, NEW kept, Stored(g, owner, kept) PROVE FALSE
    BY <2>1, <2>6 DEF Stored
  <2>7. ASSUME NEW g \in Form, Abandon(g) PROVE FALSE
    BY <2>1, <2>7 DEF Abandon
  <2>8. forms' # forms
    BY <2>1
  <2> QED
    BY <2>3, <2>4, <2>5, <2>6, <2>7, <2>8
       DEF Next, FormStep, SubmitAdd, SubmitEdit, SubmitOptions, CreateHub, RemoveRoom,
           UpdateEntity, MoveDevice
<1> QED
  BY <1>1, TypeCorrect, PTL DEF Spec, OffersWhatTheAreaHas

=============================================================================
