-------------------------- MODULE RoomAdvice_proof --------------------------
(***************************************************************************)
(* What a room's advice is, for any house, whatever is configured and      *)
(* whatever is reported, from the facts about one evaluation.              *)
(***************************************************************************)
EXTENDS RoomAdvice, RoomSnapshot_proof

LEMMA Bounds == MaxChanges \in Nat /\ MaxTime \in Nat
BY AdviceAssumption

LEMMA Forms ==
    /\ \A form \in SharedForms : IsForm(form, SharedInputs)
    /\ \A form \in RoomForms : IsForm(form, RoomInputs)
BY AdviceAssumption

-----------------------------------------------------------------------------
(* The invariant: what is reported and stored is, for the house as it is   *)
(* and for the house that was evaluated, something to read and something   *)
(* to read it from, and the evaluation is that of the house evaluated.     *)

IsHouse(said, ofHouse, ofRoom) ==
    /\ \A e \in Entity : said[e] \in Reports[e] \cup {Unseen}
    /\ IsStored(ofHouse, SharedInputs) /\ IsStored(ofRoom, RoomInputs)

\* The evaluation is one of the house evaluated, at some time and with some
\* memory of the room.
IsOfHouse ==
    \E s \in Nat \cup {None}, t \in Nat :
        evaluation = Evaluation(evaluated.states, evaluated.shared, evaluated.room, s, t)

HouseInv ==
    /\ DOMAIN states = Entity
    /\ IsHouse(states, shared, room)
    /\ IsHouse(evaluated.states, evaluated.shared, evaluated.room)
    /\ changes \in 0 .. MaxChanges
    /\ now \in 0 .. MaxTime /\ since \in 0 .. now \cup {None}
    /\ IsOfHouse

\* A form comes out of clean_inputs as something that can be stored.
LEMMA CleanIsStored ==
    ASSUME NEW keys, NEW form, IsForm(form, keys)
    PROVE  IsStored(clean_inputs(form, keys), keys)
<1> DEFINE stored == clean_inputs(form, keys)
<1>1. /\ DOMAIN stored = {k \in keys \cap DOMAIN form : _unique(form[k]) # <<>>}
      /\ \A k \in DOMAIN stored : stored[k] = _unique(form[k])
  BY DEF clean_inputs
<1>2. ASSUME NEW k \in DOMAIN stored
      PROVE  /\ stored[k] \in Seq(Entity) /\ IsInjective(stored[k]) /\ stored[k] # <<>>
             /\ k \notin MultipleInputs => Len(stored[k]) = 1
  <2>1. k \in DOMAIN form /\ stored[k] = _unique(form[k]) /\ stored[k] # <<>>
    BY <1>1
  <2>2. form[k] \in Seq(Entity \cup {Blank})
    BY <2>1 DEF IsForm
  <2> HIDE DEF stored
  <2>3. /\ stored[k] \in Seq(Entity) /\ IsInjective(stored[k])
        /\ Len(stored[k]) =< Len(form[k])
    BY <2>1, <2>2, Unique
  <2>4. Len(stored[k]) \in Nat /\ Len(stored[k]) # 0 /\ Len(form[k]) \in Nat
    BY <2>1, <2>2, <2>3, LenProperties, EmptySeq
  <2>5. k \notin MultipleInputs => Len(form[k]) =< 1
    BY <2>1 DEF IsForm
  <2>6. k \notin MultipleInputs => Len(stored[k]) = 1
    <3>1. Len(stored[k]) =< Len(form[k])
      BY <2>3
    <3>2. \A m, n \in Nat : m # 0 /\ m =< n /\ n =< 1 => m = 1
      OBVIOUS
    <3> QED
      BY <2>4, <2>5, <3>1, <3>2
  <2> QED
    BY <2>1, <2>3, <2>6
<1> QED
  BY <1>1, <1>2 DEF IsStored

LEMMA HouseCanBeRead ==
    ASSUME NEW said, NEW ofHouse, NEW ofRoom, IsHouse(said, ofHouse, ofRoom)
    PROVE  Reported(said) /\ HoldsEntities(ofHouse) /\ HoldsEntities(ofRoom)
<1>1. ASSUME NEW e \in Entity PROVE IsDark(said[e]) \/ IsStateOf(said[e], e)
  <2>1. said[e] \in Reports[e] \/ said[e] = Unseen
    BY DEF IsHouse
  <2>2. said[e] \in Reports[e] => IsStateOf(said[e], e)
    BY AdviceAssumption DEF IsStateOf
  <2>3. IsDark(Unseen)
    BY DEF IsDark, Unseen, Texts
  <2> QED
    BY <2>1, <2>2, <2>3
<1> QED
  BY <1>1 DEF IsHouse, Reported, HoldsEntities, IsStored

\* The memory of the room is of a moment that has been.
LEMMA MemoryIsPast ==
    ASSUME NEW said, NEW ofHouse, NEW ofRoom, NEW t \in Nat, NEW s \in 0 .. t \cup {None}
    PROVE  Snapshot(said, ofHouse, ofRoom, s, t).since \in 0 .. t \cup {None}
BY Placeholders DEF Snapshot, derive_observations, Memory, Since

\* What the rules and the guards make of a snapshot.
Outcomes(snapshot) == [rule \in Rules |-> evaluate_rule(rule, snapshot)]
Permits(snapshot) == guards_permit_opening({guard(snapshot, k) : k \in Guards})

LEMMA Evaluated ==
    ASSUME NEW said, NEW ofHouse, NEW ofRoom, IsHouse(said, ofHouse, ofRoom),
           NEW s \in Nat \cup {None}, NEW t \in Nat
    PROVE  LET answer == Evaluation(said, ofHouse, ofRoom, s, t)
               snapshot == Snapshot(said, ofHouse, ofRoom, s, t)
           IN  /\ answer.raised = FALSE /\ answer.snapshot = snapshot
               /\ answer.outcomes = Outcomes(snapshot) /\ answer.permits = Permits(snapshot)
<1> DEFINE answer == Evaluation(said, ofHouse, ofRoom, s, t)
           snapshot == Snapshot(said, ofHouse, ofRoom, s, t)
<1>1. Reported(said) /\ HoldsEntities(ofHouse) /\ HoldsEntities(ofRoom)
  BY HouseCanBeRead
<1>2. answer = [raised |-> FALSE, snapshot |-> snapshot,
                outcomes |-> Outcomes(snapshot), permits |-> Permits(snapshot)]
  BY <1>1, EvaluationAnswers DEF Outcomes, Permits
<1> HIDE DEF answer, snapshot
<1> QED
  BY <1>2 DEF answer, snapshot

-----------------------------------------------------------------------------
LEMMA HouseInit == Init => HouseInv
<1> SUFFICES ASSUME Init PROVE HouseInv
  OBVIOUS
<1> USE DEF Init
<1>1. DOMAIN states = Entity /\ \A e \in Entity : states[e] = Unseen
  OBVIOUS
<1>2. IsStored(shared, SharedInputs) /\ IsStored(room, RoomInputs)
  BY DEF IsStored, NoInputs
<1>3. /\ evaluated.states = states /\ evaluated.shared = shared /\ evaluated.room = room
  OBVIOUS
<1>4. IsHouse(states, shared, room)
  BY <1>1, <1>2 DEF IsHouse
<1>5. changes \in 0 .. MaxChanges /\ now \in 0 .. MaxTime /\ since \in 0 .. now \cup {None}
  BY Bounds
<1>6. evaluation = Evaluation(evaluated.states, evaluated.shared, evaluated.room, since, now)
  BY <1>3
<1>7. IsOfHouse
  BY <1>6 DEF IsOfHouse
<1> QED
  BY <1>1, <1>3, <1>4, <1>5, <1>7 DEF HouseInv

\* What evaluating makes of the house.
LEMMA EvaluateStep ==
    ASSUME HouseInv, Evaluate
    PROVE  /\ evaluated'.states = states /\ evaluated'.shared = shared /\ evaluated'.room = room
           /\ evaluation' = Evaluation(evaluated'.states, evaluated'.shared, evaluated'.room,
                                       since, now)
           /\ evaluation'.snapshot = Snapshot(states, shared, room, since, now)
           /\ evaluation'.outcomes = Outcomes(evaluation'.snapshot)
           /\ evaluation'.permits = Permits(evaluation'.snapshot)
           /\ since' = evaluation'.snapshot.since
           /\ since \in Nat \cup {None} /\ now \in Nat
<1>1. /\ evaluated'.states = states /\ evaluated'.shared = shared /\ evaluated'.room = room
  BY DEF Evaluate
<1>2. evaluation' = Evaluation(states, shared, room, since, now)
  BY DEF Evaluate
<1>3. since \in Nat \cup {None} /\ now \in Nat
  BY DEF HouseInv
<1>4. /\ evaluation'.raised = FALSE
      /\ evaluation'.snapshot = Snapshot(states, shared, room, since, now)
      /\ evaluation'.outcomes = Outcomes(evaluation'.snapshot)
      /\ evaluation'.permits = Permits(evaluation'.snapshot)
  <2>1. IsHouse(states, shared, room)
    BY DEF HouseInv
  <2> DEFINE answer == Evaluation(states, shared, room, since, now)
             snapshot == Snapshot(states, shared, room, since, now)
  <2>2. /\ answer.raised = FALSE /\ answer.snapshot = snapshot
        /\ answer.outcomes = Outcomes(snapshot) /\ answer.permits = Permits(snapshot)
    BY <1>3, <2>1, Evaluated
  <2> QED
    BY <1>2, <2>2
<1>5. since' = IF evaluation'.raised THEN since ELSE evaluation'.snapshot.since
  BY DEF Evaluate
<1> QED
  BY <1>1, <1>2, <1>3, <1>4, <1>5

LEMMA HouseStep == HouseInv /\ [Next]_vars => HouseInv'
<1> SUFFICES ASSUME HouseInv, [Next]_vars PROVE HouseInv'
  OBVIOUS
<1>1. ASSUME NEW e \in Entity, NEW s \in Reports[e], Report(e, s) PROVE HouseInv'
  <2>1. states' = [states EXCEPT ![e] = s] /\ DOMAIN states = Entity
    BY <1>1 DEF Report, HouseInv
  <2>2. DOMAIN states' = Entity
        /\ \A x \in Entity : states'[x] = IF x = e THEN s ELSE states[x]
    BY <2>1
  <2>3. /\ UNCHANGED <<shared, room, now, since, evaluated, evaluation>>
        /\ changes' \in 0 .. MaxChanges
    BY <1>1, Bounds DEF Report, Change, results, HouseInv
  <2>4. IsHouse(states', shared', room')
    BY <2>2, <2>3 DEF HouseInv, IsHouse
  <2> QED
    BY <2>2, <2>3, <2>4 DEF HouseInv, IsOfHouse
<1>2. ASSUME NEW form \in SharedForms, SubmitShared(form) PROVE HouseInv'
  <2>1. IsStored(shared', SharedInputs)
    BY <1>2, CleanIsStored, Forms DEF SubmitShared
  <2>2. /\ UNCHANGED <<states, room, now, since, evaluated, evaluation>>
        /\ changes' \in 0 .. MaxChanges
    BY <1>2, Bounds DEF SubmitShared, Change, results, HouseInv
  <2> QED
    BY <2>1, <2>2 DEF HouseInv, IsHouse, IsOfHouse
<1>3. ASSUME NEW form \in RoomForms, SubmitRoom(form) PROVE HouseInv'
  <2>1. IsStored(room', RoomInputs)
    BY <1>3, CleanIsStored, Forms DEF SubmitRoom
  <2>2. /\ UNCHANGED <<states, shared, now, since, evaluated, evaluation>>
        /\ changes' \in 0 .. MaxChanges
    BY <1>3, Bounds DEF SubmitRoom, Change, results, HouseInv
  <2> QED
    BY <2>1, <2>2 DEF HouseInv, IsHouse, IsOfHouse
<1>4. CASE Tick
  <2>1. /\ UNCHANGED <<states, shared, room, since, evaluated, evaluation, changes>>
        /\ now' = now + 1 /\ now' \in 0 .. MaxTime
    BY <1>4, Bounds DEF Tick, setting, results, HouseInv
  <2>2. since' \in 0 .. now' \cup {None}
    BY <2>1 DEF HouseInv
  <2> QED
    BY <2>1, <2>2 DEF HouseInv, IsHouse, IsOfHouse
<1>5. CASE Evaluate
  <2>1. UNCHANGED <<states, shared, room, now>> /\ changes' = 0
    BY <1>5 DEF Evaluate, setting
  <2>2. /\ evaluated'.states = states /\ evaluated'.shared = shared /\ evaluated'.room = room
        /\ evaluation' = Evaluation(evaluated'.states, evaluated'.shared, evaluated'.room,
                                    since, now)
        /\ since' = Snapshot(states, shared, room, since, now).since
        /\ since \in Nat \cup {None} /\ now \in Nat
    BY <1>5, EvaluateStep
  <2>3. IsOfHouse'
    BY <2>2 DEF IsOfHouse
  <2>4. since' \in 0 .. now' \cup {None}
    BY <2>1, <2>2, MemoryIsPast DEF HouseInv
  <2>5. IsHouse(states, shared, room)' /\ IsHouse(evaluated.states, evaluated.shared, evaluated.room)'
    BY <2>1, <2>2 DEF HouseInv, IsHouse
  <2> QED
    BY <2>1, <2>3, <2>4, <2>5, Bounds DEF HouseInv
<1>6. CASE UNCHANGED vars
  BY <1>6 DEF vars, setting, results, HouseInv, IsHouse, IsOfHouse
<1> QED
  BY <1>1, <1>2, <1>3, <1>4, <1>5, <1>6 DEF Next

(* The latest evaluation is always what the pipeline makes of a house that *)
(* could be, whose inputs are stored clean (clean_inputs, evaluate_all).   *)
THEOREM HouseAlways == Spec => []HouseInv
BY HouseInit, HouseStep, PTL DEF Spec

-----------------------------------------------------------------------------
(* Storing and reading back.                                               *)

\* What is stored is a mapping, and nothing but.
AreMappings ==
    /\ shared = [k \in DOMAIN shared |-> shared[k]]
    /\ room = [k \in DOMAIN room |-> room[k]]

LEMMA MappingsAlways == Spec => []AreMappings
<1>1. Init => AreMappings
  BY DEF Init, NoInputs, AreMappings
<1>2. AreMappings /\ [Next]_vars => AreMappings'
  BY DEF Next, Report, SubmitShared, SubmitRoom, Tick, Evaluate, vars, setting,
         clean_inputs, AreMappings
<1> QED
  BY <1>1, <1>2, PTL DEF Spec

\* What can be stored goes through a form that is submitted untouched, and
\* through the builder, as it is.
LEMMA StoredIsKept ==
    ASSUME NEW stored, NEW keys, IsStored(stored, keys),
           stored = [k \in DOMAIN stored |-> stored[k]]
    PROVE  /\ clean_inputs(stored, keys) = stored
           /\ \A k : entity_ids(stored, k) = IF k \in DOMAIN stored THEN stored[k] ELSE <<>>
<1>1. \A k \in DOMAIN stored : _unique(stored[k]) = stored[k] /\ stored[k] # <<>>
  BY UniqueKept DEF IsStored
<1>2. {k \in keys \cap DOMAIN stored : _unique(stored[k]) # <<>>} = DOMAIN stored
  BY <1>1 DEF IsStored
<1>3. clean_inputs(stored, keys) = [k \in DOMAIN stored |-> stored[k]]
  BY <1>1, <1>2 DEF clean_inputs
<1> QED
  BY <1>1, <1>3 DEF entity_ids

StoredIsReadBack ==
    /\ clean_inputs(shared, SharedInputs) = shared
    /\ clean_inputs(room, RoomInputs) = room
    /\ \A k \in SharedInputs : Configured(shared, room, k) =
          IF k \in DOMAIN shared THEN shared[k] ELSE <<>>
    /\ \A k \in RoomInputs : Configured(shared, room, k) =
          IF k \in DOMAIN room THEN room[k] ELSE <<>>

(* Whatever forms were submitted, the pipeline reads exactly the entities  *)
(* that are stored, in the order they are stored in, and submitting what   *)
(* is stored once more changes nothing (clean_inputs, entity_ids).         *)
THEOREM InputsReadBack == Spec => []StoredIsReadBack
<1>1. HouseInv /\ AreMappings => StoredIsReadBack
  <2> SUFFICES ASSUME HouseInv, AreMappings PROVE StoredIsReadBack
    OBVIOUS
  <2>1. IsStored(shared, SharedInputs) /\ IsStored(room, RoomInputs)
    BY DEF HouseInv, IsHouse
  <2>2. \A k \in RoomInputs : k \notin SharedInputs
    BY DEF RoomInputs, SharedInputs
  <2> QED
    BY <2>1, <2>2, StoredIsKept DEF AreMappings, StoredIsReadBack, Configured
<1> QED
  BY <1>1, HouseAlways, MappingsAlways, PTL

\* The evaluation at hand, as the snapshot it is of.
LEMMA AtHand ==
    ASSUME HouseInv
    PROVE  \E s \in Nat \cup {None}, t \in Nat :
              /\ evaluation.raised = FALSE
              /\ evaluation.snapshot =
                    Snapshot(evaluated.states, evaluated.shared, evaluated.room, s, t)
              /\ evaluation.outcomes = Outcomes(evaluation.snapshot)
              /\ evaluation.permits = Permits(evaluation.snapshot)
<1> DEFINE said == evaluated.states
           ofHouse == evaluated.shared
           ofRoom == evaluated.room
<1>1. PICK s \in Nat \cup {None}, t \in Nat :
         evaluation = Evaluation(said, ofHouse, ofRoom, s, t)
  BY DEF HouseInv, IsOfHouse
<1>2. IsHouse(said, ofHouse, ofRoom)
  BY DEF HouseInv
<1> HIDE DEF said, ofHouse, ofRoom
<1>3. LET snapshot == Snapshot(said, ofHouse, ofRoom, s, t)
      IN  /\ evaluation.raised = FALSE /\ evaluation.snapshot = snapshot
          /\ evaluation.outcomes = Outcomes(snapshot)
          /\ evaluation.permits = Permits(snapshot)
  BY <1>1, <1>2, Evaluated
<1> QED
  BY <1>3 DEF said, ofHouse, ofRoom

LEMMA ReadingsAtHand ==
    ASSUME HouseInv
    PROVE  LET observations == evaluation.snapshot.observations
           IN  /\ DOMAIN observations = (Inputs \ GroupInputs) \cup DerivedKeys
               /\ \A k \in Inputs \ GroupInputs : IsObservation(observations[k], Kind(k))
               /\ \A k \in DerivedKeys : IsObservation(observations[k], Int)
               /\ \A k \in Derivations : observations[k] = _derive(k, observations)
<1>1. PICK s \in Nat \cup {None}, t \in Nat :
         evaluation.snapshot =
            Snapshot(evaluated.states, evaluated.shared, evaluated.room, s, t)
  BY AtHand
<1>2. /\ Reported(evaluated.states)
      /\ HoldsEntities(evaluated.shared) /\ HoldsEntities(evaluated.room)
  BY HouseCanBeRead DEF HouseInv
<1> DEFINE observations == evaluation.snapshot.observations
           built == build_observations(evaluated.states, evaluated.shared, evaluated.room).observations
<1>3. /\ \A k \in Inputs \ GroupInputs : IsObservation(observations[k], Kind(k))
      /\ \A k \in DerivedKeys : IsObservation(observations[k], Int)
  BY <1>1, <1>2, SnapshotReadings
<1>4. /\ DOMAIN observations = (Inputs \ GroupInputs) \cup DerivedKeys
      /\ \A k \in Inputs \ GroupInputs : observations[k] = built[k]
      /\ \A k \in Derivations : observations[k] = _derive(k, built)
  BY <1>1, SnapshotKeys
<1> HIDE DEF observations, built
<1>5. ASSUME NEW k \in Derivations PROVE observations[k] = _derive(k, observations)
  <2>1. Sources(k)[1] \in Inputs \ GroupInputs /\ Sources(k)[2] \in Inputs \ GroupInputs
    BY DEF Sources, Derivations, Inputs, SharedInputs, RoomInputs, GroupInputs
  <2>2. _derive(k, observations) = _derive(k, built)
    BY <1>4, <2>1 DEF _derive
  <2> QED
    BY <1>4, <2>2
<1> QED
  BY <1>3, <1>4, <1>5 DEF observations

-----------------------------------------------------------------------------
(* Types: what is stored stays well formed, and every reading of every     *)
(* evaluation is a value or a reason, due to an entity or to none          *)
(* (clean_inputs, Observation).                                            *)
THEOREM TypeCorrect == Spec => []TypeOK
<1>1. HouseInv => TypeOK
  <2> SUFFICES ASSUME HouseInv PROVE TypeOK
    OBVIOUS
  <2>1. /\ \A e \in Entity : states[e] \in Reports[e] \cup {Unseen}
        /\ changes \in 0 .. MaxChanges
        /\ now \in 0 .. MaxTime /\ since \in 0 .. now \cup {None}
        /\ IsStored(shared, SharedInputs) /\ IsStored(room, RoomInputs)
    BY DEF HouseInv, IsHouse
  <2>2. ASSUME NEW k \in DOMAIN evaluation.snapshot.observations,
               NEW o, o = evaluation.snapshot.observations[k]
        PROVE  /\ o.value = None <=> o.reason # None
               /\ o.source \in Entity \cup {None}
    <3>1. IsObservation(o, Int) \/ IsObservation(o, BOOLEAN)
      BY <2>2, ReadingsAtHand DEF Kind
    <3> QED
      BY <3>1, Placeholders DEF IsObservation
  <2> QED
    BY <2>1, <2>2 DEF TypeOK
<1> QED
  BY <1>1, HouseAlways, PTL

(* No evaluation raises: whatever is reported and whatever is configured,  *)
(* no group's parts overlap, the dew point is computed only where it has a *)
(* value, and no rule asks for the value of what could not be read         *)
(* (GroupObservation.__post_init__, _dew_point, evaluate_rule).            *)
THEOREM AlwaysAnswers == Spec => []NeverRaises
<1>1. HouseInv => NeverRaises
  <2> SUFFICES ASSUME HouseInv PROVE NeverRaises
    OBVIOUS
  <2>1. /\ evaluation.raised = FALSE
        /\ evaluation.outcomes = Outcomes(evaluation.snapshot)
    BY AtHand
  <2>2. \A rule \in Rules :
           evaluation.outcomes[rule].advisory = evaluate_rule(rule, evaluation.snapshot).advisory
    BY <2>1 DEF Outcomes
  <2>3. \A rule \in Rules : evaluation.outcomes[rule].advisory.action # "raised"
    BY <2>2, RuleAnswers
  <2> QED
    BY <2>1, <2>3 DEF NeverRaises
<1> QED
  BY <1>1, HouseAlways, PTL

(* A dead sensor is never taken for an opt-out: a guard that is computed   *)
(* is left out only for want of a source, every other one being readable   *)
(* (_inherited).                                                           *)
THEOREM DeadIsNotAbsent == Spec => []BrokenIsNotOptedOut
<1>1. HouseInv => BrokenIsNotOptedOut
  <2> SUFFICES ASSUME HouseInv, NEW k \in Derivations
               PROVE  Unconfigured(k) <=>
                         /\ \E i \in 1 .. 2 : Unconfigured(Sources(k)[i])
                         /\ \A i \in 1 .. 2 :
                               \/ Unconfigured(Sources(k)[i])
                               \/ evaluation.snapshot.observations[Sources(k)[i]].reason = None
    BY DEF BrokenIsNotOptedOut
  <2> DEFINE observations == evaluation.snapshot.observations
             first == observations[Sources(k)[1]]
             second == observations[Sources(k)[2]]
  <2>1. /\ Sources(k)[1] \in Inputs \ GroupInputs /\ Kind(Sources(k)[1]) = Int
        /\ Sources(k)[2] \in Inputs \ GroupInputs /\ Kind(Sources(k)[2]) = Int
    BY DEF Sources, Derivations, Inputs, SharedInputs, RoomInputs, GroupInputs, Kind, Measured,
           Temperatures
  <2>2. /\ IsObservation(first, Int) /\ IsObservation(second, Int)
        /\ observations[k] = _derive(k, observations)
    BY <2>1, ReadingsAtHand
  <2> HIDE DEF observations
  <2>3. observations[k].reason = "not_configured" <=>
           /\ first.reason = "not_configured" \/ second.reason = "not_configured"
           /\ first.reason \in {None, "not_configured"}
           /\ second.reason \in {None, "not_configured"}
    BY <2>2, DerivedIsObservation
  <2>4. 1 .. 2 = {1, 2}
    OBVIOUS
  <2> QED
    BY <2>3, <2>4 DEF Unconfigured, observations
<1> QED
  BY <1>1, HouseAlways, PTL

-----------------------------------------------------------------------------
(* Losing entities.                                                        *)

\* An evaluation of a house that only lost entities is no bolder, whenever
\* either was made.
LEMMA LossIsCareful ==
    ASSUME NEW before, NEW after, NEW ofHouse, NEW ofRoom,
           IsHouse(before, ofHouse, ofRoom), IsHouse(after, ofHouse, ofRoom),
           Dimmed(before, after),
           NEW s \in Nat \cup {None}, NEW t \in Nat, NEW u \in Nat \cup {None}, NEW v \in Nat,
           NEW earlier, earlier = Snapshot(before, ofHouse, ofRoom, s, t),
           NEW later, later = Snapshot(after, ofHouse, ofRoom, u, v)
    PROVE  /\ Permits(later) => Permits(earlier)
           /\ \A rule \in Rules : Outcomes(later)[rule].advisory.windows \subseteq
                                     Outcomes(earlier)[rule].advisory.windows
<1>1. Poorer(earlier, later)
  <2>1. /\ Reported(before) /\ Reported(after)
        /\ HoldsEntities(ofHouse) /\ HoldsEntities(ofRoom)
    BY HouseCanBeRead
  <2> QED
    BY <2>1, DimmedSnapshot
<1>2. ASSUME Permits(later) PROVE Permits(earlier)
  <2>1. \A k \in Guards : guard(later, k) \in {"NOT_CONFIGURED", "SATISFIED"}
    BY <1>2 DEF Permits, guards_permit_opening
  <2>2. Guards \subseteq Inputs \cup Derivations
    BY AdviceAssumption
  <2>3. \A k \in Guards : guard(earlier, k) \in {"NOT_CONFIGURED", "SATISFIED"}
    BY <1>1, <2>1, <2>2, PoorerGuard
  <2> QED
    BY <2>3 DEF Permits, guards_permit_opening
<1>3. ASSUME NEW rule \in Rules
      PROVE  Outcomes(later)[rule].advisory.windows \subseteq
                Outcomes(earlier)[rule].advisory.windows
  <2>1. /\ Outcomes(later)[rule] = evaluate_rule(rule, later)
        /\ Outcomes(earlier)[rule] = evaluate_rule(rule, earlier)
    BY DEF Outcomes
  <2> QED
    BY <1>1, <2>1, PoorerRule
<1> QED
  BY <1>2, <1>3

(* Losing entities between two evaluations, however many, makes the advice *)
(* only more careful: no window is newly named and opening is not newly    *)
(* permitted (evaluate_rule, guards_permit_opening).                       *)
THEOREM LossNeverEmboldens == Spec => LossMakesCareful
<1>1. HouseInv /\ [Next]_vars =>
         [OnlyLost(evaluated, evaluated') =>
             /\ evaluation'.permits => evaluation.permits
             /\ \A rule \in Rules : Windows(rule)' \subseteq Windows(rule)]_vars
  <2> SUFFICES ASSUME HouseInv, Next, OnlyLost(evaluated, evaluated')
               PROVE  /\ evaluation'.permits => evaluation.permits
                      /\ \A rule \in Rules : Windows(rule)' \subseteq Windows(rule)
    OBVIOUS
  <2>1. CASE Evaluate
    <3> DEFINE was == evaluated.states
               ofHouse == evaluated.shared
               ofRoom == evaluated.room
    <3>1. /\ evaluated'.states = states
          /\ evaluated'.shared = shared /\ evaluated'.room = room
          /\ evaluation'.snapshot = Snapshot(states, shared, room, since, now)
          /\ evaluation'.outcomes = Outcomes(evaluation'.snapshot)
          /\ evaluation'.permits = Permits(evaluation'.snapshot)
          /\ since \in Nat \cup {None} /\ now \in Nat
      BY <2>1, EvaluateStep
    <3>2. shared = ofHouse /\ room = ofRoom /\ Dimmed(was, states)
      BY <3>1 DEF OnlyLost, Dimmed
    <3>3. IsHouse(was, ofHouse, ofRoom) /\ IsHouse(states, ofHouse, ofRoom)
      BY <3>2 DEF HouseInv
    <3>4. PICK s \in Nat \cup {None}, t \in Nat :
             /\ evaluation.snapshot = Snapshot(was, ofHouse, ofRoom, s, t)
             /\ evaluation.outcomes = Outcomes(evaluation.snapshot)
             /\ evaluation.permits = Permits(evaluation.snapshot)
      BY AtHand
    <3> HIDE DEF was, ofHouse, ofRoom
    <3>5. evaluation'.snapshot = Snapshot(states, ofHouse, ofRoom, since, now)
      BY <3>1, <3>2
    <3>6. /\ Permits(evaluation'.snapshot) => Permits(evaluation.snapshot)
          /\ \A rule \in Rules :
                Outcomes(evaluation'.snapshot)[rule].advisory.windows \subseteq
                   Outcomes(evaluation.snapshot)[rule].advisory.windows
      BY <3>1, <3>2, <3>3, <3>4, <3>5, LossIsCareful
    <3> QED
      BY <3>1, <3>4, <3>6 DEF Windows
  <2>2. CASE ~Evaluate
    <3>1. UNCHANGED evaluation
      BY <2>2 DEF Next, Report, SubmitShared, SubmitRoom, Tick, results
    <3> QED
      BY <3>1 DEF Windows
  <2> QED
    BY <2>1, <2>2
<1> QED
  BY <1>1, HouseAlways, PTL DEF Spec, LossMakesCareful

-----------------------------------------------------------------------------
(* What entities say, and how it is read.                                  *)

LEMMA SwitchSays ==
    ASSUME NEW key \in Inputs, key \notin Measured \cup {"occupancy", "away", "hvac"},
           NEW said, NEW e
    PROVE  LET r == _read(key, e, said)
           IN  /\ (r.reason = None /\ r.value) <=> said[e].text = "on"
               /\ (r.reason = None /\ ~r.value) <=> said[e].text = "off"
<1> DEFINE s == said[e]
           r == _read(key, e, said)
<1>1. CASE IsDark(s)
  <2>1. r.reason # None
    BY <1>1, DarkIsUnread
  <2> QED
    BY <1>1, <2>1 DEF IsDark
<1>2. CASE ~IsDark(s)
  <2>1. r = _as_switch(s)
    BY <1>2 DEF _read, IsDark, ReadAs, Measured
  <2> HIDE DEF r, s
  <2>2. s.text = "on" => r.reason = None /\ r.value
    BY <2>1 DEF _as_switch, Read
  <2>3. s.text = "off" => r.reason = None /\ ~r.value
    BY <2>1 DEF _as_switch, Read
  <2>4. s.text \notin {"on", "off"} => r.reason # None
    BY <2>1, Placeholders DEF _as_switch, Refused, UnusableReason
  <2> QED
    BY <2>2, <2>3, <2>4 DEF r, s
<1> QED
  BY <1>1, <1>2

LEMMA AwaySays ==
    ASSUME NEW said, NEW e
    PROVE  LET r == _read("away", e, said)
           IN  /\ (r.reason = None /\ r.value) <=> SaysAway(e, said[e])
               /\ (r.reason = None /\ ~r.value) <=> SaysNotAway(e, said[e])
<1> DEFINE s == said[e]
           r == _read("away", e, said)
<1>1. CASE IsDark(s)
  <2>1. r.reason # None
    BY <1>1, DarkIsUnread
  <2>2. ~SaysAway(e, s) /\ ~SaysNotAway(e, s)
    BY <1>1 DEF IsDark, SaysAway, SaysNotAway, AlarmStates
  <2> QED
    BY <2>1, <2>2
<1>2. CASE ~IsDark(s)
  <2>1. r = _read_away(e, s)
    BY <1>2 DEF _read, IsDark, ReadAs, Temperatures
  <2> HIDE DEF r
  <2>2. CASE domain[e] = "alarm_control_panel"
    <3>1. domain[e] \notin Trackers
      BY <2>2 DEF Trackers
    <3>2. CASE s.text \in AlarmStates
      <4>1. r = Read(s.text \in AwayAlarmStates, None)
        BY <2>1, <2>2, <3>2, Zenon DEF _read_away, Trackers
      <4> HIDE DEF s
      <4>2. r.reason = None /\ (r.value <=> s.text \in AwayAlarmStates)
        BY <4>1 DEF Read
      <4> QED
        BY <2>2, <3>1, <3>2, <4>2 DEF SaysAway, SaysNotAway, AwayAlarmStates, s, r
    <3>3. CASE s.text \notin AlarmStates
      <4>1. r = Refused("unconvertible")
        BY <2>1, <2>2, <3>3, Zenon DEF _read_away, Trackers
      <4>2. r.reason # None
        BY <4>1, Placeholders DEF Refused, UnusableReason
      <4> QED
        BY <2>2, <3>1, <3>3, <4>2 DEF SaysAway, SaysNotAway, AlarmStates, r
    <3> QED
      BY <3>2, <3>3
  <2>3. CASE domain[e] \in Trackers
    <3>1. r = Read(~_is_present(s), None) /\ domain[e] # "alarm_control_panel"
      BY <2>1, <2>3 DEF _read_away, Trackers
    <3>2. r.reason = None /\ (r.value <=> s.text = "not_home")
      BY <3>1 DEF Read, _is_present
    <3> QED
      BY <1>2, <2>3, <3>1, <3>2 DEF SaysAway, SaysNotAway, r
  <2>4. CASE domain[e] \notin Trackers \cup {"alarm_control_panel"}
    <3>1. r = _as_switch(s)
      BY <2>1, <2>4 DEF _read_away
    <3>2. s.text = "on" => r.reason = None /\ r.value
      BY <3>1 DEF _as_switch, Read
    <3>3. s.text = "off" => r.reason = None /\ ~r.value
      BY <3>1 DEF _as_switch, Read
    <3>4. s.text \notin {"on", "off"} => r.reason # None
      BY <3>1, Placeholders DEF _as_switch, Refused, UnusableReason
    <3> QED
      BY <2>4, <3>2, <3>3, <3>4 DEF SaysAway, SaysNotAway, r
  <2> QED
    BY <2>2, <2>3, <2>4
<1> QED
  BY <1>1, <1>2

LEMMA OccupancySays ==
    ASSUME NEW said, NEW e
    PROVE  LET r == _read("occupancy", e, said)
           IN  /\ (r.reason = None /\ r.value) <=> SaysOccupied(e, said[e])
               /\ (r.reason = None /\ ~r.value) <=> SaysEmpty(e, said[e])
<1> DEFINE s == said[e]
           r == _read("occupancy", e, said)
<1>1. CASE IsDark(s)
  <2>1. r.reason # None
    BY <1>1, DarkIsUnread
  <2>2. ~SaysOccupied(e, s) /\ ~SaysEmpty(e, s)
    BY <1>1 DEF IsDark, SaysOccupied, SaysEmpty
  <2> QED
    BY <2>1, <2>2
<1>2. CASE ~IsDark(s)
  <2>1. r = _read_occupancy(e, s)
    BY <1>2 DEF _read, IsDark, ReadAs, Temperatures
  <2> HIDE DEF r
  <2>2. CASE domain[e] \in Trackers
    <3>1. r = Read(_is_present(s), None)
      BY <2>1, <2>2 DEF _read_occupancy
    <3>2. r.reason = None /\ (r.value <=> s.text # "not_home")
      BY <3>1 DEF Read, _is_present
    <3> QED
      BY <1>2, <2>2, <3>2 DEF SaysOccupied, SaysEmpty, r
  <2>3. CASE domain[e] \notin Trackers
    <3>1. r = _as_switch(s)
      BY <2>1, <2>3 DEF _read_occupancy
    <3>2. s.text = "on" => r.reason = None /\ r.value
      BY <3>1 DEF _as_switch, Read
    <3>3. s.text = "off" => r.reason = None /\ ~r.value
      BY <3>1 DEF _as_switch, Read
    <3>4. s.text \notin {"on", "off"} => r.reason # None
      BY <3>1, Placeholders DEF _as_switch, Refused, UnusableReason
    <3> QED
      BY <2>3, <3>2, <3>3, <3>4 DEF SaysOccupied, SaysEmpty, r
  <2> QED
    BY <2>2, <2>3
<1> QED
  BY <1>1, <1>2

LEMMA HvacSays ==
    ASSUME NEW said, NEW e, _read("hvac", e, said).reason = None, ~_read("hvac", e, said).value
    PROVE  said[e].action \in HvacActions \ {"heating", "cooling"}
<1> DEFINE r == _read("hvac", e, said)
<1>1. ~IsDark(said[e])
  BY DarkIsUnread
<1>2. r = _read_conditioning(said[e])
  BY <1>1 DEF _read, IsDark, ReadAs, Temperatures
<1>3. r.reason = None /\ ~r.value
  OBVIOUS
<1> HIDE DEF r
<1>4. said[e].action \in HvacActions
  BY <1>2, <1>3, Placeholders DEF _read_conditioning, Refused, UnusableReason
<1>5. r = Read(said[e].action \in ConditioningActions, None)
  BY <1>2, <1>4 DEF _read_conditioning
<1>6. r.value <=> said[e].action \in ConditioningActions
  BY <1>5 DEF Read
<1> QED
  BY <1>3, <1>4, <1>6 DEF ConditioningActions

-----------------------------------------------------------------------------
(* What is configured, and what it is read from.                           *)

LEMMA EmptyRange ==
    ASSUME NEW list \in Seq(Entity)
    PROVE  /\ Range(list) \subseteq Entity
           /\ Range(list) = {} <=> list = <<>>
           /\ Len(list) =< 1 /\ list # <<>> => Range(list) = {list[1]}
           /\ list # <<>> => list[1] \in Range(list)
<1>1. DOMAIN list = 1 .. Len(list) /\ Len(list) \in Nat /\ (Len(list) = 0 <=> list = <<>>)
  BY LenProperties, EmptySeq
<1>2. \A i \in 1 .. Len(list) : list[i] \in Entity
  BY ElementOfSeq
<1>3. Range(list) \subseteq Entity
  BY <1>1, <1>2 DEF Range
<1>4. list # <<>> => 1 \in DOMAIN list /\ list[1] \in Range(list)
  BY <1>1 DEF Range
<1>5. list = <<>> => Range(list) = {}
  BY <1>1 DEF Range
<1>6. Len(list) =< 1 /\ list # <<>> => Range(list) = {list[1]}
  <2> SUFFICES ASSUME Len(list) =< 1, list # <<>> PROVE Range(list) = {list[1]}
    OBVIOUS
  <2>1. Len(list) = 1
    BY <1>1
  <2>2. DOMAIN list = {1}
    BY <1>1, <2>1
  <2> QED
    BY <2>2 DEF Range
<1> QED
  BY <1>3, <1>4, <1>5, <1>6

\* An input's entities are those of its house and its room, which do not
\* share a name; one that holds a single entity holds one.
LEMMA IdsConfigured ==
    ASSUME NEW said, NEW ofHouse, NEW ofRoom, IsHouse(said, ofHouse, ofRoom), NEW k \in Inputs
    PROVE  LET configured == Configured(ofHouse, ofRoom, k)
           IN  /\ configured \in Seq(Entity)
               /\ Range(configured) \subseteq Entity
               /\ Range(configured) = {} <=> configured = <<>>
               /\ configured # <<>> => configured[1] \in Range(configured)
               /\ k \notin MultipleInputs /\ configured # <<>> =>
                     Range(configured) = {configured[1]}
               /\ Range(configured) = Ids(ofHouse, k) \cup Ids(ofRoom, k)
               /\ k \in SharedInputs => Ids(ofRoom, k) = {}
               /\ k \in RoomInputs => Ids(ofHouse, k) = {}
<1> DEFINE configured == Configured(ofHouse, ofRoom, k)
           stored == IF k \in SharedInputs THEN ofHouse ELSE ofRoom
<1>1. HoldsEntities(ofHouse) /\ HoldsEntities(ofRoom)
  BY HouseCanBeRead
<1>2. /\ configured \in Seq(Entity)
      /\ Range(configured) = IF k \in DOMAIN stored THEN Range(stored[k]) \ {Blank} ELSE {}
      /\ k \in DOMAIN stored => Len(configured) =< Len(stored[k])
  BY <1>1, ConfiguredEntities
<1>3. IsStored(ofHouse, SharedInputs) /\ IsStored(ofRoom, RoomInputs)
  BY DEF IsHouse
<1>4. \A key \in SharedInputs : key \notin RoomInputs
  BY DEF SharedInputs, RoomInputs
<1>5. /\ k \in SharedInputs => k \notin DOMAIN ofRoom
      /\ k \in RoomInputs => k \notin DOMAIN ofHouse
      /\ k \in SharedInputs \/ k \in RoomInputs
  BY <1>3, <1>4 DEF IsStored, Inputs
<1>6. /\ k \in SharedInputs => Ids(ofRoom, k) = {}
      /\ k \in RoomInputs => Ids(ofHouse, k) = {}
  BY <1>5 DEF Ids
<1>7. Range(configured) = Ids(stored, k)
  BY <1>2 DEF Ids
<1>8. Range(configured) = Ids(ofHouse, k) \cup Ids(ofRoom, k)
  BY <1>4, <1>5, <1>6, <1>7
<1>9. k \in DOMAIN stored /\ k \notin MultipleInputs => Len(stored[k]) = 1
  BY <1>3 DEF IsStored
<1> HIDE DEF configured, stored
<1>10. Range(configured) # {} => k \in DOMAIN stored
  BY <1>2
<1>11. Range(configured) = {} <=> configured = <<>>
  BY <1>2, EmptyRange
<1>12. k \notin MultipleInputs /\ configured # <<>> => Len(configured) =< 1
  BY <1>2, <1>9, <1>10, <1>11
<1> QED
  BY <1>2, <1>6, <1>8, <1>11, <1>12, EmptyRange DEF configured

\* An input of one entity, and one that all its entities have to agree on.
LEMMA ValueSays ==
    ASSUME NEW key \in Inputs \ GroupInputs, key # "away", NEW configured \in Seq(Entity),
           configured # <<>>, NEW said
    PROVE  LET o == _build_value(key, configured, said)
               r == _read(key, configured[1], said)
           IN  o.reason = r.reason /\ o.value = r.value /\ o.source = configured[1]
BY DEF _build_value, Observed

LEMMA EverySays ==
    ASSUME NEW configured \in Seq(Entity), configured # <<>>, NEW said
    PROVE  LET o == _build_value("away", configured, said)
               r(e) == _read("away", e, said)
           IN  /\ o.reason = None <=> \A e \in Range(configured) : r(e).reason = None
               /\ o.reason = None => (o.value <=> \A e \in Range(configured) : r(e).value)
<1> DEFINE o == _build_value("away", configured, said)
           r(e) == _read("away", e, said)
<1>1. o = _build_every("away", configured, said)
  BY DEF _build_value
<1>2. Range(configured) = {configured[i] : i \in DOMAIN configured}
  BY DEF Range
<1>3. CASE \E i \in DOMAIN configured : r(configured[i]).reason # None
  <2>1. PICK i \in DOMAIN configured :
           r(configured[i]).reason # None /\ o = Observed(r(configured[i]), configured[i])
    BY <1>1, <1>3, FirstUnread
  <2>2. o.reason # None
    BY <2>1 DEF Observed
  <2> QED
    BY <1>2, <2>1, <2>2
<1>4. CASE \A i \in DOMAIN configured : r(configured[i]).reason = None
  <2> DEFINE all == \A i \in DOMAIN configured : r(configured[i]).value
  <2>1. o = Observed(Read(all, None), IF Len(configured) = 1 THEN configured[1] ELSE None)
    BY <1>1, <1>4, EveryRead
  <2> HIDE DEF o, all
  <2>2. o.reason = None /\ (o.value <=> all)
    BY <2>1 DEF Observed, Read
  <2> QED
    BY <1>2, <1>4, <2>2 DEF o, all
<1> QED
  BY <1>3, <1>4

\* The inputs of the evaluation at hand.
Sourced(k) == Configured(evaluated.shared, evaluated.room, k)

LEMMA InputsAtHand ==
    ASSUME HouseInv
    PROVE  /\ \A k \in Inputs \ GroupInputs :
                 evaluation.snapshot.observations[k] =
                    _build_value(k, Sourced(k), evaluated.states)
           /\ \A k \in GroupInputs :
                 LET g == evaluation.snapshot.groups[k]
                     r(e) == _read(k, e, evaluated.states)
                 IN  /\ g.configured = Sourced(k)
                     /\ g.unusable = {e \in Range(Sourced(k)) : r(e).reason # None}
                     /\ g.known_on = {e \in Range(Sourced(k)) : r(e).reason = None /\ r(e).value}
<1>1. PICK s \in Nat \cup {None}, t \in Nat :
         evaluation.snapshot =
            Snapshot(evaluated.states, evaluated.shared, evaluated.room, s, t)
  BY AtHand
<1>2. HoldsEntities(evaluated.shared) /\ HoldsEntities(evaluated.room)
  BY HouseCanBeRead DEF HouseInv
<1>3. \A k \in Inputs \ GroupInputs :
         evaluation.snapshot.observations[k] = _build_value(k, Sourced(k), evaluated.states)
  BY <1>1, SnapshotKeys DEF Sourced
<1>4. ASSUME NEW k \in GroupInputs
      PROVE  LET g == evaluation.snapshot.groups[k]
                 r(e) == _read(k, e, evaluated.states)
             IN  /\ g.configured = Sourced(k)
                 /\ g.unusable = {e \in Range(Sourced(k)) : r(e).reason # None}
                 /\ g.known_on = {e \in Range(Sourced(k)) : r(e).reason = None /\ r(e).value}
  <2>1. evaluation.snapshot.groups[k] = _build_group(k, Sourced(k), evaluated.states)
    BY <1>1, SnapshotKeys DEF Sourced
  <2>2. IsInjective(Sourced(k))
    BY <1>2, ConfiguredEntities DEF Sourced
  <2> QED
    BY <2>1, <2>2, GroupIsPartitioned
<1> QED
  BY <1>3, <1>4

LEMMA SourcedAtHand ==
    ASSUME HouseInv, NEW k \in Inputs
    PROVE  /\ Sourced(k) \in Seq(Entity)
           /\ Range(Sourced(k)) \subseteq Entity
           /\ Range(Sourced(k)) = {} <=> Sourced(k) = <<>>
           /\ Sourced(k) # <<>> => Sourced(k)[1] \in Range(Sourced(k))
           /\ k \notin MultipleInputs /\ Sourced(k) # <<>> =>
                 Range(Sourced(k)) = {Sourced(k)[1]}
           /\ Range(Sourced(k)) = Ids(evaluated.shared, k) \cup Ids(evaluated.room, k)
           /\ k \in SharedInputs => Ids(evaluated.room, k) = {}
           /\ k \in RoomInputs => Ids(evaluated.shared, k) = {}
<1> DEFINE said == evaluated.states
           ofHouse == evaluated.shared
           ofRoom == evaluated.room
<1>1. IsHouse(said, ofHouse, ofRoom)
  BY DEF HouseInv
<1>2. Sourced(k) = Configured(ofHouse, ofRoom, k)
  BY DEF Sourced
<1> HIDE DEF said, ofHouse, ofRoom
<1>3. LET configured == Configured(ofHouse, ofRoom, k)
      IN  /\ configured \in Seq(Entity)
          /\ Range(configured) \subseteq Entity
          /\ Range(configured) = {} <=> configured = <<>>
          /\ configured # <<>> => configured[1] \in Range(configured)
          /\ k \notin MultipleInputs /\ configured # <<>> => Range(configured) = {configured[1]}
          /\ Range(configured) = Ids(ofHouse, k) \cup Ids(ofRoom, k)
          /\ k \in SharedInputs => Ids(ofRoom, k) = {}
          /\ k \in RoomInputs => Ids(ofHouse, k) = {}
  BY <1>1, IdsConfigured
<1> QED
  BY <1>2, <1>3 DEF ofHouse, ofRoom

\* What cannot be had for want of configuration.
LEMMA UnconfiguredAtHand ==
    ASSUME HouseInv, NEW k \in Inputs \ GroupInputs
    PROVE  evaluation.snapshot.observations[k].reason = "not_configured" <=> Sourced(k) = <<>>
<1>1. Reported(evaluated.states)
  BY HouseCanBeRead DEF HouseInv
<1>2. Sourced(k) \in Seq(Entity)
  BY SourcedAtHand
<1>3. _build_value(k, Sourced(k), evaluated.states).reason = "not_configured" <=> Sourced(k) = <<>>
  BY <1>1, <1>2, ValueIsObservation
<1> QED
  BY <1>3, InputsAtHand

-----------------------------------------------------------------------------
(* Closing.                                                                *)

LEMMA EmptyHouseAtHand ==
    ASSUME HouseInv
    PROVE  LET o == evaluation.snapshot.observations["away"]
           IN  (o.reason = None /\ o.value) <=> HouseEmpty(evaluated)
<1> DEFINE o == evaluation.snapshot.observations["away"]
           r(e) == _read("away", e, evaluated.states)
           all == Range(Sourced("away"))
<1>1. /\ "away" \in Inputs \ GroupInputs /\ "away" \in SharedInputs
  BY DEF Inputs, SharedInputs, GroupInputs
<1>2. o = _build_value("away", Sourced("away"), evaluated.states)
  BY <1>1, InputsAtHand
<1>3. /\ Sourced("away") \in Seq(Entity)
      /\ all = Ids(evaluated.shared, "away")
      /\ all = {} <=> Sourced("away") = <<>>
  BY <1>1, SourcedAtHand
<1>4. HouseEmpty(evaluated) <=> all # {} /\ \A e \in all : r(e).reason = None /\ r(e).value
  BY <1>3, AwaySays DEF HouseEmpty
<1>5. CASE Sourced("away") = <<>>
  <2>1. o.reason # None
    BY <1>1, <1>5, UnconfiguredAtHand, Placeholders
  <2> QED
    BY <1>3, <1>4, <1>5, <2>1
<1>6. CASE Sourced("away") # <<>>
  <2>1. /\ o.reason = None <=> \A e \in all : r(e).reason = None
        /\ o.reason = None => (o.value <=> \A e \in all : r(e).value)
    BY <1>2, <1>3, <1>6, EverySays
  <2> HIDE DEF o, r, all
  <2> QED
    BY <1>3, <1>4, <1>6, <2>1 DEF o
<1> QED
  BY <1>5, <1>6

LEMMA RainAtHand ==
    ASSUME HouseInv
    PROVE  LET o == evaluation.snapshot.observations["rain_risk"]
           IN  (o.reason = None /\ o.value) <=> RainExpected(evaluated)
<1> DEFINE o == evaluation.snapshot.observations["rain_risk"]
           list == Sourced("rain_risk")
           said == evaluated.states
<1>1. /\ "rain_risk" \in Inputs \ GroupInputs /\ "rain_risk" \in SharedInputs
      /\ "rain_risk" \notin MultipleInputs
      /\ "rain_risk" \notin Measured \cup {"occupancy", "away", "hvac"}
  BY DEF Inputs, SharedInputs, GroupInputs, MultipleInputs, Measured, Temperatures, Derivations
<1>2. o = _build_value("rain_risk", list, said)
  BY <1>1, InputsAtHand
<1>3. /\ list \in Seq(Entity)
      /\ Range(list) = Ids(evaluated.shared, "rain_risk")
      /\ Range(list) = {} <=> list = <<>>
      /\ list # <<>> => Range(list) = {list[1]}
  BY <1>1, SourcedAtHand
<1>4. RainExpected(evaluated) <=> \E e \in Range(list) : said[e].text = "on"
  BY <1>3 DEF RainExpected
<1>5. CASE list = <<>>
  <2>1. o.reason # None
    BY <1>1, <1>5, UnconfiguredAtHand, Placeholders
  <2> QED
    BY <1>3, <1>4, <1>5, <2>1
<1>6. CASE list # <<>>
  <2> DEFINE r == _read("rain_risk", list[1], said)
  <2> HIDE DEF list, said
  <2>1. o.reason = r.reason /\ o.value = r.value
    BY <1>1, <1>2, <1>3, <1>6, ValueSays
  <2>2. (r.reason = None /\ r.value) <=> said[list[1]].text = "on"
    BY <1>1, SwitchSays
  <2> HIDE DEF o, r
  <2> QED
    BY <1>3, <1>4, <1>6, <2>1, <2>2 DEF o
<1> QED
  BY <1>5, <1>6

LEMMA OpenAtHand ==
    ASSUME HouseInv
    PROVE  /\ evaluation.snapshot.groups["window_contacts"].known_on = Open(evaluated)
           /\ Open(evaluated) # {} => usable(evaluation.snapshot, "window_contacts")
<1> DEFINE g == evaluation.snapshot.groups["window_contacts"]
           all == Range(Sourced("window_contacts"))
           r(e) == _read("window_contacts", e, evaluated.states)
<1>1. /\ "window_contacts" \in GroupInputs /\ "window_contacts" \in RoomInputs
      /\ "window_contacts" \in Inputs
      /\ "window_contacts" \notin Measured \cup {"occupancy", "away", "hvac"}
  BY DEF Inputs, RoomInputs, GroupInputs, Measured, Temperatures, Derivations
<1>2. /\ g.configured = Sourced("window_contacts")
      /\ g.unusable = {e \in all : r(e).reason # None}
      /\ g.known_on = {e \in all : r(e).reason = None /\ r(e).value}
  BY <1>1, InputsAtHand
<1>3. all = Ids(evaluated.room, "window_contacts")
  BY <1>1, SourcedAtHand
<1>4. \A e : (r(e).reason = None /\ r(e).value) <=> evaluated.states[e].text = "on"
  BY <1>1, SwitchSays
<1>5. Open(evaluated) = {e \in all : r(e).reason = None /\ r(e).value}
  BY <1>3, <1>4 DEF Open
<1>6. usable(evaluation.snapshot, "window_contacts") <=> g.unusable # all
  BY <1>1, <1>2 DEF usable
<1> HIDE DEF all, r, g
<1>7. g.known_on = Open(evaluated)
  BY <1>2, <1>5
<1>8. Open(evaluated) # {} => g.unusable # all
  BY <1>2, <1>5
<1> QED
  BY <1>6, <1>7, <1>8 DEF g

(* Closing is advised exactly when there is an open window and reason to   *)
(* close it: every away source says the house is empty, or the rain sensor *)
(* that rain is coming.  It names exactly the open windows, whatever other *)
(* contacts cannot be read (_close_advice, _build_every, _build_group).    *)
THEOREM ClosesWhatIsOpen == Spec => []AdviceIsTrue
<1>1. HouseInv => AdviceIsTrue
  <2> SUFFICES ASSUME HouseInv PROVE AdviceIsTrue
    OBVIOUS
  <2>1. \A rule \in Rules :
           Windows(rule) = evaluate_rule(rule, evaluation.snapshot).advisory.windows
    BY AtHand DEF Windows, Outcomes
  <2>2. ASSUME NEW rule \in Rules,
               NEW o, o = evaluation.snapshot.observations[Trigger(rule)]
        PROVE  Windows(rule) = IF o.reason = None /\ o.value THEN Open(evaluated) ELSE {}
    <3>1. Windows(rule) =
             IF usable(evaluation.snapshot, "window_contacts") /\ o.reason = None /\ o.value
             THEN evaluation.snapshot.groups["window_contacts"].known_on ELSE {}
      BY <2>1, <2>2, RuleAnswers
    <3> QED
      BY <3>1, OpenAtHand
  <2>3. /\ "window.away_secure" \in Rules /\ Trigger("window.away_secure") = "away"
        /\ "window.rain_incoming" \in Rules /\ Trigger("window.rain_incoming") = "rain_risk"
    BY DEF Rules, Trigger
  <2>4. Windows("window.away_secure") = IF HouseEmpty(evaluated) THEN Open(evaluated) ELSE {}
    BY <2>2, <2>3, EmptyHouseAtHand
  <2>5. Windows("window.rain_incoming") = IF RainExpected(evaluated) THEN Open(evaluated) ELSE {}
    BY <2>2, <2>3, RainAtHand
  <2> QED
    BY <2>4, <2>5 DEF AdviceIsTrue
<1> QED
  BY <1>1, HouseAlways, PTL

-----------------------------------------------------------------------------
(* Opening.                                                                *)

LEMMA SaidOfInput ==
    ASSUME HouseInv, NEW k \in Inputs
    PROVE  Said(evaluated, k) = Range(Sourced(k))
<1>1. k \notin Derivations
  BY DEF Inputs, SharedInputs, RoomInputs, Derivations
<1>2. Said(evaluated, k) = Ids(evaluated.shared, k) \cup Ids(evaluated.room, k)
  BY <1>1 DEF Said
<1> QED
  BY <1>2, SourcedAtHand

LEMMA SaidOfDerivation ==
    ASSUME HouseInv, NEW k \in Derivations
    PROVE  Said(evaluated, k) = Range(Sourced(Sources(k)[1])) \cup Range(Sourced(Sources(k)[2]))
<1> DEFINE a == Sources(k)[1]
           b == Sources(k)[2]
<1>1. Range(Sources(k)) = {a, b}
  <2>1. DOMAIN Sources(k) = {1, 2}
    BY DEF Sources, Derivations
  <2> QED
    BY <2>1 DEF Range
<1>2. a \in Inputs /\ b \in Inputs
  BY DEF Sources, Derivations, Inputs, SharedInputs, RoomInputs
<1> HIDE DEF a, b
<1>3. Said(evaluated, k) =
         UNION {Ids(stored, key) : stored \in {evaluated.shared, evaluated.room}, key \in {a, b}}
  BY <1>1 DEF Said
<1>4. Said(evaluated, k) = (Ids(evaluated.shared, a) \cup Ids(evaluated.room, a))
                           \cup (Ids(evaluated.shared, b) \cup Ids(evaluated.room, b))
  BY <1>3
<1>5. /\ Range(Sourced(a)) = Ids(evaluated.shared, a) \cup Ids(evaluated.room, a)
      /\ Range(Sourced(b)) = Ids(evaluated.shared, b) \cup Ids(evaluated.room, b)
  BY <1>2, SourcedAtHand
<1> QED
  BY <1>4, <1>5 DEF a, b

\* A group that permits opening: every member says off.
LEMMA GroupClear ==
    ASSUME HouseInv, NEW k \in GroupInputs,
           guard(evaluation.snapshot, k) \in {"NOT_CONFIGURED", "SATISFIED"},
           NEW e \in Range(Sourced(k))
    PROVE  evaluated.states[e].text = "off"
<1> DEFINE g == evaluation.snapshot.groups[k]
           r(x) == _read(k, x, evaluated.states)
<1>1. k \in Inputs /\ k \notin Measured \cup {"occupancy", "away", "hvac"}
  BY DEF Inputs, RoomInputs, GroupInputs, Measured, Temperatures, Derivations
<1>2. /\ g.configured = Sourced(k)
      /\ g.unusable = {x \in Range(Sourced(k)) : r(x).reason # None}
      /\ g.known_on = {x \in Range(Sourced(k)) : r(x).reason = None /\ r(x).value}
  BY InputsAtHand
<1>3. guard(evaluation.snapshot, k) = _group_guard(g)
  BY DEF guard
<1>4. Sourced(k) # <<>>
  BY <1>1, SourcedAtHand
<1>5. (r(e).reason = None /\ ~r(e).value) => evaluated.states[e].text = "off"
  BY <1>1, SwitchSays
<1> HIDE DEF g, r
<1>6. g.known_on = {} /\ g.unusable = {}
  BY <1>2, <1>3, <1>4 DEF _group_guard
<1> QED
  BY <1>2, <1>5, <1>6

\* Any other input that permits opening: if configured, it was read, and what
\* was read does not block.
LEMMA ObservationClear ==
    ASSUME HouseInv, NEW k \in (Inputs \ GroupInputs) \cup Derivations,
           guard(evaluation.snapshot, k) \in {"NOT_CONFIGURED", "SATISFIED"}
    PROVE  LET o == evaluation.snapshot.observations[k]
           IN  \/ o.reason = "not_configured"
               \/ o.reason = None /\ (k \notin Measured => ~o.value)
<1> DEFINE o == evaluation.snapshot.observations[k]
<1>1. k \notin GroupInputs
  BY DEF GroupInputs, Derivations
<1>2. guard(evaluation.snapshot, k) = guard_when(o, k)
  BY <1>1 DEF guard
<1> HIDE DEF o
<1>3. \/ o.reason = "not_configured"
      \/ o.reason = None /\ ~Blocking(k, o.value)
  BY <1>2 DEF guard_when
<1> QED
  BY <1>3 DEF Blocking, o

\* An input of one entity that permits opening: the entity speaks against
\* blocking.
LEMMA SingleClear ==
    ASSUME HouseInv, NEW k \in Inputs \ GroupInputs, k # "away",
           guard(evaluation.snapshot, k) \in {"NOT_CONFIGURED", "SATISFIED"},
           NEW e \in Range(Sourced(k))
    PROVE  SaysClear(k, e, evaluated.states[e])
<1> DEFINE o == evaluation.snapshot.observations[k]
           said == evaluated.states
           r == _read(k, e, said)
<1>1. Sourced(k) # <<>> /\ Sourced(k) \in Seq(Entity)
  BY SourcedAtHand
<1>2. k \notin MultipleInputs
  BY DEF MultipleInputs
<1>3. e = Sourced(k)[1]
  BY <1>1, <1>2, SourcedAtHand
<1>4. o = _build_value(k, Sourced(k), said)
  BY InputsAtHand
<1>5. o.reason = r.reason /\ o.value = r.value
  BY <1>1, <1>3, <1>4, ValueSays
<1>6. o.reason # "not_configured"
  BY <1>1, UnconfiguredAtHand
<1>7. r.reason = None /\ (k \notin Measured => ~r.value)
  <2>1. o.reason = None /\ (k \notin Measured => ~o.value)
    BY <1>6, ObservationClear
  <2> HIDE DEF o, r
  <2> QED
    BY <1>5, <2>1
<1>8. CASE k \in Measured
  <2>1. ~IsDark(said[e])
    BY <1>7, DarkIsUnread
  <2> QED
    BY <1>8, <2>1 DEF SaysClear, Measured, Temperatures, Derivations
<1>9. CASE k = "occupancy"
  <2>1. SaysEmpty(e, said[e])
    BY <1>7, <1>9, OccupancySays DEF Measured, Temperatures, Derivations
  <2> QED
    BY <1>9, <2>1 DEF SaysClear, SaysEmpty, Measured, Temperatures, Derivations
<1>10. CASE k = "hvac"
  <2>1. said[e].action \in HvacActions \ {"heating", "cooling"}
    BY <1>7, <1>10, HvacSays DEF Measured, Temperatures, Derivations
  <2> QED
    BY <1>10, <2>1 DEF SaysClear, Measured, Temperatures, Derivations
<1>11. CASE k \notin Measured \cup {"occupancy", "away", "hvac"}
  <2>1. said[e].text = "off"
    BY <1>7, <1>11, SwitchSays
  <2> QED
    BY <1>11, <2>1 DEF SaysClear
<1> QED
  BY <1>8, <1>9, <1>10, <1>11

\* The sources of away that permit opening all speak, one of them against
\* the house being empty.
LEMMA AwayClear ==
    ASSUME HouseInv, guard(evaluation.snapshot, "away") \in {"NOT_CONFIGURED", "SATISFIED"}
    PROVE  LET all == Range(Sourced("away"))
           IN  /\ \A e \in all : \/ SaysNotAway(e, evaluated.states[e])
                                 \/ SaysAway(e, evaluated.states[e])
               /\ all # {} => \E e \in all : SaysNotAway(e, evaluated.states[e])
<1> DEFINE o == evaluation.snapshot.observations["away"]
           all == Range(Sourced("away"))
           r(e) == _read("away", e, evaluated.states)
<1>1. /\ "away" \in Inputs \ GroupInputs
      /\ "away" \notin Measured
  BY DEF Inputs, SharedInputs, GroupInputs, Measured, Temperatures, Derivations
<1>2. /\ Sourced("away") \in Seq(Entity)
      /\ all = {} <=> Sourced("away") = <<>>
  BY <1>1, SourcedAtHand
<1>3. CASE Sourced("away") = <<>>
  BY <1>2, <1>3
<1>4. CASE Sourced("away") # <<>>
  <2>1. o.reason # "not_configured"
    BY <1>1, <1>4, UnconfiguredAtHand
  <2>2. o.reason = None /\ ~o.value
    BY <1>1, <2>1, ObservationClear
  <2>3. o = _build_value("away", Sourced("away"), evaluated.states)
    BY <1>1, InputsAtHand
  <2>4. /\ o.reason = None <=> \A e \in all : r(e).reason = None
        /\ o.reason = None => (o.value <=> \A e \in all : r(e).value)
    BY <1>2, <1>4, <2>3, EverySays
  <2>5. \A e : /\ (r(e).reason = None /\ r(e).value) <=> SaysAway(e, evaluated.states[e])
               /\ (r(e).reason = None /\ ~r(e).value) <=> SaysNotAway(e, evaluated.states[e])
    BY AwaySays
  <2> HIDE DEF o, r, all
  <2>6. \A e \in all : r(e).reason = None
    BY <2>2, <2>4
  <2>7. \E e \in all : ~r(e).value
    BY <2>2, <2>4
  <2>8. /\ \A e \in all : \/ SaysNotAway(e, evaluated.states[e])
                          \/ SaysAway(e, evaluated.states[e])
        /\ \E e \in all : SaysNotAway(e, evaluated.states[e])
    BY <2>5, <2>6, <2>7
  <2> QED
    BY <2>8 DEF all
<1> QED
  BY <1>3, <1>4

\* A computed guard that permits opening: no source of it is dark.
LEMMA DerivedClear ==
    ASSUME HouseInv, NEW k \in Derivations,
           guard(evaluation.snapshot, k) \in {"NOT_CONFIGURED", "SATISFIED"},
           NEW i \in {1, 2}, NEW e \in Range(Sourced(Sources(k)[i]))
    PROVE  ~IsDark(evaluated.states[e])
<1> DEFINE observations == evaluation.snapshot.observations
           a == Sources(k)[1]
           b == Sources(k)[2]
           key == Sources(k)[i]
<1>1. \A x \in {a, b} : x \in Inputs \ GroupInputs /\ x \notin MultipleInputs
                        /\ Kind(x) = Int /\ x # "away"
  BY DEF Sources, Derivations, Inputs, SharedInputs, RoomInputs, GroupInputs, MultipleInputs,
         Kind, Measured, Temperatures
<1>2. key \in {a, b}
  OBVIOUS
<1> HIDE DEF a, b, key
<1>3. /\ Sourced(key) # <<>> /\ Sourced(key) \in Seq(Entity)
      /\ e = Sourced(key)[1]
  <2>1. e \in Range(Sourced(key)) /\ key \in Inputs /\ key \notin MultipleInputs
    BY <1>1, <1>2 DEF key
  <2> QED
    BY <2>1, SourcedAtHand
<1>4. /\ IsObservation(observations[a], Int) /\ IsObservation(observations[b], Int)
      /\ observations[k] = _derive(k, observations)
  BY <1>1, ReadingsAtHand
<1>5. \/ observations[k].reason = "not_configured"
      \/ observations[k].reason = None
  BY ObservationClear
<1>6. observations[key].reason # "not_configured"
  BY <1>1, <1>2, <1>3, UnconfiguredAtHand
<1>7. observations[key] = _build_value(key, Sourced(key), evaluated.states)
  BY <1>1, <1>2, InputsAtHand
<1>8. observations[key].reason = _read(key, e, evaluated.states).reason
  BY <1>1, <1>2, <1>3, <1>7, ValueSays
<1> HIDE DEF observations
<1>9. /\ _derive(k, observations).reason = None =>
            observations[a].reason = None /\ observations[b].reason = None
      /\ _derive(k, observations).reason = "not_configured" =>
            /\ observations[a].reason \in {None, "not_configured"}
            /\ observations[b].reason \in {None, "not_configured"}
  BY <1>4, DerivedIsObservation DEF a, b
<1>10. observations[key].reason = None
  BY <1>2, <1>4, <1>5, <1>6, <1>9
<1> QED
  BY <1>8, <1>10, DarkIsUnread

(* Opening is permitted only when everything configured as a guard has     *)
(* been read and speaks against blocking, the sources of away among        *)
(* themselves: only what was left unconfigured is skipped                  *)
(* (guards_permit_opening, _group_guard, guard_when).                      *)
THEOREM OpensOnWhatItSaw == Spec => []PermitsOnlyWhatItSaw
<1>1. HouseInv => PermitsOnlyWhatItSaw
  <2> DEFINE Clear(k, e) == SaysClear(k, e, evaluated.states[e])
  <2> SUFFICES ASSUME HouseInv, evaluation.permits, NEW k \in Guards
               PROVE  IF k = "away"
                      THEN /\ \A e \in Said(evaluated, k) :
                                 Clear(k, e) \/ SaysAway(e, evaluated.states[e])
                           /\ Said(evaluated, k) # {} => \E e \in Said(evaluated, k) : Clear(k, e)
                      ELSE \A e \in Said(evaluated, k) : Clear(k, e)
    BY DEF PermitsOnlyWhatItSaw
  <2>1. guard(evaluation.snapshot, k) \in {"NOT_CONFIGURED", "SATISFIED"}
    BY AtHand DEF Permits, guards_permit_opening
  <2>2. k \in Inputs \cup Derivations
    BY AdviceAssumption
  <2>3. CASE k = "away"
    <3>1. "away" \in Inputs
      BY DEF Inputs, SharedInputs
    <3>2. Said(evaluated, "away") = Range(Sourced("away"))
      BY <3>1, SaidOfInput
    <3>3. \A e : Clear("away", e) <=> SaysNotAway(e, evaluated.states[e])
      BY DEF SaysClear, Measured, Temperatures, Derivations
    <3> QED
      BY <2>1, <2>3, <3>2, <3>3, AwayClear
  <2>4. CASE k \in GroupInputs
    <3>1. k \in Inputs /\ k # "away" /\ k \notin Measured \cup {"occupancy", "away", "hvac"}
      BY <2>4 DEF Inputs, RoomInputs, GroupInputs, Measured, Temperatures, Derivations
    <3>2. \A e \in Said(evaluated, k) : evaluated.states[e].text = "off"
      BY <2>1, <2>4, <3>1, SaidOfInput, GroupClear
    <3> QED
      BY <3>1, <3>2 DEF SaysClear
  <2>5. CASE k \in Inputs \ GroupInputs /\ k # "away"
    BY <2>1, <2>5, SaidOfInput, SingleClear
  <2>6. CASE k \in Derivations
    <3>1. k # "away" /\ k \in Measured /\ k \notin {"away", "occupancy", "hvac"}
      BY <2>6 DEF Measured, Derivations
    <3>2. \A e \in Said(evaluated, k) : ~IsDark(evaluated.states[e])
      BY <2>1, <2>6, SaidOfDerivation, DerivedClear
    <3> QED
      BY <3>1, <3>2 DEF SaysClear
  <2> QED
    BY <2>2, <2>3, <2>4, <2>5, <2>6
<1> QED
  BY <1>1, HouseAlways, PTL

-----------------------------------------------------------------------------
(* The temperature advantage.                                              *)

\* An input of one entity is read from the one its mapping stores.
LEMMA HeadAtHand ==
    ASSUME HouseInv, NEW k \in Inputs \ MultipleInputs, Sourced(k) # <<>>,
           NEW stored, stored = IF k \in SharedInputs THEN evaluated.shared ELSE evaluated.room
    PROVE  Head(stored[k]) \in Entity /\ Sourced(k) \in Seq(Entity) /\ Sourced(k)[1] = Head(stored[k])
<1>1. /\ Sourced(k) \in Seq(Entity) /\ Range(Sourced(k)) = {Sourced(k)[1]}
      /\ Range(Sourced(k)) = Ids(evaluated.shared, k) \cup Ids(evaluated.room, k)
      /\ k \in SharedInputs => Ids(evaluated.room, k) = {}
      /\ k \in RoomInputs => Ids(evaluated.shared, k) = {}
  BY SourcedAtHand
<1>2. k \in SharedInputs \/ (k \in RoomInputs /\ k \notin SharedInputs)
  BY DEF Inputs
<1>3. Ids(stored, k) = {Sourced(k)[1]}
  <2>1. CASE k \in SharedInputs
    BY <1>1, <2>1
  <2>2. CASE k \in RoomInputs /\ k \notin SharedInputs
    BY <1>1, <2>2
  <2> QED
    BY <1>2, <2>1, <2>2
<1>4. k \in DOMAIN stored
  BY <1>3 DEF Ids
<1>5. stored[k] \in Seq(Entity) /\ stored[k] # <<>> /\ Len(stored[k]) = 1
  <2>1. \A keys : IsStored(stored, keys) =>
           stored[k] \in Seq(Entity) /\ stored[k] # <<>> /\ Len(stored[k]) = 1
    BY <1>4 DEF IsStored
  <2>2. IsStored(stored, SharedInputs) \/ IsStored(stored, RoomInputs)
    BY DEF HouseInv, IsHouse
  <2> QED
    BY <2>1, <2>2
<1> DEFINE list == stored[k]
<1>6. Ids(stored, k) = Range(list) \ {Blank}
  BY <1>4 DEF Ids
<1>7. list \in Seq(Entity) /\ list # <<>> /\ Len(list) = 1
  BY <1>5, Zenon
<1> HIDE DEF list
<1>8. /\ Range(list) \subseteq Entity /\ Range(list) = {list[1]} /\ list[1] = Head(list)
  <2>1. Len(list) =< 1
    BY <1>7
  <2>2. Head(list) = list[1]
    BY <1>7
  <2> QED
    BY <1>7, <2>1, <2>2, EmptyRange
<1>9. Blank \notin Entity
  BY SnapshotAssumption
<1> QED
  BY <1>1, <1>3, <1>6, <1>8, <1>9 DEF list

\* A temperature that is read says its unit, is a temperature there can be,
\* and is what the source measured.
LEMMA TemperatureSays ==
    ASSUME NEW key \in Temperatures, NEW said, Reported(said), NEW e \in Entity,
           _read(key, e, said).reason = None
    PROVE  /\ said[e].unit \in {"C", "F"} /\ said[e].number \in Int
           /\ Celsius(said[e]) > -2459
           /\ _read(key, e, said).value = Convert(Celsius(said[e]), "C", SystemUnit)
<1> DEFINE s == said[e]
           r == _read_temperature(e, s)
           degrees == Convert(r.value, r.unit, SystemUnit)
<1>1. ~IsDark(s)
  BY DarkIsUnread
<1>2. _read(key, e, said) = _in_system_temperature(r)
  <2>1. _read(key, e, said) = ReadAs(key, e, s)
    BY <1>1 DEF _read, IsDark
  <2>2. ReadAs(key, e, s) = _in_system_temperature(r)
    BY DEF ReadAs, Temperatures
  <2> QED
    BY <2>1, <2>2
<1>3. IsStateOf(s, e)
  BY <1>1 DEF Reported
<1>4. r.reason = None => r.value = s.number /\ r.unit = s.unit /\ s.number \in Int
  <2>1. s.number \in Int \cup {NotANumber, None}
    BY <1>3, StateParts DEF IsStateOf
  <2>2. \A reason \in UnusableReason : Refused(reason).reason # None
    BY Placeholders DEF Refused
  <2>3. \/ r = Read(s.number, s.unit) /\ s.number \in Int
        \/ \E reason \in UnusableReason : r = Refused(reason)
    BY <1>3, <2>1 DEF IsStateOf, _read_temperature, _attribute, _as_number, Numeric, UnusableReason
  <2> HIDE DEF r, s
  <2>4. CASE r = Read(s.number, s.unit) /\ s.number \in Int
    BY <2>4 DEF Read
  <2> QED
    BY <2>2, <2>3, <2>4
<1> HIDE DEF r
<1>5. /\ r.reason = None /\ r.unit \in {"C", "F"} /\ ~(degrees =< AbsoluteZero)
      /\ _in_system_temperature(r) = Read(degrees, SystemUnit)
  <2>1. _in_system_temperature(r).reason = None
    BY <1>2
  <2>2. Refused("unconvertible").reason # None
    BY Placeholders DEF Refused, UnusableReason
  <2> QED
    BY <2>1, <2>2 DEF _in_system_temperature
<1>6. s.unit \in {"C", "F"} /\ s.number \in Int /\ r.value = s.number /\ r.unit = s.unit
  BY <1>4, <1>5
<1>7. Celsius(s) \in Int /\ degrees = Convert(Celsius(s), "C", SystemUnit)
  BY <1>6, SnapshotAssumption DEF Celsius, Convert
<1>8. Celsius(s) > -2459
  BY <1>5, <1>7, SnapshotAssumption DEF Convert, AbsoluteZero
<1>9. _read(key, e, said).value = degrees
  BY <1>2, <1>5 DEF Read
<1> QED
  BY <1>6, <1>7, <1>8, <1>9

(* The temperature advantage is what the two sensors measured, less the    *)
(* margin, whatever units they report in and whichever the user reads in,  *)
(* and neither sensor says no unit or an impossible temperature            *)
(* (_in_system_temperature, _temperature_advantage).                       *)
THEOREM AdvantageIsTrue == Spec => []AdvantageIsPhysical
<1>1. HouseInv => AdvantageIsPhysical
  <2> DEFINE observations == evaluation.snapshot.observations
             advantage == observations["temperature_advantage"]
             a == "indoor_temperature"
             b == "outdoor_temperature"
             indoor == evaluated.states[Head(evaluated.room[a])]
             outdoor == evaluated.states[Head(evaluated.shared[b])]
  <2> SUFFICES ASSUME HouseInv, advantage.reason = None
               PROVE  /\ {indoor.unit, outdoor.unit} \subseteq {"C", "F"}
                      /\ Celsius(indoor) > -2459 /\ Celsius(outdoor) > -2459
                      /\ advantage.value + Margin = Celsius(indoor) - Celsius(outdoor)
    BY DEF AdvantageIsPhysical
  <2>1. /\ a \in RoomInputs /\ a \notin SharedInputs /\ b \in SharedInputs
        /\ {a, b} \subseteq Inputs \ GroupInputs /\ {a, b} \subseteq Inputs \ MultipleInputs
        /\ {a, b} \subseteq Temperatures /\ Kind(a) = Int /\ Kind(b) = Int
    BY DEF Inputs, SharedInputs, RoomInputs, GroupInputs, MultipleInputs, Temperatures, Kind, Measured
  <2>2. /\ IsObservation(observations[a], Int) /\ IsObservation(observations[b], Int)
        /\ advantage = _derive("temperature_advantage", observations)
    BY <2>1, ReadingsAtHand DEF Derivations
  <2>3. Sources("temperature_advantage") = <<a, b>>
    BY DEF Sources
  <2> HIDE DEF observations
  <2>4. observations[a].reason = None /\ observations[b].reason = None
    BY <2>2, <2>3, DerivedIsObservation DEF Derivations
  <2>5. advantage.value = observations[a].value - observations[b].value - Margin
    BY <2>2, <2>3, <2>4 DEF _derive, _temperature_advantage, Observed, Read
  <2>6. Reported(evaluated.states)
    BY HouseCanBeRead DEF HouseInv
  <2>7. ASSUME NEW k \in {a, b}, NEW stored,
               stored = IF k \in SharedInputs THEN evaluated.shared ELSE evaluated.room
        PROVE  LET s == evaluated.states[Head(stored[k])]
               IN  /\ s.unit \in {"C", "F"} /\ s.number \in Int /\ Celsius(s) > -2459
                   /\ observations[k].value = Convert(Celsius(s), "C", SystemUnit)
    <3>1. observations[k] = _build_value(k, Sourced(k), evaluated.states)
      BY <2>1, InputsAtHand DEF observations
    <3>2. observations[k].reason = None
      BY <2>4
    <3>3. Sourced(k) # <<>>
      BY <3>1, <3>2, Placeholders DEF _build_value, Observed, Refused
    <3>4. Head(stored[k]) \in Entity /\ Sourced(k) \in Seq(Entity) /\ Sourced(k)[1] = Head(stored[k])
      BY <2>1, <2>7, <3>3, HeadAtHand
    <3> DEFINE e == Head(stored[k])
               r == _read(k, e, evaluated.states)
    <3>5. observations[k].reason = r.reason /\ observations[k].value = r.value
      <4>1. k # "away"
        OBVIOUS
      <4> QED
        BY <2>1, <3>1, <3>3, <3>4, <4>1, ValueSays
    <3>6. r.reason = None /\ k \in Temperatures /\ e \in Entity
      BY <2>1, <3>2, <3>4, <3>5
    <3> QED
      BY <2>6, <3>5, <3>6, TemperatureSays
  <2>8. /\ indoor.unit \in {"C", "F"} /\ indoor.number \in Int /\ Celsius(indoor) > -2459
        /\ observations[a].value = Convert(Celsius(indoor), "C", SystemUnit)
    <3>1. evaluated.room = IF a \in SharedInputs THEN evaluated.shared ELSE evaluated.room
      BY <2>1
    <3> HIDE DEF a, b
    <3> QED
      BY <2>7, <3>1
  <2>9. /\ outdoor.unit \in {"C", "F"} /\ outdoor.number \in Int /\ Celsius(outdoor) > -2459
        /\ observations[b].value = Convert(Celsius(outdoor), "C", SystemUnit)
    <3>1. evaluated.shared = IF b \in SharedInputs THEN evaluated.shared ELSE evaluated.room
      BY <2>1
    <3> HIDE DEF a, b
    <3> QED
      BY <2>7, <3>1
  <2> HIDE DEF indoor, outdoor, advantage
  <2>10. Celsius(indoor) \in Int /\ Celsius(outdoor) \in Int
    BY <2>8, <2>9 DEF Celsius
  <2>11. Margin \in Int /\ SystemUnit \in {"C", "F"}
    BY SnapshotAssumption
  <2> QED
    BY <2>5, <2>8, <2>9, <2>10, <2>11 DEF Convert
<1> QED
  BY <1>1, HouseAlways, PTL

-----------------------------------------------------------------------------
(* Vacancy.                                                                *)

\* The sensor of a room's occupancy is the one entity stored for it.
LEMMA OccupancySensor ==
    ASSUME NEW said, NEW ofHouse, NEW ofRoom, IsHouse(said, ofHouse, ofRoom)
    PROVE  LET list == Configured(ofHouse, ofRoom, "occupancy")
           IN  /\ list \in Seq(Entity)
               /\ list = <<>> <=> "occupancy" \notin DOMAIN ofRoom
               /\ "occupancy" \in DOMAIN ofRoom => list[1] = ofRoom["occupancy"][1]
<1> DEFINE list == Configured(ofHouse, ofRoom, "occupancy")
           stored == ofRoom["occupancy"]
<1>1. /\ "occupancy" \in Inputs /\ "occupancy" \in RoomInputs
      /\ "occupancy" \notin SharedInputs /\ "occupancy" \notin MultipleInputs
  BY DEF Inputs, RoomInputs, SharedInputs, MultipleInputs, GroupInputs
<1>2. /\ list \in Seq(Entity)
      /\ Range(list) = {} <=> list = <<>>
      /\ list # <<>> => list[1] \in Range(list)
      /\ Range(list) = Ids(ofRoom, "occupancy")
  <2>1. /\ list \in Seq(Entity)
        /\ Range(list) = {} <=> list = <<>>
        /\ list # <<>> => list[1] \in Range(list)
        /\ Range(list) = Ids(ofHouse, "occupancy") \cup Ids(ofRoom, "occupancy")
        /\ Ids(ofHouse, "occupancy") = {}
    BY <1>1, IdsConfigured
  <2> QED
    BY <2>1
<1>3. CASE "occupancy" \notin DOMAIN ofRoom
  BY <1>2, <1>3 DEF Ids
<1>4. CASE "occupancy" \in DOMAIN ofRoom
  <2>1. /\ stored \in Seq(Entity) /\ stored # <<>> /\ Len(stored) = 1
    BY <1>1, <1>4 DEF IsHouse, IsStored
  <2>2. Range(stored) = {stored[1]} /\ stored[1] \in Entity
    <3>1. Len(stored) =< 1
      BY <2>1
    <3> HIDE DEF stored
    <3>2. /\ Range(stored) \subseteq Entity /\ Range(stored) = {stored[1]}
          /\ stored[1] \in Range(stored)
      BY <2>1, <3>1, EmptyRange
    <3> QED
      BY <3>2
  <2>3. Blank \notin Entity
    BY SnapshotAssumption
  <2>4. Range(list) = {stored[1]}
    BY <1>2, <1>4, <2>2, <2>3 DEF Ids
  <2> HIDE DEF list, stored
  <2>5. list # <<>> /\ list[1] = stored[1]
    BY <1>2, <2>4
  <2> QED
    BY <1>2, <1>4, <2>5 DEF list, stored
<1> QED
  BY <1>3, <1>4

\* One evaluation's reading of a room's vacancy, and what it remembers.
LEMMA VacancyRead ==
    ASSUME NEW said, NEW ofHouse, NEW ofRoom, IsHouse(said, ofHouse, ofRoom),
           NEW s \in Nat \cup {None}, NEW t \in Nat
    PROVE  LET snapshot == Snapshot(said, ofHouse, ofRoom, s, t)
               o == snapshot.observations["unoccupied_for"]
               sensor == ofRoom["occupancy"][1]
           IN  /\ "occupancy" \notin DOMAIN ofRoom => o.reason = "not_configured"
               /\ "occupancy" \in DOMAIN ofRoom =>
                     /\ o.source = sensor
                     /\ SaysEmpty(sensor, said[sensor]) => o.value = t - Since("empty", s, t)
                     /\ SaysOccupied(sensor, said[sensor]) => o.value = 0
                     /\ \/ SaysEmpty(sensor, said[sensor])
                        \/ SaysOccupied(sensor, said[sensor])
                        \/ o.reason \notin {None, "not_configured"}
               /\ snapshot.since = IF RoomEmpty(said, ofRoom) THEN Since("empty", s, t) ELSE None
<1> DEFINE snapshot == Snapshot(said, ofHouse, ofRoom, s, t)
           o == snapshot.observations["unoccupied_for"]
           sensor == ofRoom["occupancy"][1]
           list == Configured(ofHouse, ofRoom, "occupancy")
           occupancy == _build_value("occupancy", list, said)
<1>1. /\ "occupancy" \in Inputs \ GroupInputs /\ Kind("occupancy") = BOOLEAN
      /\ "occupancy" # "away"
  BY DEF Inputs, RoomInputs, GroupInputs, Kind, Measured, Temperatures, Derivations
<1>2. Reported(said)
  BY HouseCanBeRead
<1>3. /\ list \in Seq(Entity)
      /\ list = <<>> <=> "occupancy" \notin DOMAIN ofRoom
      /\ "occupancy" \in DOMAIN ofRoom => list[1] = sensor
  BY OccupancySensor
<1>4. build_observations(said, ofHouse, ofRoom).observations["occupancy"] = occupancy
  BY <1>1 DEF build_observations
<1>5. /\ o = _vacancy(occupancy, s, t)
      /\ snapshot.since = Memory(Occupied(occupancy), s, t)
  <2>1. o = _vacancy(build_observations(said, ofHouse, ofRoom).observations["occupancy"], s, t)
    BY SnapshotKeys
  <2>2. snapshot.since =
           Memory(Occupied(build_observations(said, ofHouse, ofRoom).observations["occupancy"]), s, t)
    BY DEF Snapshot, derive_observations
  <2> QED
    BY <1>4, <2>1, <2>2
<1> HIDE DEF snapshot, list
<1>6. /\ IsObservation(occupancy, BOOLEAN)
      /\ occupancy.reason = "not_configured" <=> list = <<>>
  BY <1>1, <1>2, <1>3, ValueIsObservation
<1> HIDE DEF o, occupancy
<1>7. /\ o.source = occupancy.source /\ o.reason = occupancy.reason
      /\ occupancy.reason = None => o.value = t - Since(Occupied(occupancy), s, t)
  BY <1>5, <1>6, VacancyIsObservation
<1>8. Occupied(occupancy) = IF occupancy.reason # None THEN occupancy.reason
                            ELSE IF occupancy.value THEN "occupied" ELSE "empty"
  BY DEF Occupied
<1>9. CASE "occupancy" \notin DOMAIN ofRoom
  <2>1. occupancy.reason = "not_configured"
    BY <1>3, <1>6, <1>9
  <2>2. snapshot.since = None
    BY <1>5, <1>8, <2>1, Placeholders DEF Memory
  <2>3. ~RoomEmpty(said, ofRoom)
    BY <1>9 DEF RoomEmpty
  <2> QED
    BY <1>7, <1>9, <2>1, <2>2, <2>3 DEF o, snapshot
<1>10. CASE "occupancy" \in DOMAIN ofRoom
  <2> DEFINE r == _read("occupancy", sensor, said)
  <2>1. list # <<>> /\ list[1] = sensor
    BY <1>3, <1>10
  <2>2. occupancy.reason = r.reason /\ occupancy.value = r.value /\ occupancy.source = sensor
    BY <1>1, <1>3, <2>1, ValueSays DEF occupancy
  <2>3. /\ (r.reason = None /\ r.value) <=> SaysOccupied(sensor, said[sensor])
        /\ (r.reason = None /\ ~r.value) <=> SaysEmpty(sensor, said[sensor])
    BY OccupancySays
  <2>4. RoomEmpty(said, ofRoom) <=> SaysEmpty(sensor, said[sensor])
    BY <1>10 DEF RoomEmpty
  <2> HIDE DEF r, sensor
  <2>5. occupancy.reason # "not_configured"
    BY <1>6, <2>1
  <2>6. CASE SaysEmpty(sensor, said[sensor])
    <3>1. occupancy.reason = None /\ Occupied(occupancy) = "empty"
      BY <1>8, <2>2, <2>3, <2>6
    <3>2. /\ snapshot.since = Since("empty", s, t)
          /\ o.value = t - Since("empty", s, t)
      BY <1>5, <1>7, <3>1 DEF Memory
    <3>3. ~SaysOccupied(sensor, said[sensor])
      BY <2>3, <2>6
    <3> QED
      BY <1>7, <1>10, <2>2, <2>4, <2>6, <3>2, <3>3 DEF o, snapshot, sensor
  <2>7. CASE SaysOccupied(sensor, said[sensor])
    <3>1. occupancy.reason = None /\ Occupied(occupancy) = "occupied"
      BY <1>8, <2>2, <2>3, <2>7
    <3>2. snapshot.since = None
      BY <1>5, <3>1 DEF Memory
    <3>3. o.value = 0
      BY <1>7, <3>1 DEF Since
    <3>4. ~SaysEmpty(sensor, said[sensor])
      BY <2>3, <2>7
    <3> QED
      BY <1>7, <1>10, <2>2, <2>4, <2>7, <3>2, <3>3, <3>4 DEF o, snapshot, sensor
  <2>8. CASE ~SaysEmpty(sensor, said[sensor]) /\ ~SaysOccupied(sensor, said[sensor])
    <3>1. occupancy.reason # None
      BY <2>2, <2>3, <2>8
    <3>2. Occupied(occupancy) # "empty"
      <4>1. occupancy.reason \in UnusableReason
        BY <1>6, <3>1 DEF IsObservation
      <4> QED
        BY <1>8, <3>1, <4>1 DEF UnusableReason
    <3>3. snapshot.since = None
      BY <1>5, <3>2 DEF Memory
    <3> QED
      BY <1>7, <1>10, <2>2, <2>4, <2>5, <2>8, <3>1, <3>3 DEF o, snapshot, sensor
  <2> QED
    BY <2>6, <2>7, <2>8
<1> QED
  BY <1>9, <1>10

\* What is remembered of a room is since when it has been watched empty.
WatchInv ==
    /\ evaluated.at \in 0 .. now /\ evaluated.watched \in 0 .. evaluated.at
    /\ since = IF RoomEmpty(evaluated.states, evaluated.room)
               THEN evaluated.at - evaluated.watched ELSE None
    /\ VacancyIsWhatWasWatched

LEMMA VacancyAtInit == Init => WatchInv
<1> SUFFICES ASSUME Init PROVE WatchInv
  OBVIOUS
<1>1. IsHouse(states, shared, room)
  BY HouseInit DEF HouseInv
<1>2. /\ evaluated.states = states /\ evaluated.shared = shared /\ evaluated.room = room
      /\ evaluated.at = 0 /\ evaluated.watched = 0 /\ now = 0 /\ since = None
      /\ "occupancy" \notin DOMAIN room
  BY DEF Init, NoInputs
<1>3. ~RoomEmpty(evaluated.states, evaluated.room)
  BY <1>2 DEF RoomEmpty
<1>4. evaluation.snapshot.observations["unoccupied_for"].reason = "not_configured"
  <2> DEFINE snapshot == Snapshot(states, shared, room, since, now)
  <2>1. since \in Nat \cup {None} /\ now \in Nat
    BY <1>2
  <2>2. Evaluation(states, shared, room, since, now).snapshot = snapshot
    BY <1>1, <2>1, Evaluated
  <2>3. evaluation.snapshot = snapshot
    BY <2>2 DEF Init
  <2>4. snapshot.observations["unoccupied_for"].reason = "not_configured"
    BY <1>1, <1>2, <2>1, VacancyRead
  <2> QED
    BY <2>3, <2>4
<1> QED
  BY <1>2, <1>3, <1>4 DEF WatchInv, VacancyIsWhatWasWatched

LEMMA VacancyStep == HouseInv /\ WatchInv /\ [Next]_vars => WatchInv'
<1> SUFFICES ASSUME HouseInv, WatchInv, [Next]_vars PROVE WatchInv'
  OBVIOUS
<1>1. CASE UNCHANGED <<since, evaluated, evaluation>> /\ now' \in Nat /\ now =< now'
  <2>1. now \in Nat
    BY DEF HouseInv
  <2>2. evaluated.at \in 0 .. now'
    BY <1>1, <2>1 DEF WatchInv
  <2> QED
    BY <1>1, <2>2 DEF WatchInv, VacancyIsWhatWasWatched
<1>2. CASE Evaluate
  <2> DEFINE snapshot == Snapshot(states, shared, room, since, now)
             o == snapshot.observations["unoccupied_for"]
             sensor == room["occupancy"][1]
             empty == RoomEmpty(states, room)
             before == RoomEmpty(evaluated.states, evaluated.room)
             watched == IF empty /\ before THEN evaluated.watched + (now - evaluated.at) ELSE 0
  <2>1. /\ evaluated'.states = states /\ evaluated'.room = room
        /\ evaluation'.snapshot = snapshot
        /\ since' = evaluation'.snapshot.since
        /\ since \in Nat \cup {None} /\ now \in Nat
    BY <1>2, EvaluateStep
  <2>2. evaluated'.at = now /\ evaluated'.watched = watched /\ now' = now
    BY <1>2 DEF Evaluate
  <2>3. IsHouse(states, shared, room)
    BY DEF HouseInv
  <2>4. /\ "occupancy" \notin DOMAIN room => o.reason = "not_configured"
        /\ "occupancy" \in DOMAIN room =>
              /\ o.source = sensor
              /\ SaysEmpty(sensor, states[sensor]) => o.value = now - Since("empty", since, now)
              /\ SaysOccupied(sensor, states[sensor]) => o.value = 0
              /\ \/ SaysEmpty(sensor, states[sensor])
                 \/ SaysOccupied(sensor, states[sensor])
                 \/ o.reason \notin {None, "not_configured"}
        /\ snapshot.since = IF empty THEN Since("empty", since, now) ELSE None
    BY <2>1, <2>3, VacancyRead
  <2>5. empty <=> "occupancy" \in DOMAIN room /\ SaysEmpty(sensor, states[sensor])
    BY DEF RoomEmpty
  <2>6. /\ evaluated.at \in 0 .. now /\ evaluated.watched \in 0 .. evaluated.at
        /\ since = IF before THEN evaluated.at - evaluated.watched ELSE None
    BY DEF WatchInv
  <2> HIDE DEF snapshot, o, sensor, empty, before
  <2>7. empty => Since("empty", since, now) = now - watched
    <3>1. CASE before
      <4>1. since \in Nat /\ since =< now /\ since # None
        BY <2>1, <2>6, <3>1, Placeholders
      <4>2. Since("empty", since, now) = since
        BY <2>1, <4>1 DEF Since
      <4> QED
        BY <2>1, <2>6, <3>1, <4>2
    <3>2. CASE ~before
      BY <2>1, <2>6, <3>2 DEF Since
    <3> QED
      BY <3>1, <3>2
  <2>8. watched \in 0 .. now
    BY <2>1, <2>6
  <2> HIDE DEF watched
  <2>9. since' = IF RoomEmpty(evaluated'.states, evaluated'.room)
                 THEN evaluated'.at - evaluated'.watched ELSE None
    BY <2>1, <2>2, <2>4, <2>7 DEF empty
  <2>10. now - (now - watched) = watched
    BY <2>1, <2>8
  <2>11. VacancyIsWhatWasWatched'
    <3>1. evaluation'.snapshot.observations["unoccupied_for"] = o
      BY <2>1 DEF o
    <3>2. CASE "occupancy" \notin DOMAIN room
      BY <2>1, <2>4, <3>1, <3>2 DEF VacancyIsWhatWasWatched, RoomEmpty
    <3>3. CASE "occupancy" \in DOMAIN room
      BY <2>1, <2>2, <2>4, <2>5, <2>7, <2>10, <3>1, <3>3
         DEF VacancyIsWhatWasWatched, sensor, empty
    <3> QED
      BY <3>2, <3>3
  <2> QED
    BY <2>1, <2>2, <2>8, <2>9, <2>11 DEF WatchInv
<1>3. CASE ~Evaluate
  <2>1. \/ \E e \in Entity : \E s \in Reports[e] : Report(e, s)
        \/ \E form \in SharedForms : SubmitShared(form)
        \/ \E form \in RoomForms : SubmitRoom(form)
        \/ Tick
        \/ UNCHANGED vars
    BY <1>3 DEF Next
  <2>2. UNCHANGED <<since, evaluated, evaluation>> /\ (now' = now \/ now' = now + 1)
    BY <2>1 DEF Report, SubmitShared, SubmitRoom, Tick, vars, setting, results
  <2>3. now \in Nat
    BY DEF HouseInv
  <2> QED
    BY <1>1, <2>2, <2>3
<1> QED
  BY <1>2, <1>3

(* A room has been empty for as long as it was watched being empty, by     *)
(* every evaluation since the first of them: the reading is 0 while the    *)
(* sensor says otherwise, and cannot be had exactly when the sensor says   *)
(* neither, for which the sensor is named (_vacancy).                      *)
THEOREM EmptyWhileWatched == Spec => []VacancyIsWhatWasWatched
<1>1. WatchInv => VacancyIsWhatWasWatched
  BY DEF WatchInv
<1> QED
  BY <1>1, VacancyAtInit, VacancyStep, HouseAlways, PTL DEF Spec

=============================================================================
