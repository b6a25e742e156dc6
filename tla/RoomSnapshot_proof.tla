------------------------- MODULE RoomSnapshot_proof -------------------------
(***************************************************************************)
(* Facts about one evaluation, for any entities, states and stored inputs. *)
(***************************************************************************)
EXTENDS RoomSnapshot, SequenceTheorems, FiniteSetTheorems, TLAPS

USE SnapshotAssumption

-----------------------------------------------------------------------------
(* Lists.                                                                  *)

LEMMA Least ==
    ASSUME NEW S \in SUBSET Nat, S # {}
    PROVE  \E m \in S : \A k \in S : m =< k
<1>1. \E m \in S : \A k \in S : <<k, m>> \notin OpToRel(<, Nat)
  BY NatLessThanWellFounded, WFMin
<1>2. PICK m \in S : \A k \in S : <<k, m>> \notin OpToRel(<, Nat)
  BY <1>1
<1>3. ASSUME NEW k \in S PROVE m =< k
  <2>1. k \in Nat /\ m \in Nat
    OBVIOUS
  <2>2. ~(k < m)
    BY <1>2, <2>1 DEF OpToRel
  <2> QED
    BY <2>1, <2>2
<1> QED
  BY <1>3

\* Of a finite set of numbers, each has a rank of its own, every rank is some
\* number's, and a later number ranks later.
LEMMA Ranking ==
    ASSUME NEW S \in SUBSET Nat, IsFiniteSet(S)
    PROVE  LET rank(i) == Cardinality({j \in S : j =< i})
           IN  /\ Cardinality(S) \in Nat
               /\ \A i \in S : rank(i) \in 1 .. Cardinality(S)
               /\ \A n \in 1 .. Cardinality(S) : \E i \in S : rank(i) = n
               /\ \A i, k \in S : rank(i) = rank(k) => i = k
               /\ \A i, k \in S : rank(i) < rank(k) => i < k
<1> DEFINE upto(i) == {j \in S : j =< i}
           rank(i) == Cardinality(upto(i))
           N == Cardinality(S)
<1>1. N \in Nat
  BY FS_CardinalityType
<1>2. ASSUME NEW i \in S
      PROVE  /\ IsFiniteSet(upto(i)) /\ rank(i) \in 1 .. N
  <2>1. upto(i) \in SUBSET S
    OBVIOUS
  <2>2. IsFiniteSet(upto(i)) /\ rank(i) =< N
    BY <2>1, FS_Subset
  <2>3. i \in upto(i)
    OBVIOUS
  <2>4. rank(i) \in Nat /\ rank(i) # 0
    BY <2>2, <2>3, FS_CardinalityType, FS_EmptySet
  <2> QED
    BY <1>1, <2>2, <2>4
<1>3. ASSUME NEW i \in S, NEW k \in S, i < k PROVE rank(i) < rank(k)
  <2>1. upto(i) \in SUBSET upto(k) /\ k \in upto(k) /\ k \notin upto(i)
    <3>1. i \in Nat /\ k \in Nat
      OBVIOUS
    <3>2. \A j \in S : j \in Nat /\ (j =< i => j =< k)
      BY <1>3, <3>1
    <3>3. k =< k /\ ~(k =< i)
      BY <1>3, <3>1
    <3> QED
      BY <3>2, <3>3
  <2>2. rank(i) =< rank(k) /\ (rank(k) = rank(i) => upto(k) = upto(i))
    BY <1>2, <2>1, FS_Subset
  <2>3. rank(i) \in Nat /\ rank(k) \in Nat /\ rank(i) # rank(k)
    BY <1>1, <1>2, <2>1, <2>2
  <2> QED
    BY <2>2, <2>3
<1>4. \A i, k \in S : rank(i) = rank(k) => i = k
  <2> SUFFICES ASSUME NEW i \in S, NEW k \in S, i # k PROVE rank(i) # rank(k)
    OBVIOUS
  <2>1. i < k \/ k < i
    OBVIOUS
  <2>2. rank(i) \in Nat /\ rank(k) \in Nat
    BY <1>1, <1>2
  <2>3. rank(i) < rank(k) \/ rank(k) < rank(i)
    BY <1>3, <2>1
  <2> QED
    BY <2>2, <2>3
<1>l. \A i, k \in S : rank(i) < rank(k) => i < k
  <2> SUFFICES ASSUME NEW i \in S, NEW k \in S, ~(i < k) PROVE ~(rank(i) < rank(k))
    OBVIOUS
  <2>1. rank(i) \in Nat /\ rank(k) \in Nat
    BY <1>1, <1>2
  <2>2. CASE k < i
    BY <1>3, <2>1, <2>2
  <2>3. CASE ~(k < i)
    <3>1. i = k
      BY <2>3
    <3> QED
      BY <2>1, <3>1
  <2> QED
    BY <2>2, <2>3
<1> DEFINE ranks == [i \in S |-> rank(i)]
<1>5. ranks \in Injection(S, 1 .. N)
  BY <1>2, <1>4 DEF Injection, IsInjective
<1>6. IsFiniteSet(1 .. N) /\ Cardinality(1 .. N) = N
  BY <1>1, FS_Interval
<1>7. ranks \in Surjection(S, 1 .. N)
  BY <1>5, <1>6, FS_Injection
<1>8. \A n \in 1 .. N : \E i \in S : rank(i) = n
  BY <1>7 DEF Surjection
<1> QED
  BY <1>1, <1>2, <1>4, <1>8, <1>l

\* _unique keeps every entity once, and nothing else.
LEMMA Unique ==
    ASSUME NEW entries \in Seq(Entity \cup {Blank})
    PROVE  /\ _unique(entries) \in Seq(Entity)
           /\ IsInjective(_unique(entries))
           /\ Range(_unique(entries)) = Range(entries) \ {Blank}
           /\ Len(_unique(entries)) =< Len(entries)
<1> DEFINE first == {i \in DOMAIN entries :
                        entries[i] # Blank /\ \A j \in 1 .. i - 1 : entries[j] # entries[i]}
           N == Cardinality(first)
           rank(i) == Cardinality({j \in first : j =< i})
           at(n) == CHOOSE i \in first : rank(i) = n
           u == _unique(entries)
<1>1. /\ Len(entries) \in Nat /\ DOMAIN entries = 1 .. Len(entries)
      /\ \A i \in DOMAIN entries : entries[i] \in Entity \cup {Blank}
  BY LenProperties, ElementOfSeq
<1>2. first \in SUBSET Nat /\ first \subseteq 1 .. Len(entries)
  BY <1>1
<1>3. IsFiniteSet(first) /\ N =< Len(entries)
  <2>1. IsFiniteSet(1 .. Len(entries)) /\ Cardinality(1 .. Len(entries)) = Len(entries)
    BY <1>1, FS_Interval
  <2> HIDE DEF first
  <2>2. first \in SUBSET (1 .. Len(entries))
    BY <1>2
  <2>3. IsFiniteSet(first) /\ Cardinality(first) =< Cardinality(1 .. Len(entries))
    BY <2>1, <2>2, FS_Subset
  <2> QED
    BY <2>1, <2>3
<1>4. /\ N \in Nat
      /\ \A i \in first : rank(i) \in 1 .. N
      /\ \A n \in 1 .. N : \E i \in first : rank(i) = n
      /\ \A i, k \in first : rank(i) = rank(k) => i = k
  BY <1>2, <1>3, Ranking
<1>5. u = [n \in 1 .. N |-> entries[at(n)]]
  BY DEF _unique
<1>6. \A i \in first : entries[i] \in Entity
  BY <1>1
<1>7. \A i, k \in first : entries[i] = entries[k] => i = k
  <2> SUFFICES ASSUME NEW i \in first, NEW k \in first, entries[i] = entries[k], i < k
               PROVE  FALSE
    BY <1>2
  <2>1. i \in 1 .. k - 1
    BY <1>2
  <2> QED
    BY <2>1
<1>8. \A x \in Range(entries) \ {Blank} : \E i \in first : entries[i] = x
  <2> SUFFICES ASSUME NEW x \in Range(entries) \ {Blank} PROVE \E i \in first : entries[i] = x
    OBVIOUS
  <2> DEFINE S == {i \in DOMAIN entries : entries[i] = x}
  <2>1. S \in SUBSET Nat /\ S # {}
    BY <1>1 DEF Range
  <2>2. PICK m \in S : \A k \in S : m =< k
    BY <2>1, Least
  <2>3. \A j \in 1 .. m - 1 : j \in DOMAIN entries /\ j \notin S
    BY <1>1, <2>1, <2>2
  <2> QED
    BY <2>2, <2>3
<1> HIDE DEF first, u
<1>9. \A n \in 1 .. N : at(n) \in first /\ rank(at(n)) = n
  BY <1>4
<1> HIDE DEF rank, at
<1>10. /\ DOMAIN u = 1 .. N
       /\ \A n \in 1 .. N : u[n] = entries[at(n)] /\ u[n] \in Entity
  BY <1>5, <1>6, <1>9
<1>11. u \in Seq(Entity) /\ Len(u) = N
  BY <1>4, <1>5, <1>10
<1>12. IsInjective(u)
  <2> SUFFICES ASSUME NEW m \in 1 .. N, NEW n \in 1 .. N, u[m] = u[n] PROVE m = n
    BY <1>10 DEF IsInjective
  <2>1. at(m) = at(n)
    BY <1>7, <1>9, <1>10
  <2> QED
    BY <1>9, <2>1
<1>13. Range(u) = Range(entries) \ {Blank}
  <2>1. \A i \in first : i \in DOMAIN entries /\ entries[i] # Blank
    BY DEF first
  <2>2. Range(u) \subseteq Range(entries) \ {Blank}
    BY <1>9, <1>10, <2>1 DEF Range
  <2>3. ASSUME NEW x \in Range(entries) \ {Blank} PROVE x \in Range(u)
    <3>1. PICK i \in first : entries[i] = x
      BY <1>8
    <3>2. rank(i) \in 1 .. N
      BY <1>4, <3>1
    <3>3. at(rank(i)) = i
      BY <1>4, <1>9, <3>2
    <3>4. u[rank(i)] = x
      BY <1>10, <3>1, <3>2, <3>3
    <3> QED
      BY <1>10, <3>2, <3>4 DEF Range
  <2> QED
    BY <2>2, <2>3
<1> QED
  BY <1>3, <1>11, <1>12, <1>13 DEF u

(* What was picked is stored in the order the user chose: of two entities  *)
(* that are kept, the one that was first picked earlier comes first        *)
(* (_unique, as clean_inputs promises).                                    *)
THEOREM UniqueInOrder ==
    ASSUME NEW entries \in Seq(Entity \cup {Blank}),
           NEW m \in DOMAIN _unique(entries), NEW n \in DOMAIN _unique(entries), m < n
    PROVE  \E i, k \in DOMAIN entries :
              /\ i < k
              /\ entries[i] = _unique(entries)[m] /\ entries[k] = _unique(entries)[n]
              /\ \A j \in 1 .. i - 1 : entries[j] # entries[i]
              /\ \A j \in 1 .. k - 1 : entries[j] # entries[k]
<1> DEFINE first == {i \in DOMAIN entries :
                        entries[i] # Blank /\ \A j \in 1 .. i - 1 : entries[j] # entries[i]}
           N == Cardinality(first)
           rank(i) == Cardinality({j \in first : j =< i})
           at(x) == CHOOSE i \in first : rank(i) = x
           u == _unique(entries)
<1>1. Len(entries) \in Nat /\ DOMAIN entries = 1 .. Len(entries)
  BY LenProperties
<1>2. first \in SUBSET (1 .. Len(entries)) /\ first \in SUBSET Nat
  BY <1>1
<1>3. \A i \in first : i \in DOMAIN entries /\ \A j \in 1 .. i - 1 : entries[j] # entries[i]
  OBVIOUS
<1>4. u = [x \in 1 .. N |-> entries[at(x)]]
  BY DEF _unique
<1> HIDE DEF first, u
<1>5. IsFiniteSet(first)
  <2>1. IsFiniteSet(1 .. Len(entries))
    BY <1>1, FS_Interval
  <2> QED
    BY <1>2, <2>1, FS_Subset
<1>6. /\ \A x \in 1 .. N : \E i \in first : rank(i) = x
      /\ \A i, k \in first : rank(i) < rank(k) => i < k
  BY <1>2, <1>5, Ranking
<1>7. m \in 1 .. N /\ n \in 1 .. N
  BY <1>4 DEF u
<1>8. at(m) \in first /\ rank(at(m)) = m /\ at(n) \in first /\ rank(at(n)) = n
  BY <1>6, <1>7
<1>9. u[m] = entries[at(m)] /\ u[n] = entries[at(n)]
  BY <1>4, <1>7
<1> HIDE DEF rank, at
<1>10. at(m) < at(n)
  BY <1>6, <1>8
<1> QED
  BY <1>3, <1>8, <1>9, <1>10 DEF u

\* A list of different entities is left as it is.
LEMMA UniqueKept ==
    ASSUME NEW entries \in Seq(Entity), IsInjective(entries)
    PROVE  _unique(entries) = entries
<1> DEFINE first == {i \in DOMAIN entries :
                        entries[i] # Blank /\ \A j \in 1 .. i - 1 : entries[j] # entries[i]}
           rank(i) == Cardinality({j \in first : j =< i})
           at(x) == CHOOSE i \in first : rank(i) = x
           L == Len(entries)
<1>1. L \in Nat /\ DOMAIN entries = 1 .. L /\ \A i \in 1 .. L : entries[i] \in Entity
  BY LenProperties, ElementOfSeq
<1>2. Blank \notin Entity
  BY SnapshotAssumption
<1>3. \A i \in 1 .. L : \A j \in 1 .. i - 1 : j \in 1 .. L /\ j # i
  BY <1>1
<1>4. first = 1 .. L
  BY <1>1, <1>2, <1>3 DEF IsInjective
<1>5. _unique(entries) = [x \in 1 .. Cardinality(first) |-> entries[at(x)]]
  BY DEF _unique
<1> HIDE DEF first
<1>6. \A i \in 1 .. L : rank(i) = i
  <2> SUFFICES ASSUME NEW i \in 1 .. L PROVE rank(i) = i
    OBVIOUS
  <2>1. {j \in first : j =< i} = 1 .. i
    BY <1>1, <1>4
  <2>2. rank(i) = Cardinality(1 .. i)
    BY <2>1
  <2>3. 1 \in Int /\ i \in Nat /\ i >= 1
    BY <1>1
  <2>4. Cardinality(1 .. i) = i
    <3> HIDE DEF rank
    <3>1. Cardinality(1 .. i) = i - 1 + 1
      BY <2>3, FS_Interval
    <3> QED
      BY <2>3, <3>1
  <2> QED
    BY <2>2, <2>4
<1> HIDE DEF rank
<1>7. \A x \in 1 .. L : at(x) = x
  BY <1>4, <1>6
<1>8. Cardinality(first) = L
  BY <1>1, <1>4, FS_Interval
<1>9. _unique(entries) = [x \in 1 .. L |-> entries[x]]
  BY <1>5, <1>7, <1>8
<1> QED
  BY <1>1, <1>9

\* An input's entities are what is stored of it.
LEMMA EntityIds ==
    ASSUME NEW stored, NEW key, key \in DOMAIN stored => stored[key] \in Seq(Entity)
    PROVE  /\ entity_ids(stored, key) \in Seq(Entity)
           /\ IsInjective(entity_ids(stored, key))
           /\ Range(entity_ids(stored, key)) =
                 IF key \in DOMAIN stored THEN Range(stored[key]) \ {Blank} ELSE {}
           /\ key \in DOMAIN stored => Len(entity_ids(stored, key)) =< Len(stored[key])
<1>1. CASE key \in DOMAIN stored
  <2>1. stored[key] \in Seq(Entity \cup {Blank})
    BY <1>1, SeqMonotonic
  <2> QED
    BY <1>1, <2>1, Unique DEF entity_ids
<1>2. CASE key \notin DOMAIN stored
  BY <1>2 DEF entity_ids, IsInjective, Range
<1> QED
  BY <1>1, <1>2

-----------------------------------------------------------------------------
(* Readings: a value of the input's kind, or a reason there is none.       *)

Reasons == UnusableReason \ {"not_configured"}

Kind(key) == IF key \in Measured THEN Int ELSE BOOLEAN

IsReading(r, kind) ==
    \/ r.reason = None /\ r.value \in kind
    \/ r.reason \in Reasons /\ r.value = None

\* A state as an entity of the domain may have.
IsStateOf(s, e) == s \in State /\ (domain[e] # "weather" => s.number # None)

LEMMA StateParts ==
    ASSUME NEW s \in State
    PROVE  /\ s.text \in STRING /\ s.number \in Int \cup {NotANumber, None}
           /\ s.humidity \in Int \cup {NotANumber, None}
BY DEF State

LEMMA Placeholders ==
    /\ None \notin Int /\ None \notin BOOLEAN /\ None \notin UnusableReason
    /\ Raised \notin Int /\ Raised \notin BOOLEAN /\ Raised # None
    /\ None \notin Reasons /\ None # "not_configured" /\ "not_configured" \notin Reasons
BY DEF Reasons, UnusableReason

LEMMA NumericIsNumber ==
    ASSUME NEW e, NEW s, IsStateOf(s, e)
    PROVE  Numeric(e, s) \in Int \cup {NotANumber}
BY StateParts DEF IsStateOf, Numeric

LEMMA RefusedIsReading ==
    ASSUME NEW reason \in Reasons, NEW kind
    PROVE  IsReading(Refused(reason), kind)
BY DEF IsReading, Refused

LEMMA NumberIsReading ==
    ASSUME NEW number \in Int \cup {NotANumber}, NEW unit
    PROVE  IsReading(_as_number(number, unit), Int)
BY DEF IsReading, _as_number, Refused, Read, Reasons, UnusableReason

LEMMA AttributeIsReading ==
    ASSUME NEW number \in Int \cup {NotANumber, None}, NEW unit
    PROVE  IsReading(_attribute(number, unit), Int)
BY NumberIsReading, RefusedIsReading DEF _attribute, Reasons, UnusableReason

LEMMA SwitchIsReading ==
    ASSUME NEW s
    PROVE  IsReading(_as_switch(s), BOOLEAN)
BY DEF IsReading, _as_switch, Refused, Read, Reasons, UnusableReason

LEMMA SystemIsReading ==
    ASSUME NEW r, IsReading(r, Int)
    PROVE  IsReading(_in_system_temperature(r), Int)
<1>1. CASE r.reason # None
  BY <1>1 DEF _in_system_temperature
<1>2. CASE r.reason = None /\ r.unit \notin {"C", "F"}
  BY <1>2, RefusedIsReading DEF _in_system_temperature, Reasons, UnusableReason
<1>3. CASE r.reason = None /\ r.unit \in {"C", "F"}
  <2> DEFINE degrees == Convert(r.value, r.unit, SystemUnit)
  <2>1. r.value \in Int
    BY <1>3, Placeholders DEF IsReading
  <2>2. degrees \in Int
    BY <2>1 DEF Convert
  <2>3. IsReading(Read(degrees, SystemUnit), Int)
    BY <2>2 DEF IsReading, Read
  <2>4. _in_system_temperature(r) = Refused("unconvertible")
        \/ _in_system_temperature(r) = Read(degrees, SystemUnit)
    BY <1>3 DEF _in_system_temperature
  <2> QED
    BY <2>3, <2>4, RefusedIsReading DEF Reasons, UnusableReason
<1> QED
  BY <1>1, <1>2, <1>3

LEMMA TemperatureIsReading ==
    ASSUME NEW e \in Entity, NEW s, IsStateOf(s, e)
    PROVE  IsReading(_in_system_temperature(_read_temperature(e, s)), Int)
<1>1. IsReading(_read_temperature(e, s), Int)
  BY StateParts, NumericIsNumber, NumberIsReading, AttributeIsReading
     DEF IsStateOf, _read_temperature
<1> QED
  BY <1>1, SystemIsReading

LEMMA HumidityIsReading ==
    ASSUME NEW e \in Entity, NEW s, IsStateOf(s, e)
    PROVE  IsReading(_read_humidity(e, s), Int)
BY StateParts, NumericIsNumber, NumberIsReading, AttributeIsReading, RefusedIsReading
   DEF IsStateOf, _read_humidity, Reasons, UnusableReason

LEMMA OccupancyIsReading ==
    ASSUME NEW e, NEW s
    PROVE  IsReading(_read_occupancy(e, s), BOOLEAN)
<1>1. IsReading(Read(_is_present(s), None), BOOLEAN)
  BY DEF IsReading, Read, _is_present
<1> QED
  BY <1>1, SwitchIsReading DEF _read_occupancy

LEMMA AwayIsReading ==
    ASSUME NEW e, NEW s
    PROVE  IsReading(_read_away(e, s), BOOLEAN)
<1>1. IsReading(Read(~_is_present(s), None), BOOLEAN)
  BY DEF IsReading, Read, _is_present
<1>2. IsReading(Read(s.text \in AwayAlarmStates, None), BOOLEAN)
  BY DEF IsReading, Read
<1>3. CASE domain[e] = "alarm_control_panel"
  <2>1. \/ _read_away(e, s) = Read(s.text \in AwayAlarmStates, None)
        \/ _read_away(e, s) = Refused("unconvertible")
    BY <1>3, Zenon DEF _read_away, Trackers
  <2> QED
    BY <1>2, <2>1, RefusedIsReading DEF Reasons, UnusableReason
<1>4. CASE domain[e] \in Trackers
  BY <1>1, <1>4 DEF _read_away, Trackers
<1>5. CASE domain[e] \notin Trackers \cup {"alarm_control_panel"}
  BY <1>5, SwitchIsReading DEF _read_away
<1> QED
  BY <1>3, <1>4, <1>5

LEMMA ConditioningIsReading ==
    ASSUME NEW s
    PROVE  IsReading(_read_conditioning(s), BOOLEAN)
<1>1. IsReading(Read(s.action \in ConditioningActions, None), BOOLEAN)
  BY DEF IsReading, Read
<1> QED
  BY <1>1, RefusedIsReading DEF _read_conditioning, Reasons, UnusableReason

\* _READINGS: every input is read as what it is, or refused.
LEMMA ReadAsIsReading ==
    ASSUME NEW key \in Inputs, NEW e \in Entity, NEW s, IsStateOf(s, e)
    PROVE  IsReading(ReadAs(key, e, s), Kind(key))
<1>1. CASE key \in Temperatures
  BY <1>1, TemperatureIsReading DEF ReadAs, Kind, Measured, Derivations, Temperatures
<1>2. CASE key = "outdoor_humidity"
  BY <1>2, HumidityIsReading DEF ReadAs, Kind, Measured, Derivations, Temperatures
<1>3. CASE key \in {"outdoor_air_quality", "indoor_co2"}
  BY <1>3, NumericIsNumber, NumberIsReading DEF ReadAs, Kind, Measured, Derivations, Temperatures
<1>4. CASE key = "occupancy"
  BY <1>4, OccupancyIsReading DEF ReadAs, Kind, Measured, Derivations, Temperatures
<1>5. CASE key = "away"
  BY <1>5, AwayIsReading DEF ReadAs, Kind, Measured, Derivations, Temperatures
<1>6. CASE key = "hvac"
  BY <1>6, ConditioningIsReading DEF ReadAs, Kind, Measured, Derivations, Temperatures
<1>7. CASE key \notin Measured \cup {"occupancy", "away", "hvac"}
  BY <1>7, SwitchIsReading DEF ReadAs, Kind, Measured, Derivations, Temperatures
<1> QED
  BY <1>1, <1>2, <1>3, <1>4, <1>5, <1>6, <1>7
     DEF Measured, Derivations, Inputs, SharedInputs, RoomInputs

-----------------------------------------------------------------------------
(* Observations.                                                           *)

\* What every entity reports can be reported by an entity of its domain, and
\* what is stored are lists of entities.
Reported(states) == \A e \in Entity : IsDark(states[e]) \/ IsStateOf(states[e], e)
HoldsEntities(stored) == \A k \in DOMAIN stored : stored[k] \in Seq(Entity)

IsObservation(o, kind) ==
    /\ o.source \in Entity \cup {None}
    /\ \/ o.reason = None /\ o.value \in kind
       \/ o.reason \in UnusableReason /\ o.value = None

LEMMA ReadIsReading ==
    ASSUME NEW key \in Inputs, NEW states, Reported(states), NEW e \in Entity
    PROVE  IsReading(_read(key, e, states), Kind(key))
<1>1. CASE IsDark(states[e])
  BY <1>1, RefusedIsReading DEF _read, IsDark, Reasons, UnusableReason
<1>2. CASE ~IsDark(states[e])
  BY <1>2, ReadAsIsReading DEF _read, IsDark, Reported
<1> QED
  BY <1>1, <1>2

\* An entity that has gone dark cannot be read.
LEMMA DarkIsUnread ==
    ASSUME NEW key, NEW states, NEW e, IsDark(states[e])
    PROVE  _read(key, e, states).reason # None
BY Placeholders DEF _read, IsDark, Refused, UnusableReason

LEMMA ObservedReading ==
    ASSUME NEW r, NEW kind, IsReading(r, kind), NEW source \in Entity \cup {None}
    PROVE  /\ IsObservation(Observed(r, source), kind)
           /\ Observed(r, source).reason = r.reason /\ Observed(r, source).value = r.value
           /\ Observed(r, source).reason # "not_configured"
BY Placeholders DEF IsReading, IsObservation, Observed, Reasons

\* _build_every names the first source that cannot be read.
LEMMA FirstUnread ==
    ASSUME NEW key, NEW configured \in Seq(Entity), NEW states,
           \E i \in DOMAIN configured : _read(key, configured[i], states).reason # None
    PROVE  \E i \in DOMAIN configured :
              /\ _read(key, configured[i], states).reason # None
              /\ _build_every(key, configured, states) =
                    Observed(_read(key, configured[i], states), configured[i])
<1> DEFINE unread == {i \in DOMAIN configured : _read(key, configured[i], states).reason # None}
           first == CHOOSE i \in unread : \A j \in unread : i =< j
<1>1. unread \in SUBSET Nat /\ unread # {}
  BY LenProperties
<1>2. \E i \in unread : \A j \in unread : i =< j
  BY <1>1, Least
<1>3. first \in unread
  BY <1>2
<1>4. _build_every(key, configured, states) =
         Observed(_read(key, configured[first], states), configured[first])
  BY <1>1 DEF _build_every
<1> QED
  BY <1>3, <1>4

LEMMA EveryRead ==
    ASSUME NEW key, NEW configured \in Seq(Entity), NEW states,
           \A i \in DOMAIN configured : _read(key, configured[i], states).reason = None
    PROVE  _build_every(key, configured, states) =
              Observed(Read(\A i \in DOMAIN configured :
                               _read(key, configured[i], states).value, None),
                       IF Len(configured) = 1 THEN configured[1] ELSE None)
<1>1. {i \in DOMAIN configured : _read(key, configured[i], states).reason # None} = {}
  OBVIOUS
<1> QED
  BY <1>1 DEF _build_every

\* An input that is not configured says so, and no other does.
LEMMA ValueIsObservation ==
    ASSUME NEW key \in Inputs, NEW configured \in Seq(Entity), NEW states, Reported(states)
    PROVE  LET o == _build_value(key, configured, states)
           IN  /\ IsObservation(o, Kind(key))
               /\ o.reason = "not_configured" <=> configured = <<>>
<1> DEFINE o == _build_value(key, configured, states)
<1>1. \A i \in DOMAIN configured : configured[i] \in Entity
  BY ElementOfSeq, LenProperties
<1>2. CASE configured = <<>>
  <2>1. o = Observed(Refused("not_configured"), None)
    BY <1>2 DEF _build_value
  <2> QED
    BY <1>2, <2>1 DEF IsObservation, Observed, Refused, UnusableReason
<1>3. ASSUME configured # <<>>, NEW i \in DOMAIN configured,
             o = Observed(_read(key, configured[i], states), configured[i])
      PROVE  IsObservation(o, Kind(key)) /\ o.reason # "not_configured"
  BY <1>1, <1>3, ReadIsReading, ObservedReading
<1>4. CASE configured # <<>> /\ key # "away"
  <2>1. 1 \in DOMAIN configured
    BY <1>4, LenProperties, EmptySeq
  <2>2. o = Observed(_read(key, configured[1], states), configured[1])
    BY <1>4 DEF _build_value
  <2> QED
    BY <1>3, <1>4, <2>1, <2>2
<1>5. CASE configured # <<>> /\ key = "away"
  <2>1. o = _build_every(key, configured, states)
    BY <1>5 DEF _build_value
  <2>2. CASE \E i \in DOMAIN configured : _read(key, configured[i], states).reason # None
    BY <1>3, <1>5, <2>1, <2>2, FirstUnread
  <2>3. CASE \A i \in DOMAIN configured : _read(key, configured[i], states).reason = None
    <3> DEFINE all == \A i \in DOMAIN configured : _read(key, configured[i], states).value
               source == IF Len(configured) = 1 THEN configured[1] ELSE None
    <3>1. o = Observed(Read(all, None), source)
      BY <2>1, <2>3, EveryRead
    <3>2. source \in Entity \cup {None}
      BY <1>1, LenProperties
    <3>3. all \in BOOLEAN
      OBVIOUS
    <3>4. IsReading(Read(all, None), BOOLEAN)
      <4> HIDE DEF all
      <4> QED
        BY <3>3 DEF IsReading, Read
    <3> HIDE DEF all, source
    <3>5. Kind(key) = BOOLEAN
      BY <1>5 DEF Kind, Measured, Derivations, Temperatures
    <3> QED
      BY <1>5, <3>1, <3>2, <3>4, <3>5, ObservedReading
  <2> QED
    BY <2>2, <2>3
<1> QED
  BY <1>2, <1>4, <1>5

\* __post_init__: no group is refused, and its parts are its members.
LEMMA GroupIsPartitioned ==
    ASSUME NEW key, NEW configured, IsInjective(configured), NEW states
    PROVE  LET g == _build_group(key, configured, states)
           IN  /\ Partitioned(g)
               /\ g.configured = configured
               /\ g.unusable = {e \in Range(configured) : _read(key, e, states).reason # None}
               /\ g.known_on = {e \in Range(configured) : /\ _read(key, e, states).reason = None
                                                          /\ _read(key, e, states).value}
BY DEF _build_group, Partitioned

-----------------------------------------------------------------------------
(* Derived observations.                                                   *)

\* _inherited blames a broken source before one that is not configured.
LEMMA Inherited ==
    ASSUME NEW a, NEW b, a.reason # None \/ b.reason # None
    PROVE  LET blamed == _inherited(<<a, b>>)
           IN  /\ blamed \in {a, b} /\ blamed.reason # None
               /\ blamed.reason = "not_configured" <=>
                     /\ a.reason \in {None, "not_configured"}
                     /\ b.reason \in {None, "not_configured"}
<1> DEFINE both == <<a, b>>
           unusable == {i \in DOMAIN both : both[i].reason # None}
           broken == {i \in unusable : both[i].reason # "not_configured"}
           blamable == IF broken = {} THEN unusable ELSE broken
           first == CHOOSE i \in blamable : \A j \in blamable : i =< j
<1>1. DOMAIN both = {1, 2} /\ both[1] = a /\ both[2] = b
  OBVIOUS
<1> HIDE DEF both
<1>2. blamable \in SUBSET Nat /\ blamable # {}
  BY <1>1
<1>3. \E i \in blamable : \A j \in blamable : i =< j
  BY <1>2, Least
<1>4. first \in blamable
  BY <1>3
<1>5. _inherited(both) = both[first]
  BY DEF _inherited
<1>6. both[first] \in {a, b} /\ both[first].reason # None
  BY <1>1, <1>4
<1>7. both[first].reason = "not_configured" <=> broken = {}
  BY <1>4
<1>8. broken = {} <=> \A x \in {a, b} : x.reason \in {None, "not_configured"}
  BY <1>1
<1> HIDE DEF first, broken
<1> QED
  BY <1>5, <1>6, <1>7, <1>8 DEF both

\* _dew_point refuses what the formula cannot take.
LEMMA DewPointIsReading ==
    ASSUME NEW temperature, NEW humidity, temperature.value \in Int, humidity.value \in Int
    PROVE  IsReading(_dew_point(temperature, humidity), Int)
<1> DEFINE celsius == Convert(temperature.value, temperature.unit, "C")
           dew == Magnus(celsius, humidity.value)
           degrees == Convert(dew, "C", temperature.unit)
<1>1. celsius \in Int
  BY DEF Convert
<1>2. CASE humidity.unit # "%" \/ humidity.value \notin 1 .. 100 \/ <<celsius, humidity.value>> \in Poles
  <2>1. _dew_point(temperature, humidity) = Refused("unconvertible")
    BY <1>2 DEF _dew_point
  <2> QED
    BY <2>1, RefusedIsReading DEF Reasons, UnusableReason
<1>3. CASE ~(humidity.unit # "%" \/ humidity.value \notin 1 .. 100 \/ <<celsius, humidity.value>> \in Poles)
  <2>1. dew = celsius - 9 * ((100 - humidity.value) \div 5)
    BY <1>3 DEF Magnus
  <2> HIDE DEF celsius
  <2>2. dew \in Int
    BY <1>1, <2>1
  <2>3. dew # Raised
    BY <2>2, Placeholders
  <2> HIDE DEF dew
  <2>4. degrees \in Int
    BY <2>2 DEF Convert
  <2>5. _dew_point(temperature, humidity) = Read(degrees, temperature.unit)
    BY <1>3, <2>3 DEF _dew_point, dew, celsius
  <2> HIDE DEF degrees
  <2> QED
    BY <2>4, <2>5 DEF IsReading, Read
<1> QED
  BY <1>2, <1>3

LEMMA AdvantageIsReading ==
    ASSUME NEW indoor, NEW outdoor, indoor.value \in Int, outdoor.value \in Int
    PROVE  IsReading(_temperature_advantage(indoor, outdoor), Int)
BY DEF IsReading, _temperature_advantage, Read

\* A derived observation can be had only from both its sources, and is left
\* unconfigured only for want of a source, none being broken.
LEMMA DerivedIsObservation ==
    ASSUME NEW key \in Derivations, NEW observations,
           IsObservation(observations[Sources(key)[1]], Int),
           IsObservation(observations[Sources(key)[2]], Int)
    PROVE  LET first == observations[Sources(key)[1]]
               second == observations[Sources(key)[2]]
               derived == _derive(key, observations)
           IN  /\ IsObservation(derived, Int)
               /\ derived.reason = None => first.reason = None /\ second.reason = None
               /\ derived.reason = "not_configured" <=>
                     /\ first.reason = "not_configured" \/ second.reason = "not_configured"
                     /\ first.reason \in {None, "not_configured"}
                     /\ second.reason \in {None, "not_configured"}
<1> DEFINE first == observations[Sources(key)[1]]
           second == observations[Sources(key)[2]]
           derived == _derive(key, observations)
<1>1. /\ IsObservation(first, Int)
      /\ IsObservation(second, Int)
  OBVIOUS
<1>2. CASE first.reason # None \/ second.reason # None
  <2> DEFINE blamed == _inherited(<<first, second>>)
  <2>1. derived = Observed(Refused(blamed.reason), blamed.source)
    BY <1>2 DEF _derive
  <2> HIDE DEF first, second
  <2>2. /\ blamed \in {first, second} /\ blamed.reason # None
        /\ blamed.reason = "not_configured" <=>
              /\ first.reason \in {None, "not_configured"}
              /\ second.reason \in {None, "not_configured"}
    BY <1>2, Inherited
  <2> HIDE DEF blamed
  <2>3. blamed.reason \in UnusableReason /\ blamed.source \in Entity \cup {None}
    BY <1>1, <2>2 DEF IsObservation
  <2>4. /\ derived.reason = blamed.reason /\ derived.value = None
        /\ derived.source = blamed.source
    BY <2>1 DEF Observed, Refused
  <2>5. IsObservation(derived, Int)
    BY <2>3, <2>4 DEF IsObservation
  <2> QED
    BY <1>2, <2>2, <2>4, <2>5 DEF first, second
<1>3. CASE first.reason = None /\ second.reason = None
  <2> DEFINE r == IF key = "outdoor_dew_point" THEN _dew_point(first, second)
                                               ELSE _temperature_advantage(first, second)
  <2>1. derived = Observed(r, None)
    BY <1>3 DEF _derive
  <2> HIDE DEF first, second
  <2>2. first.value \in Int /\ second.value \in Int
    BY <1>1, <1>3, Placeholders DEF IsObservation
  <2>3. IsReading(r, Int)
    BY <2>2, DewPointIsReading, AdvantageIsReading
  <2> HIDE DEF r, derived
  <2>4. IsObservation(derived, Int) /\ derived.reason # "not_configured"
    BY <2>1, <2>3, ObservedReading
  <2> QED
    BY <1>3, <2>4, Placeholders DEF first, second, derived
<1> QED
  BY <1>2, <1>3

\* _vacancy: a number of seconds if the occupancy can be read, and its reason
\* if not.
LEMMA VacancyIsObservation ==
    ASSUME NEW occupancy, IsObservation(occupancy, BOOLEAN),
           NEW since \in Nat \cup {None}, NEW now \in Nat
    PROVE  LET vacancy == _vacancy(occupancy, since, now)
           IN  /\ IsObservation(vacancy, Int)
               /\ vacancy.source = occupancy.source
               /\ vacancy.reason = occupancy.reason
               /\ occupancy.reason = None =>
                     vacancy.value = now - Since(Occupied(occupancy), since, now)
<1> DEFINE vacancy == _vacancy(occupancy, since, now)
           occ == Occupied(occupancy)
<1>1. CASE occupancy.reason = None
  <2>1. occ \in {"occupied", "empty"}
    BY <1>1 DEF Occupied
  <2>2. Since(occ, since, now) \in Nat
    <3> HIDE DEF occ
    <3> QED
      BY Placeholders DEF Since
  <2> HIDE DEF occ
  <2>3. UnoccupiedFor(occ, since, now) = now - Since(occ, since, now)
    BY <2>1 DEF UnoccupiedFor
  <2>4. vacancy = Observed(Read(now - Since(occ, since, now), "s"), occupancy.source)
    BY <1>1, <2>3 DEF _vacancy, occ
  <2>5. now - Since(occ, since, now) \in Int
    BY <2>2
  <2> QED
    BY <1>1, <2>4, <2>5 DEF IsObservation, Observed, Read, occ
<1>2. CASE occupancy.reason # None
  <2>1. occ = occupancy.reason /\ occ \in UnusableReason
    BY <1>2 DEF IsObservation, Occupied
  <2> HIDE DEF occ
  <2>2. UnoccupiedFor(occ, since, now) = occ
    BY <2>1 DEF UnoccupiedFor, UnusableReason
  <2>3. vacancy = Observed(Refused(occ), occupancy.source)
    BY <1>2, <2>2 DEF _vacancy, occ
  <2> QED
    BY <1>2, <2>1, <2>3 DEF IsObservation, Observed, Refused
<1> QED
  BY <1>1, <1>2

-----------------------------------------------------------------------------
(* A snapshot.                                                             *)

Snapshot(states, shared, room, since, now) ==
    derive_observations(build_observations(states, shared, room), since, now)

LEMMA ConfiguredEntities ==
    ASSUME NEW shared, NEW room, HoldsEntities(shared), HoldsEntities(room), NEW key
    PROVE  LET configured == Configured(shared, room, key)
               stored == IF key \in SharedInputs THEN shared ELSE room
           IN  /\ configured \in Seq(Entity) /\ IsInjective(configured)
               /\ Range(configured) =
                     IF key \in DOMAIN stored THEN Range(stored[key]) \ {Blank} ELSE {}
               /\ key \in DOMAIN stored => Len(configured) =< Len(stored[key])
BY EntityIds DEF Configured, HoldsEntities

\* What a snapshot holds under each key.
LEMMA SnapshotKeys ==
    ASSUME NEW states, NEW shared, NEW room, NEW since, NEW now
    PROVE  LET snapshot == Snapshot(states, shared, room, since, now)
               built == build_observations(states, shared, room)
           IN  /\ DOMAIN snapshot.observations = (Inputs \ GroupInputs) \cup DerivedKeys
               /\ \A k \in Inputs \ GroupInputs :
                     /\ snapshot.observations[k] = built.observations[k]
                     /\ snapshot.observations[k] =
                           _build_value(k, Configured(shared, room, k), states)
               /\ \A k \in Derivations :
                     snapshot.observations[k] = _derive(k, built.observations)
               /\ snapshot.observations["unoccupied_for"] =
                     _vacancy(built.observations["occupancy"], since, now)
               /\ \A k \in GroupInputs :
                     snapshot.groups[k] = _build_group(k, Configured(shared, room, k), states)
<1> DEFINE snapshot == Snapshot(states, shared, room, since, now)
           built == build_observations(states, shared, room)
           plain == Inputs \ GroupInputs
           observation(k) == CASE k \in Derivations -> _derive(k, built.observations)
                               [] k = "unoccupied_for" -> _vacancy(built.observations["occupancy"], since, now)
                               [] OTHER -> built.observations[k]
<1>1. snapshot.observations = [k \in plain \cup DerivedKeys |-> observation(k)]
  BY DEF Snapshot, derive_observations
<1>2. /\ built.observations = [k \in plain |-> _build_value(k, Configured(shared, room, k), states)]
      /\ snapshot.groups = [k \in GroupInputs |-> _build_group(k, Configured(shared, room, k), states)]
  BY DEF Snapshot, derive_observations, build_observations
<1>3. \A k \in plain : k \notin Derivations /\ k # "unoccupied_for"
  BY DEF Inputs, SharedInputs, RoomInputs, GroupInputs, Derivations
<1>4. "unoccupied_for" \notin Derivations /\ DerivedKeys = Derivations \cup {"unoccupied_for"}
  BY DEF Derivations, DerivedKeys
<1> HIDE DEF built, snapshot, plain
<1>5. /\ \A k \in plain : observation(k) = built.observations[k]
      /\ \A k \in Derivations : observation(k) = _derive(k, built.observations)
      /\ observation("unoccupied_for") = _vacancy(built.observations["occupancy"], since, now)
  BY <1>3, <1>4
<1> HIDE DEF observation
<1>6. /\ DOMAIN snapshot.observations = plain \cup DerivedKeys
      /\ \A k \in plain \cup DerivedKeys : snapshot.observations[k] = observation(k)
  BY <1>1
<1> QED
  BY <1>2, <1>4, <1>5, <1>6 DEF built, snapshot, plain

\* Every reading of a snapshot is a value of its kind or a reason, and only
\* an input that is not configured says that it is not.
LEMMA SnapshotReadings ==
    ASSUME NEW states, Reported(states),
           NEW shared, HoldsEntities(shared), NEW room, HoldsEntities(room),
           NEW since \in Nat \cup {None}, NEW now \in Nat
    PROVE  LET observations == Snapshot(states, shared, room, since, now).observations
           IN  /\ \A k \in Inputs \ GroupInputs :
                     /\ IsObservation(observations[k], Kind(k))
                     /\ observations[k].reason = "not_configured" <=>
                           Configured(shared, room, k) = <<>>
               /\ \A k \in DerivedKeys : IsObservation(observations[k], Int)
<1> DEFINE observations == Snapshot(states, shared, room, since, now).observations
           built == build_observations(states, shared, room).observations
<1>1. ASSUME NEW k \in Inputs \ GroupInputs
      PROVE  /\ IsObservation(observations[k], Kind(k))
             /\ observations[k].reason = "not_configured" <=> Configured(shared, room, k) = <<>>
             /\ observations[k] = built[k]
  <2>1. Configured(shared, room, k) \in Seq(Entity)
    BY ConfiguredEntities
  <2>2. /\ observations[k] = _build_value(k, Configured(shared, room, k), states)
        /\ observations[k] = built[k]
    BY SnapshotKeys
  <2>3. /\ IsObservation(_build_value(k, Configured(shared, room, k), states), Kind(k))
        /\ _build_value(k, Configured(shared, room, k), states).reason = "not_configured"
              <=> Configured(shared, room, k) = <<>>
    BY <2>1, ValueIsObservation
  <2> HIDE DEF observations, built
  <2> QED
    BY <2>2, <2>3
<1> HIDE DEF observations, built
<1>2. ASSUME NEW k \in Derivations
      PROVE  IsObservation(observations[k], Int)
  <2>1. observations[k] = _derive(k, built)
    BY SnapshotKeys DEF observations, built
  <2>2. \A i \in {1, 2} : /\ Sources(k)[i] \in Inputs \ GroupInputs
                          /\ Kind(Sources(k)[i]) = Int
    BY DEF Sources, Derivations, Inputs, SharedInputs, RoomInputs, GroupInputs, Kind, Measured,
           Temperatures
  <2>3. IsObservation(built[Sources(k)[1]], Int) /\ IsObservation(built[Sources(k)[2]], Int)
    BY <1>1, <2>2
  <2> QED
    BY <2>1, <2>3, DerivedIsObservation
<1>3. IsObservation(observations["unoccupied_for"], Int)
  <2>1. observations["unoccupied_for"] = _vacancy(built["occupancy"], since, now)
    BY SnapshotKeys DEF observations, built
  <2>2. /\ "occupancy" \in Inputs \ GroupInputs
        /\ Kind("occupancy") = BOOLEAN
    BY DEF Inputs, RoomInputs, GroupInputs, Kind, Measured, Derivations, Temperatures
  <2>3. IsObservation(built["occupancy"], BOOLEAN)
    BY <1>1, <2>2
  <2> QED
    BY <2>1, <2>3, VacancyIsObservation
<1>4. \A k \in DerivedKeys : k \in Derivations \/ k = "unoccupied_for"
  BY DEF DerivedKeys
<1> QED
  BY <1>1, <1>2, <1>3, <1>4 DEF observations

\* A snapshot's groups are what their members say.
LEMMA SnapshotGroups ==
    ASSUME NEW states, NEW shared, HoldsEntities(shared), NEW room, HoldsEntities(room),
           NEW since, NEW now, NEW k \in GroupInputs
    PROVE  LET g == Snapshot(states, shared, room, since, now).groups[k]
               configured == Configured(shared, room, k)
           IN  /\ Partitioned(g)
               /\ g.configured = configured
               /\ g.unusable = {e \in Range(configured) : _read(k, e, states).reason # None}
               /\ g.known_on = {e \in Range(configured) : /\ _read(k, e, states).reason = None
                                                          /\ _read(k, e, states).value}
<1>1. IsInjective(Configured(shared, room, k))
  BY ConfiguredEntities
<1>2. Snapshot(states, shared, room, since, now).groups[k] =
         _build_group(k, Configured(shared, room, k), states)
  BY SnapshotKeys
<1> QED
  BY <1>1, <1>2, GroupIsPartitioned

-----------------------------------------------------------------------------
(* An evaluation.                                                          *)

\* A rule that has what it requires can be evaluated, and does not raise.

-----------------------------------------------------------------------------
(* An evaluation.                                                          *)

\* No evaluation raises: no group's parts overlap, every value is one.
LEMMA EvaluationAnswers ==
    ASSUME NEW states, Reported(states),
           NEW shared, HoldsEntities(shared), NEW room, HoldsEntities(room),
           NEW since \in Nat \cup {None}, NEW now \in Nat
    PROVE  LET snapshot == Snapshot(states, shared, room, since, now)
           IN  Evaluation(states, shared, room, since, now) =
                  [raised |-> FALSE, snapshot |-> snapshot,
                   outcomes |-> [rule \in Rules |-> evaluate_rule(rule, snapshot)],
                   permits |-> guards_permit_opening({guard(snapshot, k) : k \in Guards})]
<1> DEFINE snapshot == Snapshot(states, shared, room, since, now)
<1>1. \A k \in GroupInputs : Partitioned(snapshot.groups[k])
  BY SnapshotGroups
<1>2. DOMAIN snapshot.observations = (Inputs \ GroupInputs) \cup DerivedKeys
  BY SnapshotKeys
<1>3. ASSUME NEW k \in DOMAIN snapshot.observations
      PROVE  snapshot.observations[k].value # Raised
  <2> DEFINE o == snapshot.observations[k]
  <2>1. k \in Inputs \ GroupInputs \/ k \in DerivedKeys
    BY <1>2, <1>3
  <2>2. IsObservation(o, Kind(k)) \/ IsObservation(o, Int)
    BY <2>1, SnapshotReadings
  <2> HIDE DEF o
  <2>3. o.value \in Int \/ o.value \in BOOLEAN \/ o.value = None
    BY <2>2 DEF IsObservation, Kind
  <2> QED
    BY <2>3, Placeholders DEF o
<1> HIDE DEF snapshot
<1> QED
  BY <1>1, <1>3 DEF Evaluation, Snapshot, snapshot

\* Rules raise only on a trigger that cannot be read, which they require.
LEMMA RuleAnswers ==
    ASSUME NEW snapshot, NEW rule \in Rules
    PROVE  LET answer == evaluate_rule(rule, snapshot).advisory
               open == snapshot.groups["window_contacts"].known_on
           IN  /\ answer.action # "raised"
               /\ answer.windows =
                     IF /\ usable(snapshot, "window_contacts")
                        /\ snapshot.observations[Trigger(rule)].reason = None
                        /\ snapshot.observations[Trigger(rule)].value
                     THEN open ELSE {}
<1> DEFINE trigger == snapshot.observations[Trigger(rule)]
           advised == _close_advice(snapshot, Trigger(rule))
           unreadable == {k \in Requires(rule) : ~usable(snapshot, k)}
           answer == evaluate_rule(rule, snapshot).advisory
           open == snapshot.groups["window_contacts"].known_on
<1>1. usable(snapshot, Trigger(rule)) <=> trigger.reason = None
  BY DEF usable, Trigger, GroupInputs
<1>2. answer = IF unreadable # {} THEN NoAdvice ELSE advised
  BY DEF evaluate_rule
<1>3. unreadable = {} <=> trigger.reason = None /\ usable(snapshot, "window_contacts")
  BY <1>1 DEF Requires
<1>4. CASE unreadable # {}
  BY <1>2, <1>3, <1>4 DEF NoAdvice
<1>5. CASE unreadable = {}
  <2>1. advised = IF ~trigger.value \/ open = {} THEN NoAdvice
                  ELSE [action |-> "close", windows |-> open, source |-> trigger.source]
    BY <1>3, <1>5 DEF _close_advice
  <2>2. answer = advised
    BY <1>2, <1>5
  <2> HIDE DEF trigger, advised, answer, open
  <2>3. CASE ~trigger.value \/ open = {}
    <3>1. answer = NoAdvice
      BY <2>1, <2>2, <2>3
    <3>2. answer.action # "raised" /\ answer.windows = {}
      BY <3>1 DEF NoAdvice
    <3> QED
      BY <2>3, <3>2 DEF trigger, answer, open
  <2>4. CASE trigger.value /\ open # {}
    <3>1. answer.action # "raised" /\ answer.windows = open
      BY <2>1, <2>2, <2>4
    <3> QED
      BY <1>3, <1>5, <2>4, <3>1 DEF trigger, answer, open
  <2> QED
    BY <2>3, <2>4
<1> QED
  BY <1>4, <1>5

-----------------------------------------------------------------------------
(* Entities going dark.                                                    *)

\* Nothing has been reported since, but that entities have gone dark.
Dimmed(before, after) == \A e \in Entity : IsDark(after[e]) \/ after[e] = before[e]

LEMMA DimmedRead ==
    ASSUME NEW before, NEW after, Dimmed(before, after), NEW key, NEW e \in Entity,
           _read(key, e, after).reason = None
    PROVE  _read(key, e, after) = _read(key, e, before)
<1>1. after[e] = before[e]
  BY DarkIsUnread DEF Dimmed
<1> QED
  BY <1>1 DEF _read

\* What can still be observed is what was observed before.
LEMMA DimmedValue ==
    ASSUME NEW before, NEW after, Dimmed(before, after),
           NEW key, NEW configured \in Seq(Entity),
           _build_value(key, configured, after).reason = None
    PROVE  _build_value(key, configured, after) = _build_value(key, configured, before)
<1>1. \A i \in DOMAIN configured : configured[i] \in Entity
  BY ElementOfSeq, LenProperties
<1>2. \A i \in DOMAIN configured :
         _read(key, configured[i], after).reason = None =>
            _read(key, configured[i], after) = _read(key, configured[i], before)
  BY <1>1, DimmedRead
<1>3. configured # <<>>
  BY Placeholders DEF _build_value, Observed, Refused
<1>4. CASE key # "away"
  <2>1. 1 \in DOMAIN configured
    BY <1>3, LenProperties, EmptySeq
  <2>2. \A states : _build_value(key, configured, states) =
                       Observed(_read(key, configured[1], states), configured[1])
    BY <1>3, <1>4 DEF _build_value
  <2>3. _read(key, configured[1], after).reason = None
    BY <2>2 DEF Observed
  <2> QED
    BY <1>2, <2>1, <2>2, <2>3
<1>5. CASE key = "away"
  <2>1. \A states : _build_value(key, configured, states) = _build_every(key, configured, states)
    BY <1>3, <1>5 DEF _build_value
  <2>2. \A i \in DOMAIN configured : _read(key, configured[i], after).reason = None
    <3> SUFFICES ASSUME \E i \in DOMAIN configured : _read(key, configured[i], after).reason # None
                 PROVE  FALSE
      OBVIOUS
    <3>1. PICK i \in DOMAIN configured :
             /\ _read(key, configured[i], after).reason # None
             /\ _build_every(key, configured, after) =
                   Observed(_read(key, configured[i], after), configured[i])
      BY FirstUnread
    <3> QED
      BY <2>1, <3>1 DEF Observed
  <2>3. \A i \in DOMAIN configured :
           _read(key, configured[i], before) = _read(key, configured[i], after)
    BY <1>2, <2>2
  <2>4. \A i \in DOMAIN configured : _read(key, configured[i], before).reason = None
    BY <2>2, <2>3
  <2> DEFINE all(states) == \A i \in DOMAIN configured : _read(key, configured[i], states).value
             source == IF Len(configured) = 1 THEN configured[1] ELSE None
  <2>5. _build_every(key, configured, after) = Observed(Read(all(after), None), source)
    BY <2>2, EveryRead
  <2>6. _build_every(key, configured, before) = Observed(Read(all(before), None), source)
    BY <2>4, EveryRead
  <2>7. all(after) = all(before)
    BY <2>3
  <2> HIDE DEF all
  <2> QED
    BY <2>1, <2>5, <2>6, <2>7
<1> QED
  BY <1>4, <1>5

\* The later snapshot knows of nothing that the earlier one does not.
Poorer(earlier, later) ==
    /\ \A k \in (Inputs \ GroupInputs) \cup Derivations :
          /\ later.observations[k].reason = None =>
                later.observations[k] = earlier.observations[k]
          /\ later.observations[k].reason = "not_configured" =>
                earlier.observations[k].reason = "not_configured"
    /\ \A k \in GroupInputs :
          /\ later.groups[k].configured = earlier.groups[k].configured
          /\ earlier.groups[k].unusable \subseteq later.groups[k].unusable
          /\ later.groups[k].unusable \subseteq Range(later.groups[k].configured)
          /\ later.groups[k].known_on \subseteq earlier.groups[k].known_on
          /\ earlier.groups[k].known_on \subseteq
                later.groups[k].known_on \cup later.groups[k].unusable

LEMMA DimmedSnapshot ==
    ASSUME NEW before, Reported(before), NEW after, Reported(after), Dimmed(before, after),
           NEW shared, HoldsEntities(shared), NEW room, HoldsEntities(room),
           NEW s \in Nat \cup {None}, NEW t \in Nat, NEW u \in Nat \cup {None}, NEW v \in Nat
    PROVE  Poorer(Snapshot(before, shared, room, s, t), Snapshot(after, shared, room, u, v))
<1> DEFINE earlier == Snapshot(before, shared, room, s, t)
           later == Snapshot(after, shared, room, u, v)
           plain == Inputs \ GroupInputs
           was == build_observations(before, shared, room).observations
           is == build_observations(after, shared, room).observations
<1>1. ASSUME NEW k \in plain
      PROVE  /\ later.observations[k] = is[k] /\ earlier.observations[k] = was[k]
             /\ is[k].reason = None => is[k] = was[k]
             /\ is[k].reason = "not_configured" <=> was[k].reason = "not_configured"
             /\ IsObservation(is[k], Kind(k)) /\ IsObservation(was[k], Kind(k))
  <2> DEFINE configured == Configured(shared, room, k)
  <2>1. configured \in Seq(Entity)
    BY ConfiguredEntities
  <2>2. /\ later.observations[k] = is[k] /\ earlier.observations[k] = was[k]
        /\ later.observations[k] = _build_value(k, configured, after)
        /\ earlier.observations[k] = _build_value(k, configured, before)
    BY SnapshotKeys
  <2> HIDE DEF is, was, later, earlier, configured
  <2>3. is[k].reason = None => is[k] = was[k]
    BY <2>1, <2>2, DimmedValue
  <2>4. /\ IsObservation(_build_value(k, configured, after), Kind(k))
        /\ _build_value(k, configured, after).reason = "not_configured" <=> configured = <<>>
    BY <2>1, ValueIsObservation
  <2>5. /\ IsObservation(_build_value(k, configured, before), Kind(k))
        /\ _build_value(k, configured, before).reason = "not_configured" <=> configured = <<>>
    BY <2>1, ValueIsObservation
  <2> QED
    BY <2>2, <2>3, <2>4, <2>5
<1>2. ASSUME NEW k \in Derivations
      PROVE  /\ later.observations[k].reason = None => later.observations[k] = earlier.observations[k]
             /\ later.observations[k].reason = "not_configured" =>
                   earlier.observations[k].reason = "not_configured"
  <2>1. later.observations[k] = _derive(k, is) /\ earlier.observations[k] = _derive(k, was)
    BY SnapshotKeys
  <2> HIDE DEF later, earlier, is, was
  <2> DEFINE a == Sources(k)[1]
             b == Sources(k)[2]
  <2>2. {a, b} \subseteq plain /\ Kind(a) = Int /\ Kind(b) = Int
    BY DEF Sources, Derivations, Inputs, SharedInputs, RoomInputs, GroupInputs, Kind, Measured,
           Temperatures
  <2>3. \A x \in {a, b} :
           /\ is[x].reason = None => is[x] = was[x]
           /\ is[x].reason = "not_configured" <=> was[x].reason = "not_configured"
           /\ IsObservation(is[x], Int) /\ IsObservation(was[x], Int)
    BY <1>1, <2>2
  <2>4. /\ _derive(k, is).reason = None => is[a].reason = None /\ is[b].reason = None
        /\ _derive(k, is).reason = "not_configured" <=>
              /\ is[a].reason = "not_configured" \/ is[b].reason = "not_configured"
              /\ is[a].reason \in {None, "not_configured"}
              /\ is[b].reason \in {None, "not_configured"}
    BY <2>3, DerivedIsObservation
  <2>5. _derive(k, was).reason = "not_configured" <=>
           /\ was[a].reason = "not_configured" \/ was[b].reason = "not_configured"
           /\ was[a].reason \in {None, "not_configured"}
           /\ was[b].reason \in {None, "not_configured"}
    BY <2>3, DerivedIsObservation
  <2>6. is[a] = was[a] /\ is[b] = was[b] => _derive(k, is) = _derive(k, was)
    BY DEF _derive
  <2> HIDE DEF a, b
  <2> QED
    BY <2>1, <2>3, <2>4, <2>5, <2>6
<1>3. ASSUME NEW k \in GroupInputs
      PROVE  /\ later.groups[k].configured = earlier.groups[k].configured
             /\ earlier.groups[k].unusable \subseteq later.groups[k].unusable
             /\ later.groups[k].unusable \subseteq Range(later.groups[k].configured)
             /\ later.groups[k].known_on \subseteq earlier.groups[k].known_on
             /\ earlier.groups[k].known_on \subseteq
                   later.groups[k].known_on \cup later.groups[k].unusable
  <2> DEFINE configured == Configured(shared, room, k)
             g == later.groups[k]
             h == earlier.groups[k]
  <2>0. IsInjective(configured)
    BY ConfiguredEntities
  <2>1. /\ g.configured = configured
        /\ g.unusable = {e \in Range(configured) : _read(k, e, after).reason # None}
        /\ g.known_on = {e \in Range(configured) : /\ _read(k, e, after).reason = None
                                                   /\ _read(k, e, after).value}
    <3>1. g = _build_group(k, configured, after)
      BY SnapshotKeys
    <3> HIDE DEF g, configured
    <3> QED
      BY <2>0, <3>1, GroupIsPartitioned
  <2>2. /\ h.configured = configured
        /\ h.unusable = {e \in Range(configured) : _read(k, e, before).reason # None}
        /\ h.known_on = {e \in Range(configured) : /\ _read(k, e, before).reason = None
                                                   /\ _read(k, e, before).value}
    <3>1. h = _build_group(k, configured, before)
      BY SnapshotKeys
    <3> HIDE DEF h, configured
    <3> QED
      BY <2>0, <3>1, GroupIsPartitioned
  <2>3. \A e \in Range(configured) : e \in Entity
    BY ConfiguredEntities, ElementOfSeq, LenProperties DEF Range
  <2>4. \A e \in Range(configured) :
           _read(k, e, after).reason = None => _read(k, e, after) = _read(k, e, before)
    BY <2>3, DimmedRead
  <2> HIDE DEF g, h, configured
  <2>5. h.unusable \subseteq g.unusable
    BY <2>1, <2>2, <2>4
  <2>6. g.known_on \subseteq h.known_on
    BY <2>1, <2>2, <2>4
  <2>7. h.known_on \subseteq g.known_on \cup g.unusable
    BY <2>1, <2>2, <2>4
  <2>8. g.unusable \subseteq Range(g.configured)
    BY <2>1
  <2> QED
    BY <2>1, <2>2, <2>5, <2>6, <2>7, <2>8 DEF g, h
<1> HIDE DEF earlier, later
<1> QED
  BY <1>1, <1>2, <1>3 DEF Poorer, earlier, later

\* A guard that still permits opening did before.
LEMMA PoorerGuard ==
    ASSUME NEW earlier, NEW later, Poorer(earlier, later), NEW k \in Inputs \cup Derivations,
           guard(later, k) \in {"NOT_CONFIGURED", "SATISFIED"}
    PROVE  guard(earlier, k) \in {"NOT_CONFIGURED", "SATISFIED"}
<1>1. CASE k \in GroupInputs
  <2> DEFINE g == later.groups[k]
             h == earlier.groups[k]
  <2>1. /\ g.configured = h.configured
        /\ h.unusable \subseteq g.unusable
        /\ h.known_on \subseteq g.known_on \cup g.unusable
    BY <1>1 DEF Poorer
  <2>2. guard(later, k) = _group_guard(g) /\ guard(earlier, k) = _group_guard(h)
    BY <1>1 DEF guard
  <2> HIDE DEF g, h
  <2>3. g.configured = <<>> \/ (g.known_on = {} /\ g.unusable = {})
    BY <2>2 DEF _group_guard
  <2>4. h.configured = <<>> \/ (h.known_on = {} /\ h.unusable = {})
    BY <2>1, <2>3
  <2> QED
    BY <2>2, <2>4 DEF _group_guard
<1>2. CASE k \notin GroupInputs
  <2> DEFINE o == later.observations[k]
             p == earlier.observations[k]
  <2>1. /\ o.reason = None => o = p
        /\ o.reason = "not_configured" => p.reason = "not_configured"
    BY <1>2 DEF Poorer
  <2>2. guard(later, k) = guard_when(o, k) /\ guard(earlier, k) = guard_when(p, k)
    BY <1>2 DEF guard
  <2> HIDE DEF o, p
  <2>3. o.reason = None \/ o.reason = "not_configured"
    BY <2>2 DEF guard_when
  <2>4. CASE o.reason = None
    BY <2>1, <2>2, <2>4
  <2>5. CASE o.reason = "not_configured"
    BY <2>1, <2>2, <2>5 DEF guard_when
  <2> QED
    BY <2>3, <2>4, <2>5
<1> QED
  BY <1>1, <1>2

\* A window a rule still names, it named before.
LEMMA PoorerRule ==
    ASSUME NEW earlier, NEW later, Poorer(earlier, later), NEW rule \in Rules
    PROVE  evaluate_rule(rule, later).advisory.windows \subseteq
              evaluate_rule(rule, earlier).advisory.windows
<1> DEFINE g == later.groups["window_contacts"]
           h == earlier.groups["window_contacts"]
           o == later.observations[Trigger(rule)]
           p == earlier.observations[Trigger(rule)]
<1>1. /\ Trigger(rule) \in Inputs \ GroupInputs
      /\ "window_contacts" \in GroupInputs
  BY DEF Trigger, Inputs, SharedInputs, GroupInputs
<1>2. /\ g.configured = h.configured
      /\ h.unusable \subseteq g.unusable
      /\ g.unusable \subseteq Range(g.configured)
      /\ g.known_on \subseteq h.known_on
      /\ o.reason = None => o = p
  BY <1>1 DEF Poorer
<1>3. /\ usable(later, "window_contacts") <=> g.unusable # Range(g.configured)
      /\ usable(earlier, "window_contacts") <=> h.unusable # Range(h.configured)
  BY <1>1 DEF usable
<1>4. evaluate_rule(rule, later).advisory.windows =
         IF usable(later, "window_contacts") /\ o.reason = None /\ o.value
         THEN g.known_on ELSE {}
  BY RuleAnswers
<1>5. evaluate_rule(rule, earlier).advisory.windows =
         IF usable(earlier, "window_contacts") /\ p.reason = None /\ p.value
         THEN h.known_on ELSE {}
  BY RuleAnswers
<1> HIDE DEF g, h, o, p
<1>6. usable(later, "window_contacts") => usable(earlier, "window_contacts")
  BY <1>2, <1>3
<1> QED
  BY <1>2, <1>4, <1>5, <1>6

=============================================================================
