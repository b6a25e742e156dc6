------------------------- MODULE RuleRegistry_proof -------------------------
(***************************************************************************)
(* Proofs about RuleRegistry, for any rule classes and categories.         *)
(***************************************************************************)
EXTENDS RuleRegistry, SequenceTheorems, TLAPS

USE RegistryAssumption

(* A category's list is a sequence, whether or not it has any rule.        *)
LEMMA ForCategoryType ==
    ASSUME TypeOK, NEW category \in Category
    PROVE  for_category[category] \in Seq(RuleClass)
BY DEF TypeOK, for_category

(* What a registration does, accepted or refused.                          *)
LEMMA Registered ==
    ASSUME TypeOK, NEW rule \in RuleClass, register(rule)
    PROVE  \/ UNCHANGED <<by_id, by_category>>
           \/ /\ _validate(rule)
              /\ rule.category \in Category
              /\ by_id' = Put(by_id, rule.id, rule)
              /\ by_category' = Put(by_category, rule.category,
                                    Append(for_category[rule.category], rule))
BY DEF register

LEMMA TypeNext == TypeOK /\ [Next]_vars => TypeOK'
<1> SUFFICES ASSUME TypeOK, [Next]_vars PROVE TypeOK'
  OBVIOUS
<1>1. ASSUME NEW rule \in RuleClass, register(rule) PROVE TypeOK'
  <2>1. refused' \in BOOLEAN
    BY <1>1, Zenon DEF register
  <2>2. CASE UNCHANGED <<by_id, by_category>>
    BY <2>1, <2>2 DEF TypeOK
  <2>3. CASE ~UNCHANGED <<by_id, by_category>>
    <3>1. Append(for_category[rule.category], rule) \in Seq(RuleClass)
      BY ForCategoryType
    <3>2. /\ by_id' = Put(by_id, rule.id, rule)
          /\ by_category' = Put(by_category, rule.category,
                                Append(for_category[rule.category], rule))
      BY <1>1, <2>3, Registered
    <3>3. \A id \in DOMAIN by_id' : by_id'[id] \in RuleClass
      <4> TAKE id \in DOMAIN by_id'
      <4>1. CASE id = rule.id
        BY <3>2, <4>1 DEF Put
      <4>2. CASE id # rule.id
        <5>1. id \in DOMAIN by_id /\ by_id'[id] = by_id[id]
          BY <3>2, <4>2 DEF Put
        <5> QED
          BY <5>1 DEF TypeOK
      <4> QED
        BY <4>1, <4>2
    <3>4. /\ DOMAIN by_category' \subseteq Category
          /\ \A category \in DOMAIN by_category' : by_category'[category] \in Seq(RuleClass)
      <4>1. DOMAIN by_category' = DOMAIN by_category \cup {rule.category}
        BY <3>2 DEF Put
      <4>2. ASSUME NEW category \in DOMAIN by_category'
            PROVE  by_category'[category] \in Seq(RuleClass)
        <5>1. CASE category = rule.category
          BY <3>1, <3>2, <4>1, <5>1 DEF Put
        <5>2. CASE category # rule.category
          <6>1. category \in DOMAIN by_category /\ by_category'[category] = by_category[category]
            BY <3>2, <5>2, <4>1 DEF Put
          <6> QED
            BY <6>1 DEF TypeOK
        <5> QED
          BY <5>1, <5>2
      <4> QED
        BY <4>1, <4>2 DEF TypeOK
    <3> QED
      BY <2>1, <3>3, <3>4 DEF TypeOK
  <2> QED
    BY <2>2, <2>3
<1>2. CASE UNCHANGED vars
  BY <1>2 DEF vars, TypeOK
<1> QED
  BY <1>1, <1>2 DEF Next

(* TypeOK is an invariant of the registry.                                 *)
THEOREM TypeCorrect == Spec => []TypeOK
<1>1. Init => TypeOK
  BY DEF Init, TypeOK
<1> QED
  BY <1>1, TypeNext, PTL DEF Spec

(* What for_category returns after an accepted registration.               *)
LEMMA Appended ==
    ASSUME TypeOK, NEW rule \in RuleClass, rule.category \in Category,
           by_category' = Put(by_category, rule.category,
                              Append(for_category[rule.category], rule)),
           NEW category \in Category
    PROVE  for_category'[category] = IF category = rule.category
                                     THEN Append(for_category[category], rule)
                                     ELSE for_category[category]
<1> DEFINE list == Append(for_category[rule.category], rule)
<1>1. DOMAIN by_category' = DOMAIN by_category \cup {rule.category}
  BY DEF Put
<1>2. CASE category = rule.category
  <2>1. by_category'[category] = list
    BY <1>1, <1>2 DEF Put
  <2> QED
    BY <1>1, <1>2, <2>1 DEF for_category
<1>3. CASE category # rule.category
  <2>1. category \in DOMAIN by_category => by_category'[category] = by_category[category]
    BY <1>1, <1>3 DEF Put
  <2> QED
    BY <1>1, <1>3, <2>1 DEF for_category
<1> QED
  BY <1>2, <1>3

LEMMA PrefixOfItself ==
    ASSUME NEW s \in Seq(RuleClass)
    PROVE  IsPrefix(s, s) /\ Len(s) =< Len(s) + 1
<1>1. Len(s) \in Nat
  OBVIOUS
<1> QED
  BY <1>1 DEF IsPrefix

LEMMA PrefixOfAppended ==
    ASSUME NEW s \in Seq(RuleClass), NEW rule \in RuleClass
    PROVE  IsPrefix(s, Append(s, rule)) /\ Len(Append(s, rule)) =< Len(s) + 1
<1> DEFINE t == Append(s, rule)
<1>1. /\ Len(s) \in Nat /\ t \in Seq(RuleClass) /\ Len(t) = Len(s) + 1
      /\ \A i \in 1 .. Len(s) : t[i] = s[i]
  BY AppendProperties
<1> HIDE DEF t
<1>2. \A i \in 1 .. Len(s) : t[i] \in RuleClass /\ s[i] \in RuleClass
  BY <1>1
<1>3. SubSeq(t, 1, Len(s)) \in Seq(RuleClass) /\ Len(SubSeq(t, 1, Len(s))) = Len(s)
      /\ \A i \in 1 .. Len(s) : SubSeq(t, 1, Len(s))[i] = t[i]
  BY <1>1, <1>2, SubSeqProperties
<1>4. SubSeq(t, 1, Len(s)) = s
  BY <1>1, <1>3, SeqEqual
<1>5. SubSeq(s, 1, Len(s)) = s
  BY SubSeqFull
<1> QED
  BY <1>1, <1>4, <1>5 DEF IsPrefix, t

(* Published precedence only grows at its end.                             *)
THEOREM RanksKept == Spec => RanksOnlyGrow
<1> DEFINE Grows == \A category \in Category :
                       /\ IsPrefix(for_category[category], for_category'[category])
                       /\ Len(for_category'[category]) =< Len(for_category[category]) + 1
<1>1. TypeOK /\ [Next]_vars => [Grows]_vars
  <2> SUFFICES ASSUME TypeOK, Next, NEW category \in Category
               PROVE  /\ IsPrefix(for_category[category], for_category'[category])
                      /\ Len(for_category'[category]) =< Len(for_category[category]) + 1
    BY Zenon DEF vars
  <2>1. PICK rule \in RuleClass : register(rule)
    BY DEF Next
  <2>2. for_category[category] \in Seq(RuleClass)
    BY ForCategoryType
  <2>3. \/ for_category'[category] = for_category[category]
        \/ for_category'[category] = Append(for_category[category], rule)
    <3>1. CASE UNCHANGED <<by_id, by_category>>
      BY <3>1 DEF for_category
    <3>2. CASE ~UNCHANGED <<by_id, by_category>>
      BY <2>1, <3>2, Registered, Appended
    <3> QED
      BY <3>1, <3>2
  <2>4. CASE for_category'[category] = for_category[category]
    BY <2>2, <2>4, PrefixOfItself
  <2>5. CASE for_category'[category] = Append(for_category[category], rule)
    BY <2>2, <2>5, PrefixOfAppended
  <2> QED
    BY <2>3, <2>4, <2>5
<1> QED
  BY <1>1, TypeCorrect, PTL DEF Spec, RanksOnlyGrow

-----------------------------------------------------------------------------
LEMMA RuleNext == TypeOK /\ OneRulePerId /\ [Next]_vars => OneRulePerId'
<1> SUFFICES ASSUME TypeOK, OneRulePerId, [Next]_vars PROVE OneRulePerId'
  OBVIOUS
<1>1. CASE UNCHANGED <<by_id, by_category>>
  BY <1>1 DEF OneRulePerId, for_category
<1>2. CASE ~UNCHANGED <<by_id, by_category>>
  <2>1. PICK rule \in RuleClass : register(rule)
    BY <1>2 DEF Next, vars
  <2> DEFINE list == for_category[rule.category]
  <2>2. /\ rule.id \notin DOMAIN by_id
        /\ rule.category \in Category
        /\ by_id' = Put(by_id, rule.id, rule)
        /\ by_category' = Put(by_category, rule.category, Append(list, rule))
    BY <1>2, <2>1, Registered DEF _validate
  <2>3. /\ DOMAIN by_id' = DOMAIN by_id \cup {rule.id}
        /\ by_id'[rule.id] = rule
        /\ \A id \in DOMAIN by_id : by_id'[id] = by_id[id]
    BY <2>2 DEF Put
  <2>4. /\ DOMAIN by_category' = DOMAIN by_category \cup {rule.category}
        /\ DOMAIN by_category \subseteq Category
    BY <2>2 DEF Put, TypeOK
  <2>5. ASSUME NEW category \in Category
        PROVE  for_category'[category] = IF category = rule.category
                                         THEN Append(for_category[category], rule)
                                         ELSE for_category[category]
    BY <2>2, Appended
  <2>6. list \in Seq(RuleClass) /\ Len(list) \in Nat
    BY <2>2, ForCategoryType
  <2>7. ASSUME NEW category \in Category, NEW i \in DOMAIN for_category'[category]
        PROVE  LET r == for_category'[category][i]
               IN  /\ r.category = category
                   /\ r.id \in DOMAIN by_id' /\ by_id'[r.id] = r
                   /\ \A j \in DOMAIN for_category'[category] \ {i} :
                         for_category'[category][j].id # r.id
    <3> DEFINE old == for_category[category]
               new == for_category'[category]
    <3>1. old \in Seq(RuleClass) /\ Len(old) \in Nat
      BY ForCategoryType
    <3>2. \A k \in DOMAIN old :
             /\ old[k].category = category
             /\ old[k].id \in DOMAIN by_id /\ by_id[old[k].id] = old[k]
             /\ \A j \in DOMAIN old \ {k} : old[j].id # old[k].id
      BY DEF OneRulePerId
    <3>3. new = IF category = rule.category THEN Append(old, rule) ELSE old
      BY <2>5
    <3> HIDE DEF old, new
    <3>4. CASE category # rule.category
      <4>1. new = old
        BY <3>3, <3>4
      <4> QED
        BY <2>3, <2>7, <3>2, <4>1 DEF new
    <3>5. CASE category = rule.category
      <4>1. /\ DOMAIN new = 1 .. Len(old) + 1 /\ DOMAIN old = 1 .. Len(old)
            /\ new[Len(old) + 1] = rule
            /\ \A k \in 1 .. Len(old) : new[k] = old[k]
        BY <3>1, <3>3, <3>5, AppendProperties
      <4>2. \A k \in 1 .. Len(old) : old[k].id # rule.id
        BY <2>2, <3>2, <4>1
      <4>3. i \in 1 .. Len(old) \/ i = Len(old) + 1
        BY <2>7, <3>1, <4>1 DEF new
      <4>4. CASE i \in 1 .. Len(old)
        <5>1. new[i] = old[i] /\ i \in DOMAIN old
          BY <4>1, <4>4
        <5>2. \A j \in DOMAIN new \ {i} : new[j].id # old[i].id
          <6> TAKE j \in DOMAIN new \ {i}
          <6>1. CASE j \in 1 .. Len(old)
            BY <3>2, <4>1, <5>1, <6>1
          <6>2. CASE j = Len(old) + 1
            BY <4>1, <4>2, <4>4, <6>2
          <6> QED
            BY <3>1, <4>1, <6>1, <6>2
        <5>3. old[i].category = category /\ old[i].id \in DOMAIN by_id'
              /\ by_id'[old[i].id] = old[i]
          BY <2>3, <3>2, <5>1
        <5> QED
          BY <5>1, <5>2, <5>3 DEF new
      <4>5. CASE i = Len(old) + 1
        <5>1. new[i] = rule
          BY <4>1, <4>5
        <5>2. \A j \in DOMAIN new \ {i} : new[j].id # rule.id
          <6> TAKE j \in DOMAIN new \ {i}
          <6>1. j \in 1 .. Len(old)
            BY <3>1, <4>1, <4>5
          <6> QED
            BY <4>1, <4>2, <6>1
        <5> QED
          BY <2>3, <3>5, <5>1, <5>2 DEF new
      <4> QED
        BY <4>3, <4>4, <4>5
    <3> QED
      BY <3>4, <3>5
  <2>8. ASSUME NEW id \in DOMAIN by_id'
        PROVE  by_id'[id].id = id /\ by_id'[id] \in Range(for_category'[by_id'[id].category])
    <3>1. CASE id = rule.id
      <4>1. for_category'[rule.category] = Append(list, rule)
        BY <2>2, <2>5
      <4>2. rule \in Range(Append(list, rule))
        <5>1. /\ DOMAIN Append(list, rule) = 1 .. Len(list) + 1
              /\ Append(list, rule)[Len(list) + 1] = rule
              /\ Len(list) + 1 \in 1 .. Len(list) + 1
          BY <2>6, AppendProperties
        <5> QED
          BY <5>1 DEF Range
      <4> QED
        BY <2>3, <3>1, <4>1, <4>2
    <3>2. CASE id # rule.id
      <4> DEFINE r == by_id[id]
                 old == for_category[r.category]
      <4>1. id \in DOMAIN by_id /\ by_id'[id] = r
        BY <2>3, <2>8, <3>2
      <4>2. r.id = id /\ r \in Range(old)
        BY <4>1 DEF OneRulePerId
      <4>3. r \in RuleClass /\ r.category \in Category
        BY <4>1 DEF TypeOK
      <4>4. old \in Seq(RuleClass)
        BY <4>3, ForCategoryType
      <4>5. for_category'[r.category] = IF r.category = rule.category THEN Append(old, rule) ELSE old
        BY <2>5, <4>3
      <4>6. Range(old) \subseteq Range(Append(old, rule))
        <5> HIDE DEF old
        <5>1. /\ DOMAIN Append(old, rule) = 1 .. Len(old) + 1 /\ DOMAIN old = 1 .. Len(old)
              /\ \A k \in 1 .. Len(old) : Append(old, rule)[k] = old[k]
              /\ 1 .. Len(old) \subseteq 1 .. Len(old) + 1
          BY <4>4, AppendProperties
        <5> QED
          BY <5>1 DEF Range
      <4> QED
        BY <4>1, <4>2, <4>5, <4>6
    <3> QED
      BY <3>1, <3>2
  <2> QED
    BY <2>7, <2>8, Zenon DEF OneRulePerId
<1> QED
  BY <1>1, <1>2

(* The two ways to a rule agree, whatever is registered in whatever order. *)
THEOREM RegistryConsistent == Spec => []OneRulePerId
<1>1. Init => OneRulePerId
  BY DEF Init, OneRulePerId, for_category
<1> QED
  BY <1>1, RuleNext, TypeCorrect, PTL DEF Spec

-----------------------------------------------------------------------------
(* Two parts of a sequence without repeats share nothing.                  *)
LEMMA PartsDisjoint ==
    ASSUME NEW s \in Seq(STRING), NEW t \in Seq(STRING), IsInjective(s \o t)
    PROVE  Range(s) \cap Range(t) = {} /\ IsInjective(s)
<1> DEFINE u == s \o t
<1>1. /\ Len(s) \in Nat /\ Len(t) \in Nat /\ Len(u) = Len(s) + Len(t)
      /\ DOMAIN s = 1 .. Len(s) /\ DOMAIN t = 1 .. Len(t) /\ DOMAIN u = 1 .. Len(u)
      /\ \A i \in 1 .. Len(u) : u[i] = IF i =< Len(s) THEN s[i] ELSE t[i - Len(s)]
  BY ConcatProperties
<1>2. \A i, j \in DOMAIN u : u[i] = u[j] => i = j
  BY DEF IsInjective
<1> HIDE DEF u
<1>3. ASSUME NEW i \in DOMAIN s, NEW j \in DOMAIN t PROVE s[i] # t[j]
  <2>1. /\ i \in DOMAIN u /\ j + Len(s) \in DOMAIN u /\ i # j + Len(s)
        /\ i =< Len(s) /\ ~(j + Len(s) =< Len(s)) /\ (j + Len(s)) - Len(s) = j
    BY <1>1
  <2>2. u[i] = s[i] /\ u[j + Len(s)] = t[j]
    BY <1>1, <2>1
  <2> QED
    BY <1>2, <2>1, <2>2
<1>4. ASSUME NEW i \in DOMAIN s, NEW j \in DOMAIN s, s[i] = s[j] PROVE i = j
  <2>1. i \in DOMAIN u /\ j \in DOMAIN u /\ u[i] = s[i] /\ u[j] = s[j]
    BY <1>1
  <2> QED
    BY <1>2, <1>4, <2>1
<1> QED
  BY <1>3, <1>4 DEF Range, IsInjective

LEMMA PartsContained ==
    ASSUME NEW s \in Seq(STRING), NEW t \in Seq(STRING)
    PROVE  Range(s) \cup Range(t) \subseteq Range(s \o t)
<1> DEFINE u == s \o t
<1>1. /\ Len(s) \in Nat /\ Len(t) \in Nat /\ Len(u) = Len(s) + Len(t)
      /\ DOMAIN s = 1 .. Len(s) /\ DOMAIN t = 1 .. Len(t) /\ DOMAIN u = 1 .. Len(u)
      /\ \A i \in 1 .. Len(u) : u[i] = IF i =< Len(s) THEN s[i] ELSE t[i - Len(s)]
  BY ConcatProperties
<1> HIDE DEF u
<1>2. \A i \in DOMAIN s : i \in DOMAIN u /\ u[i] = s[i]
  BY <1>1
<1>3. ASSUME NEW i \in DOMAIN t PROVE i + Len(s) \in DOMAIN u /\ u[i + Len(s)] = t[i]
  <2>1. i + Len(s) \in DOMAIN u /\ ~(i + Len(s) =< Len(s)) /\ (i + Len(s)) - Len(s) = i
    BY <1>1
  <2> QED
    BY <1>1, <2>1
<1>4. Range(s) \cup Range(t) \subseteq Range(u)
  BY <1>2, <1>3 DEF Range
<1> QED
  BY <1>4 DEF u

LEMMA KindsDisjoint ==
    ASSUME NEW rule \in RuleClass, IsInjective(Declared(rule))
    PROVE  /\ Range(rule.guards) \cap (Range(rule.requires) \cup Range(rule.optional)) = {}
           /\ Range(rule.requires) \cap Range(rule.optional) = {}
<1> DEFINE read == rule.requires \o rule.optional
<1>1. read \in Seq(STRING) /\ rule.guards \in Seq(STRING)
      /\ rule.requires \in Seq(STRING) /\ rule.optional \in Seq(STRING)
  OBVIOUS
<1>2. Range(read) \cap Range(rule.guards) = {} /\ IsInjective(read)
  BY <1>1, PartsDisjoint DEF Declared
<1>3. Range(rule.requires) \cap Range(rule.optional) = {}
  BY <1>1, <1>2, PartsDisjoint
<1>4. Range(rule.requires) \cup Range(rule.optional) \subseteq Range(read)
  BY <1>1, PartsContained
<1> QED
  BY <1>2, <1>3, <1>4

LEMMA GuardsNext == TypeOK /\ GuardsAreOnlyGuards /\ [Next]_vars => GuardsAreOnlyGuards'
<1> SUFFICES ASSUME TypeOK, GuardsAreOnlyGuards, [Next]_vars PROVE GuardsAreOnlyGuards'
  OBVIOUS
<1>1. CASE UNCHANGED <<by_id, by_category>>
  BY <1>1 DEF GuardsAreOnlyGuards, all_rules, for_category
<1>2. CASE ~UNCHANGED <<by_id, by_category>>
  <2>1. PICK rule \in RuleClass : register(rule)
    BY <1>2 DEF Next, vars
  <2>2. /\ _validate(rule) /\ rule.category \in Category
        /\ by_category' = Put(by_category, rule.category,
                              Append(for_category[rule.category], rule))
    BY <1>2, <2>1, Registered
  <2>3. ASSUME NEW r \in all_rules' PROVE r \in all_rules \cup {rule}
    <3>1. PICK category \in Category : r \in Range(for_category'[category])
      BY <2>3, Zenon DEF all_rules
    <3> DEFINE old == for_category[category]
    <3>2. old \in Seq(RuleClass)
      BY ForCategoryType
    <3>3. for_category'[category] = old \/ for_category'[category] = Append(old, rule)
      BY <2>2, Appended
    <3>4. Range(Append(old, rule)) \subseteq Range(old) \cup {rule}
      <4> HIDE DEF old
      <4>1. /\ DOMAIN old = 1 .. Len(old) /\ Len(old) \in Nat
            /\ DOMAIN Append(old, rule) = 1 .. Len(old) + 1
            /\ \A k \in 1 .. Len(old) : Append(old, rule)[k] = old[k]
            /\ Append(old, rule)[Len(old) + 1] = rule
        BY <3>2, AppendProperties
      <4>2. \A k \in 1 .. Len(old) + 1 : k \in 1 .. Len(old) \/ k = Len(old) + 1
        BY <4>1
      <4> SUFFICES ASSUME NEW x \in Range(Append(old, rule))
                   PROVE  x \in Range(old) \cup {rule}
        OBVIOUS
      <4>3. PICK k \in 1 .. Len(old) + 1 : x = Append(old, rule)[k]
        BY <4>1 DEF Range
      <4>4. CASE k \in 1 .. Len(old)
        BY <4>1, <4>3, <4>4 DEF Range
      <4>5. CASE k = Len(old) + 1
        BY <4>1, <4>3, <4>5
      <4> QED
        BY <4>2, <4>4, <4>5
    <3>5. Range(old) \subseteq all_rules
      BY DEF all_rules
    <3> QED
      BY <3>1, <3>3, <3>4, <3>5
  <2> QED
    BY <2>2, <2>3, KindsDisjoint DEF GuardsAreOnlyGuards, _validate
<1> QED
  BY <1>1, <1>2

(* No rule that got in reads an input as two kinds.                        *)
THEOREM GuardsApart == Spec => []GuardsAreOnlyGuards
<1>1. Init => GuardsAreOnlyGuards
  BY DEF Init, GuardsAreOnlyGuards, all_rules, for_category, Range
<1> QED
  BY <1>1, GuardsNext, TypeCorrect, PTL DEF Spec

=============================================================================
