-------------------------- MODULE RuleRunner_proof --------------------------
(***************************************************************************)
(* Proofs about RuleRunner, for any rule classes and whatever their code   *)
(* comes to.                                                               *)
(***************************************************************************)
EXTENDS RuleRunner, RuleRegistry_proof

\* An evaluation's outcomes are still what its rules, ranked as they are
\* now, make of it: the lists they were taken from only grow at their end.
RunnerInv ==
    \/ given = NotYet
    \/ /\ given.category \in Category
       /\ outcomes # Raised =>
             /\ DOMAIN outcomes = DOMAIN given.returns
             /\ \A i \in DOMAIN outcomes :
                   /\ i \in DOMAIN for_category[given.category]
                   /\ outcomes[i] # Raised
                   /\ outcomes[i] = evaluate_rule(Ranked(i), given.readable, given.returns[i])

RegistryInv == TypeOK /\ OneRulePerId /\ GuardsAreOnlyGuards

-----------------------------------------------------------------------------
(* Running the rules is no step of the registry, registering one is.       *)
LEMMA RunnerNextIsRegistryNext == [RunnerNext]_allVars => [Next]_vars
BY DEF RunnerNext, allVars, Register, Evaluate, Next

(* A registry whose rules are run while it is filled is a registry: no     *)
(* evaluation adds to it, reorders it or takes a rule away, whatever the   *)
(* rules' own code comes to (evaluate_all only reads for_category).        *)
THEOREM RunnerIsRegistry == RunnerSpec => Spec
BY RunnerNextIsRegistryNext, PTL DEF RunnerSpec, RunnerInit, Spec

(* So what holds of a registry holds of it between evaluations as well:    *)
(* its indexes keep their types and agree (RuleRegistry.register), ...     *)
THEOREM RunnerConsistent == RunnerSpec => [](TypeOK /\ OneRulePerId /\ GuardsAreOnlyGuards)
BY RunnerIsRegistry, TypeCorrect, RegistryConsistent, GuardsApart, PTL

(* ... and no evaluation or registration changes a rank that a rule has.   *)
THEOREM RunnerKeepsRanks == RunnerSpec => RanksOnlyGrow
BY RunnerIsRegistry, RanksKept, PTL

(* A rule keeps its rank when others are registered.                       *)
LEMMA RankKept ==
    ASSUME TypeOK, NEW rule \in RuleClass, register(rule),
           NEW category \in Category, NEW i \in DOMAIN for_category[category]
    PROVE  /\ i \in DOMAIN for_category'[category]
           /\ for_category'[category][i] = for_category[category][i]
<1> DEFINE old == for_category[category]
<1>1. old \in Seq(RuleClass)
  BY ForCategoryType
<1>2. for_category'[category] = old \/ for_category'[category] = Append(old, rule)
  <2>1. CASE UNCHANGED <<by_id, by_category>>
    BY <2>1 DEF for_category
  <2>2. CASE ~UNCHANGED <<by_id, by_category>>
    BY <2>2, Registered, Appended
  <2> QED
    BY <2>1, <2>2
<1> HIDE DEF old
<1>3. i \in DOMAIN old
  BY DEF old
<1>4. i \in DOMAIN Append(old, rule) /\ Append(old, rule)[i] = old[i]
  BY <1>1, <1>3, AppendProperties
<1> QED
  BY <1>2, <1>3, <1>4 DEF old

(* What can be told from an outcome that did not raise.                    *)
LEMMA OutcomeTells ==
    ASSUME NEW rule, NEW readable, NEW returned, NEW outcome,
           outcome = evaluate_rule(rule, readable, returned), outcome # Raised
    PROVE  /\ outcome.rule_id = rule.id
           /\ outcome.unreadable_inputs = {key \in Range(rule.requires) : key \notin readable}
           /\ outcome.unreadable_inputs = {} => outcome.advisory = returned
           /\ outcome.advisory # None =>
                 /\ _check_advisory(rule, outcome.advisory)
                 /\ outcome.advisory.action \in advisable_actions(outcome.advisory.category)
<1> DEFINE unreadable == {key \in Range(rule.requires) : key \notin readable}
<1>1. CASE unreadable # {}
  BY <1>1 DEF evaluate_rule, Outcome
<1>2. CASE unreadable = {} /\ Made(returned) = None
  <2>1. returned = None
    BY <1>2, RunnerAssumption DEF Made
  <2> QED
    BY <1>2, <2>1 DEF evaluate_rule, Outcome
<1>3. CASE unreadable = {} /\ Made(returned) # None
  <2>1. /\ Made(returned) # Raised /\ _check_advisory(rule, Made(returned))
        /\ outcome = Outcome(rule, Made(returned), {})
    BY <1>3 DEF evaluate_rule
  <2>2. /\ Made(returned) = returned
        /\ returned.action \in advisable_actions(returned.category)
    BY <1>3, <2>1 DEF Made
  <2> QED
    BY <1>3, <2>1, <2>2 DEF Outcome
<1> QED
  BY <1>1, <1>2, <1>3

-----------------------------------------------------------------------------
LEMMA RunnerStart == RunnerInit => RunnerInv
BY DEF RunnerInit, RunnerInv

LEMMA RunnerStep == RegistryInv /\ RunnerInv /\ [RunnerNext]_allVars => RunnerInv'
<1> SUFFICES ASSUME RegistryInv, RunnerInv, [RunnerNext]_allVars PROVE RunnerInv'
  OBVIOUS
<1>1. ASSUME NEW rule \in RuleClass, Register(rule) PROVE RunnerInv'
  <2>1. register(rule) /\ UNCHANGED <<given, outcomes>>
    BY <1>1 DEF Register
  <2>2. CASE given = NotYet
    BY <2>1, <2>2 DEF RunnerInv, NotYet
  <2>3. CASE given # NotYet
    <3>1. given.category \in Category
      BY <2>3 DEF RunnerInv
    <3>2. \A i \in DOMAIN for_category[given.category] :
             /\ i \in DOMAIN for_category'[given.category]
             /\ for_category'[given.category][i] = for_category[given.category][i]
      BY <2>1, <3>1, RankKept DEF RegistryInv
    <3>3. \A i \in DOMAIN for_category[given.category] : Ranked(i)' = Ranked(i)
      BY <2>1, <3>2 DEF Ranked
    <3> QED
      BY <2>1, <2>3, <3>1, <3>2, <3>3 DEF RunnerInv
  <2> QED
    BY <2>2, <2>3
<1>2. ASSUME NEW category \in Category, NEW readable \in Readables,
             NEW returns \in [DOMAIN for_category[category] -> AnyReturn],
             Evaluate(category, readable, returns)
      PROVE  RunnerInv'
  <2> DEFINE list == for_category[category]
             all == [i \in DOMAIN list |-> evaluate_rule(list[i], readable, returns[i])]
  <2>1. /\ given' = [category |-> category, readable |-> readable, returns |-> returns]
        /\ outcomes' = evaluate_all(list, readable, returns)
        /\ for_category' = for_category
    BY <1>2 DEF Evaluate, vars, for_category
  <2>2. outcomes' # Raised => outcomes' = all /\ \A i \in DOMAIN list : all[i] # Raised
    BY <2>1 DEF evaluate_all
  <2>3. /\ given'.category = category /\ given'.readable = readable
        /\ given'.returns = returns /\ DOMAIN returns = DOMAIN list
        /\ for_category'[given'.category] = list
    BY <2>1
  <2>4. \A i \in DOMAIN list : Ranked(i)' = list[i]
    BY <2>3 DEF Ranked
  <2> HIDE DEF list
  <2> QED
    BY <2>2, <2>3, <2>4 DEF RunnerInv
<1>3. CASE UNCHANGED allVars
  BY <1>3 DEF allVars, vars, RunnerInv, Ranked, for_category
<1> QED
  BY <1>1, <1>2, <1>3 DEF RunnerNext

LEMMA RunnerSound == RunnerSpec => [](RegistryInv /\ RunnerInv)
<1>1. RunnerSpec => []RegistryInv
  BY RunnerConsistent DEF RegistryInv
<1> QED
  BY <1>1, RunnerStart, RunnerStep, PTL DEF RunnerSpec

-----------------------------------------------------------------------------
(* Advice can be traced to the rule that gave it, whatever the rules' own  *)
(* code hands back and whatever is registered meanwhile (_check_advisory). *)
THEOREM AdviceTraced == RunnerSpec => []AdviceIsItsOwn
<1>1. RegistryInv /\ RunnerInv => AdviceIsItsOwn
  <2> SUFFICES ASSUME RegistryInv, RunnerInv, Concluded, NEW i \in DOMAIN outcomes,
                      outcomes[i].advisory # None
               PROVE  LET advisory == outcomes[i].advisory
                      IN  /\ advisory.rule_id \in DOMAIN by_id
                          /\ by_id[advisory.rule_id] = Ranked(i)
                          /\ advisory.category = given.category
                          /\ advisory.reason_code = Ranked(i).reason_code
                          /\ advisory.action \in advisable_actions(given.category)
                          /\ \A j \in DOMAIN outcomes \ {i} :
                                outcomes[j].advisory # None =>
                                   outcomes[j].advisory.rule_id # advisory.rule_id
    BY DEF AdviceIsItsOwn
  <2> DEFINE list == for_category[given.category]
  <2>1. /\ given.category \in Category
        /\ \A j \in DOMAIN outcomes :
              /\ j \in DOMAIN list /\ outcomes[j] # Raised
              /\ outcomes[j] = evaluate_rule(Ranked(j), given.readable, given.returns[j])
    BY DEF RunnerInv, Concluded
  <2>2. \A j \in DOMAIN outcomes : outcomes[j].advisory # None =>
           /\ _check_advisory(Ranked(j), outcomes[j].advisory)
           /\ outcomes[j].advisory.action \in advisable_actions(outcomes[j].advisory.category)
    BY <2>1, OutcomeTells
  <2>3. \A j \in DOMAIN list :
           /\ list[j].category = given.category
           /\ list[j].id \in DOMAIN by_id /\ by_id[list[j].id] = list[j]
           /\ \A k \in DOMAIN list \ {j} : list[k].id # list[j].id
    BY <2>1, Zenon DEF RegistryInv, OneRulePerId
  <2>4. \A j : Ranked(j) = list[j]
    BY DEF Ranked
  <2> HIDE DEF list
  <2>5. \A j \in DOMAIN outcomes : outcomes[j].advisory # None =>
           outcomes[j].advisory.rule_id = list[j].id
    BY <2>2, <2>4 DEF _check_advisory
  <2>6. outcomes[i].advisory.category = given.category
    BY <2>1, <2>2, <2>3, <2>4 DEF _check_advisory
  <2>7. outcomes[i].advisory.action \in advisable_actions(given.category)
    BY <2>2, <2>6
  <2>8. outcomes[i].advisory.reason_code = Ranked(i).reason_code
    BY <2>2 DEF _check_advisory
  <2> QED
    BY <2>1, <2>3, <2>4, <2>5, <2>6, <2>7, <2>8
<1> QED
  BY <1>1, RunnerSound, PTL

(* No guard keeps a rule from running (_validate keeps the kinds apart).   *)
THEOREM GuardsHarmless == RunnerSpec => []GuardsNeverGate
<1>1. RegistryInv /\ RunnerInv => GuardsNeverGate
  <2> SUFFICES ASSUME RegistryInv, RunnerInv, Concluded, NEW i \in DOMAIN outcomes
               PROVE  /\ outcomes[i].unreadable_inputs \cap Range(Ranked(i).guards) = {}
                      /\ Range(Ranked(i).requires) \subseteq given.readable =>
                            outcomes[i].unreadable_inputs = {}
    BY DEF GuardsNeverGate
  <2>1. /\ given.category \in Category /\ i \in DOMAIN for_category[given.category]
        /\ outcomes[i] # Raised
        /\ outcomes[i] = evaluate_rule(Ranked(i), given.readable, given.returns[i])
    BY DEF RunnerInv, Concluded
  <2>2. outcomes[i].unreadable_inputs =
           {key \in Range(Ranked(i).requires) : key \notin given.readable}
    BY <2>1, OutcomeTells
  <2>3. Ranked(i) \in all_rules
    BY <2>1 DEF Ranked, all_rules, Range
  <2>4. Range(Ranked(i).guards) \cap Range(Ranked(i).requires) = {}
    BY <2>3 DEF RegistryInv, GuardsAreOnlyGuards
  <2> QED
    BY <2>2, <2>4
<1> QED
  BY <1>1, RunnerSound, PTL

(* No rule's answer is missing, another's, or made up (evaluate_all).      *)
THEOREM AllAnswer == RunnerSpec => []EveryRuleAnswers
<1>1. RegistryInv /\ RunnerInv => EveryRuleAnswers
  <2> SUFFICES ASSUME RunnerInv, Concluded PROVE EveryRuleAnswers
    BY DEF EveryRuleAnswers
  <2>1. DOMAIN outcomes = DOMAIN given.returns
    BY DEF RunnerInv, Concluded
  <2>2. \A i \in DOMAIN outcomes :
           /\ outcomes[i].rule_id = Ranked(i).id
           /\ outcomes[i].unreadable_inputs = {} => outcomes[i].advisory = given.returns[i]
    BY OutcomeTells DEF RunnerInv, Concluded
  <2> QED
    BY <2>1, <2>2 DEF EveryRuleAnswers
<1> QED
  BY <1>1, RunnerSound, PTL

=============================================================================
