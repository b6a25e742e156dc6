----------------------------- MODULE RuleRunner -----------------------------
(***************************************************************************)
(* Rules being run (rules/base.py): a category's rules are offered a room  *)
(* in precedence order, each if what it requires can be read, and what a   *)
(* rule hands back has to be its own.  Rules may still be registered       *)
(* between one evaluation and the next.                                    *)
(*                                                                         *)
(* What a rule's own code makes of a room is open here; it may have bugs.  *)
(* RoomSnapshot has what the two rules that ship make of it.               *)
(***************************************************************************)
EXTENDS RuleRegistry

CONSTANTS
    Returns,   \* what each class's evaluate may come to: advice, None or Raised
    Readables, \* sets of inputs that may be readable together
    None,      \* no advice
    Raised     \* an exception

\* What a rule's code puts in an Advisory that the runner looks at.
Advice == [rule_id : STRING \X STRING, category : STRING, reason_code : STRING,
           action : STRING]

ASSUME RunnerAssumption ==
    /\ DOMAIN Returns = RuleClass
    /\ \A rule \in RuleClass : Returns[rule] \subseteq Advice \cup {None, Raised}
    /\ None \notin Advice /\ Raised # None

VARIABLES
    given,   \* history: the latest evaluation's category, what could be read,
             \* and what each rule's code would come to, in order
    outcomes \* its outcomes in the same order, or Raised

allVars == <<vars, given, outcomes>>

-----------------------------------------------------------------------------
advisable_actions(category) ==
    CASE category = "window" -> {"open", "close"}
      [] category = "fan" -> {"turn_on", "turn_off"}
      [] category = "light" -> {"turn_off"}

\* Advisory.__post_init__, where the rule makes one.
Made(returned) ==
    IF returned \in {None, Raised} THEN returned
    ELSE IF returned.action \in advisable_actions(returned.category) THEN returned ELSE Raised

\* Mutant: advice is matched by its category and its reason only.
_check_advisory_wording(rule, advisory) ==
    advisory.category = rule.category /\ advisory.reason_code = rule.reason_code

\* _check_advisory: whether it lets the advisory pass.
_check_advisory(rule, advisory) ==
    /\ advisory.rule_id = rule.id
    /\ advisory.category = rule.category
    /\ advisory.reason_code = rule.reason_code

Outcome(rule, advisory, unreadable) ==
    [rule_id |-> rule.id, advisory |-> advisory, unreadable_inputs |-> unreadable]

\* Mutant: a rule that raises has no advice.
evaluate_rule_caught(rule, readable, returned) ==
    LET unreadable == {key \in Range(rule.requires) : key \notin readable}
        advisory == Made(returned)
    IN  IF unreadable # {} THEN Outcome(rule, None, unreadable)
        ELSE IF advisory \in {None, Raised} THEN Outcome(rule, None, {})
        ELSE IF _check_advisory(rule, advisory) THEN Outcome(rule, advisory, {}) ELSE Raised

evaluate_rule(rule, readable, returned) ==
    LET unreadable == {key \in Range(rule.requires) : key \notin readable}
        advisory == Made(returned)
    IN  IF unreadable # {} THEN Outcome(rule, None, unreadable)
        ELSE IF advisory = None THEN Outcome(rule, None, {})
        ELSE IF advisory = Raised THEN Raised
        ELSE IF _check_advisory(rule, advisory) THEN Outcome(rule, advisory, {}) ELSE Raised

\* evaluate_all: an exception of one rule leaves no outcome of any.
evaluate_all(rules, readable, returns) ==
    LET all == [i \in DOMAIN rules |-> evaluate_rule(rules[i], readable, returns[i])]
    IN  IF \E i \in DOMAIN rules : all[i] = Raised THEN Raised ELSE all

-----------------------------------------------------------------------------
NotYet == [category |-> None, readable |-> {}, returns |-> <<>>]

RunnerInit == Init /\ given = NotYet /\ outcomes = <<>>

Register(rule) == register(rule) /\ UNCHANGED <<given, outcomes>>

\* evaluate_all over a category's rules, each of which comes to something.
Evaluate(category, readable, returns) ==
    /\ \A i \in DOMAIN returns : returns[i] \in Returns[for_category[category][i]]
    /\ given' = [category |-> category, readable |-> readable, returns |-> returns]
    /\ outcomes' = evaluate_all(for_category[category], readable, returns)
    /\ UNCHANGED vars

AnyReturn == UNION {Returns[rule] : rule \in RuleClass}

RunnerNext ==
    \/ \E rule \in RuleClass : Register(rule)
    \/ \E category \in Category, readable \in Readables :
          \E returns \in [DOMAIN for_category[category] -> AnyReturn] :
             Evaluate(category, readable, returns)

RunnerSpec == RunnerInit /\ [][RunnerNext]_allVars

-----------------------------------------------------------------------------
Concluded == given # NotYet /\ outcomes # Raised

\* The rule an outcome is of, by its rank.
Ranked(i) == for_category[given.category][i]

(* Advice can be told apart and traced: no two advisories of an evaluation *)
(* share an identity, and the rule the registry has under an advisory's    *)
(* identity is the one that gave it, is of that category, has that reason  *)
(* and may advise that action (_check_advisory, RuleRegistry._validate,    *)
(* Advisory).                                                              *)
AdviceIsItsOwn ==
    Concluded => \A i \in DOMAIN outcomes :
        LET advisory == outcomes[i].advisory
        IN  advisory # None =>
               /\ advisory.rule_id \in DOMAIN by_id
               /\ by_id[advisory.rule_id] = Ranked(i)
               /\ advisory.category = given.category
               /\ advisory.reason_code = Ranked(i).reason_code
               /\ advisory.action \in advisable_actions(given.category)
               /\ \A j \in DOMAIN outcomes \ {i} :
                     outcomes[j].advisory # None => outcomes[j].advisory.rule_id # advisory.rule_id

(* A guard that cannot be read never keeps a rule from running: whatever   *)
(* kept one from it is a required input, which a registered rule cannot    *)
(* also have declared as a guard (_validate, evaluate_rule).               *)
GuardsNeverGate ==
    Concluded => \A i \in DOMAIN outcomes :
        /\ outcomes[i].unreadable_inputs \cap Range(Ranked(i).guards) = {}
        /\ Range(Ranked(i).requires) \subseteq given.readable =>
              outcomes[i].unreadable_inputs = {}

(* Every rule of a category answers for itself, at the rank it still has   *)
(* when more rules have been registered: also one below a match.  That it  *)
(* has no advice means it said so, or could not run; never that its code   *)
(* failed (evaluate_all, evaluate_rule).                                   *)
EveryRuleAnswers ==
    Concluded =>
        /\ DOMAIN outcomes = DOMAIN given.returns
        /\ \A i \in DOMAIN outcomes :
              /\ outcomes[i].rule_id = Ranked(i).id
              /\ outcomes[i].unreadable_inputs = {} =>
                    outcomes[i].advisory = given.returns[i]

=============================================================================
