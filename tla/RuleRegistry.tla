---------------------------- MODULE RuleRegistry ----------------------------
(***************************************************************************)
(* The registry every rule registers into while the rule modules are       *)
(* imported (rules/base.py, rules/registry.py).  Registration is by        *)
(* decorator, in the order the classes are written, and registration order *)
(* is the precedence in which a category's advice is published.            *)
(*                                                                         *)
(* The id '<category>.<reason_code>' is the pair <<category, reason_code>>: *)
(* categories hold no dot, so the text is as unambiguous as the pair.      *)
(***************************************************************************)
EXTENDS Integers, FiniteSets, SequencesExt

CONSTANTS
    RuleClass,  \* the classes that may be decorated, by what they declare
    Category    \* the advice categories

ASSUME RegistryAssumption ==
    \A rule \in RuleClass :
        /\ rule.category \in Category
        /\ rule.requires \in Seq(STRING)
        /\ rule.optional \in Seq(STRING)
        /\ rule.guards \in Seq(STRING)
        /\ rule.activation_delay \in Int

Declared(rule) == rule.requires \o rule.optional \o rule.guards

VARIABLES
    by_id,       \* _by_id
    by_category, \* _by_category, without the categories that have no rule
    refused      \* whether the last registration raised RuleDefinitionError

vars == <<by_id, by_category, refused>>

-----------------------------------------------------------------------------
\* Mutant: a rule may read one input as two kinds.
_validate_kinds(rule) ==
    /\ rule.id \notin DOMAIN by_id
    /\ rule.id = <<rule.category, rule.reason_code>>
    /\ rule.activation_delay >= 0

_validate(rule) ==
    /\ rule.id \notin DOMAIN by_id
    /\ rule.id = <<rule.category, rule.reason_code>>
    /\ IsInjective(Declared(rule))
    /\ rule.activation_delay >= 0

for_category ==
    [category \in Category |->
        IF category \in DOMAIN by_category THEN by_category[category] ELSE <<>>]

all_rules == UNION {Range(for_category[category]) : category \in Category}

-----------------------------------------------------------------------------
Init ==
    /\ by_id = [id \in {} |-> {}]
    /\ by_category = [category \in {} |-> <<>>]
    /\ refused = FALSE

Put(f, key, value) == [k \in DOMAIN f \cup {key} |-> IF k = key THEN value ELSE f[k]]

\* Mutant: the rule is found by its id before it has been checked.
register_unchecked(rule) ==
    /\ by_id' = Put(by_id, rule.id, rule)
    /\ refused' = ~_validate(rule)
    /\ by_category' =
          IF refused' THEN by_category
          ELSE Put(by_category, rule.category, Append(for_category[rule.category], rule))

\* Mutant: the newest rule comes first.
register_newest_first(rule) ==
    /\ refused' = ~_validate(rule)
    /\ by_id' = IF refused' THEN by_id ELSE Put(by_id, rule.id, rule)
    /\ by_category' =
          IF refused' THEN by_category
          ELSE Put(by_category, rule.category, <<rule>> \o for_category[rule.category])

\* Mutant: rules are listed under their reason instead of their category.
register_by_reason(rule) ==
    /\ refused' = ~_validate(rule)
    /\ by_id' = IF refused' THEN by_id ELSE Put(by_id, rule.id, rule)
    /\ by_category' =
          IF refused' THEN by_category
          ELSE Put(by_category, rule.reason_code, Append(for_category[rule.category], rule))

\* RuleRegistry.register.
register(rule) ==
    /\ refused' = ~_validate(rule)
    /\ by_id' = IF refused' THEN by_id ELSE Put(by_id, rule.id, rule)
    /\ by_category' =
          IF refused' THEN by_category
          ELSE Put(by_category, rule.category, Append(for_category[rule.category], rule))

Next == \E rule \in RuleClass : register(rule)

Spec == Init /\ [][Next]_vars

-----------------------------------------------------------------------------
(* Type invariant.                                                         *)
TypeOK ==
    /\ \A id \in DOMAIN by_id : by_id[id] \in RuleClass
    /\ DOMAIN by_category \subseteq Category
    /\ \A category \in DOMAIN by_category : by_category[category] \in Seq(RuleClass)
    /\ refused \in BOOLEAN

(* The two ways to a rule agree: a rule is found by its id exactly if its  *)
(* category lists it, there once and nowhere else.  A refused registration *)
(* therefore leaves no trace of its rule (register validates first).       *)
OneRulePerId ==
    /\ \A category \in Category : \A i \in DOMAIN for_category[category] :
          LET rule == for_category[category][i]
          IN  /\ rule.category = category
              /\ rule.id \in DOMAIN by_id /\ by_id[rule.id] = rule
              /\ \A j \in DOMAIN for_category[category] \ {i} :
                    for_category[category][j].id # rule.id
    /\ \A id \in DOMAIN by_id :
          by_id[id].id = id /\ by_id[id] \in Range(for_category[by_id[id].category])

(* A guard is never also an input that gates or degrades the same rule,    *)
(* whichever rules have been registered: evaluate_rule would not run the   *)
(* rule in the case the guard is there for.                                *)
GuardsAreOnlyGuards ==
    \A rule \in all_rules :
        /\ Range(rule.guards) \cap (Range(rule.requires) \cup Range(rule.optional)) = {}
        /\ Range(rule.requires) \cap Range(rule.optional) = {}

(* Published precedence never changes under a category: a registration     *)
(* ranks its rule below every rule its category already has, and leaves    *)
(* the other categories alone (register appends).                          *)
RanksOnlyGrow ==
    [][\A category \in Category :
          /\ IsPrefix(for_category[category], for_category'[category])
          /\ Len(for_category'[category]) =< Len(for_category[category]) + 1]_vars

=============================================================================
