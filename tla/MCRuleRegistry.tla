--------------------------- MODULE MCRuleRegistry ---------------------------
(* The two rules that ship, rules of other categories, and rules that a    *)
(* registration must refuse; some of them hand back what is not theirs.    *)
EXTENDS RuleRunner

Declares(category, reason, requires, optional, guards, delay) ==
    [id |-> <<category, reason>>, category |-> category, reason_code |-> reason,
     requires |-> requires, optional |-> optional, guards |-> guards,
     activation_delay |-> delay]

AwaySecure == Declares("window", "away_secure", <<"away", "window_contacts">>, <<>>, <<>>, 0)
RainIncoming == Declares("window", "rain_incoming", <<"rain_risk", "window_contacts">>, <<>>, <<>>, 0)
Stuffy == Declares("window", "stuffy", <<"indoor_co2">>, <<"outdoor_air_quality">>, <<"rain_risk">>, 5)
Idle == Declares("fan", "idle", <<"fan">>, <<>>, <<>>, 1)
Forgotten == Declares("light", "forgotten", <<"lights", "unoccupied_for">>, <<>>, <<>>, 1)
Typo == Declares("light", "typo", <<"lihgts">>, <<>>, <<>>, 0)
Both == Declares("fan", "both", <<"fan">>, <<>>, <<"fan">>, 0)

MCRuleClass ==
    {AwaySecure, RainIncoming, Stuffy, Idle, Forgotten, Typo, Both,
     [RainIncoming EXCEPT !.requires = <<"away">>],
     [Stuffy EXCEPT !.reason_code = "damp"],
     Declares("light", "early", <<"lights">>, <<>>, <<>>, -1)}

Advises(rule, action) ==
    [rule_id |-> rule.id, category |-> rule.category, reason_code |-> rule.reason_code,
     action |-> action]

\* Advice as it should be, another rule's identity or reason copied, a failure,
\* and a light to be turned on, which no light rule may advise.
MCReturns ==
    [rule \in MCRuleClass |->
        CASE rule = AwaySecure -> {None, Advises(AwaySecure, "close")}
          [] rule = RainIncoming ->
                {None, Advises(RainIncoming, "close"),
                 [Advises(RainIncoming, "close") EXCEPT !.rule_id = AwaySecure.id]}
          [] rule = Stuffy ->
                {Advises(Stuffy, "open"), [Advises(Stuffy, "open") EXCEPT !.reason_code = "damp"],
                 Raised}
          [] rule = Forgotten -> {Advises(Forgotten, "turn_on"), Advises(Forgotten, "turn_off")}
          [] OTHER -> {None}]

MCReadables ==
    {{"away", "rain_risk", "window_contacts", "indoor_co2", "lights", "unoccupied_for", "fan"},
     {"window_contacts", "rain_risk"}, {"indoor_co2", "lights"}}
=============================================================================
