CONSTANTS
    RuleClass <- MCRuleClass
    Category = {"window", "fan", "light"}
    Returns <- MCReturns
    Readables <- MCReadables
    None = None
    Raised = Raised
SPECIFICATION RunnerSpec
INVARIANTS
    TypeOK
    OneRulePerId
    AdviceIsItsOwn
    GuardsNeverGate
    EveryRuleAnswers
PROPERTIES
    RanksOnlyGrow
