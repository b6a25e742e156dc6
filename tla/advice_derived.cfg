CONSTANTS
    None = None
    NotANumber = NotANumber
    Blank = Blank
    Raised = Raised
    SystemUnit = "F"
    Margin = 10
    Poles <- DerivedPoles
    Ceiling = 300
    Guards = {"outdoor_dew_point"}
    Entity <- DerivedEntity
    domain <- DerivedDomain
    Reports <- DerivedReports
    SharedForms <- DerivedShared
    RoomForms <- DerivedRoom
    MaxChanges = 1
    MaxTime = 2
SPECIFICATION Spec
INVARIANTS
    NeverRaises
    BrokenIsNotOptedOut
    AdvantageIsPhysical
    VacancyIsWhatWasWatched
