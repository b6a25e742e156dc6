CONSTANTS
    None = None
    NotANumber = NotANumber
    Blank = Blank
    Raised = Raised
    SystemUnit = "C"
    Margin = 0
    Poles = {}
    Ceiling = 135
    Guards = {"outdoor_dew_point", "hvac", "occupancy", "lights", "away"}
    Entity <- GuardEntity
    domain <- GuardDomain
    Reports <- GuardReports
    SharedForms <- GuardShared
    RoomForms <- GuardRoom
    MaxChanges = 2
    MaxTime = 0
SPECIFICATION Spec
INVARIANTS
    PermitsOnlyWhatItSaw
PROPERTIES
    LossMakesCareful
