CONSTANTS
    None = None
    NotANumber = NotANumber
    Blank = Blank
    Raised = Raised
    SystemUnit = "C"
    Margin = 0
    Poles = {}
    Ceiling = 135
    Guards = {"away", "rain_risk", "window_contacts"}
    Entity <- CloseEntity
    domain <- CloseDomain
    Reports <- CloseReports
    SharedForms <- CloseShared
    RoomForms <- CloseRoom
    MaxChanges = 2
    MaxTime = 0
SPECIFICATION Spec
INVARIANTS
    TypeOK
    NeverRaises
    AdviceIsTrue
