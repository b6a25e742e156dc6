SPECIFICATION Spec
CONSTANTS
    i1 = i1  i2 = i2  x = x  f1 = f1  f2 = f2  a = a  b = b
    office = office  study = study  OFFICE = OFFICE
    Id = {i1, x}
    Foreign = {x}
    Flow = {f1}
    Name = {office, study}
    Area = {a, b}
    AreaName <- MCAreaName
    NormalName <- MCSameName
    Option = {"o", "p"}
    MaxTasks = 2
    NoName = NoName
    NoArea = NoArea
    NoRoom = NoRoom
INVARIANTS
    TypeOK
    NoDanglingArea
    OnlyRoomsHaveDevices
    NoLostUpdate
    QuietIsDone
    HubInv
PROPERTIES
    SetupKeepsPlacement
