SPECIFICATION Spec
CONSTANTS
    i1 = i1  i2 = i2  x = x  f1 = f1  f2 = f2  a = a  b = b
    office = office  study = study  OFFICE = OFFICE
    Id = {i1, i2}
    Foreign = {}
    Flow = {f1, f2}
    Name = {office, OFFICE}
    Area = {a}
    AreaName <- MCOneAreaName
    NormalName <- MCSpeltName
    Option = {"o"}
    MaxTasks = 1
    NoName = NoName
    NoArea = NoArea
    NoRoom = NoRoom
SYMMETRY RoomsAndForms
INVARIANTS
    HeldAnswersHold
PROPERTIES
    FormsKeepTitles
