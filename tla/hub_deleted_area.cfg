SPECIFICATION Spec
CONSTANTS
    i1 = i1  i2 = i2  x = x  f1 = f1  f2 = f2  a = a  b = b
    office = office  study = study  OFFICE = OFFICE
    Id = {i1}
    Foreign = {}
    Flow = {f1}
    Name = {office}
    Area = {a}
    AreaName <- MCOneAreaName
    NormalName <- MCSharedName
    Option = {"o"}
    MaxTasks = 1
    NoName = NoName
    NoArea = NoArea
    NoRoom = NoRoom
PROPERTIES
    EditedAreasExist
