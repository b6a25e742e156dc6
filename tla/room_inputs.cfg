SPECIFICATION Spec
CONSTANTS
    f1 = f1  f2 = f2  a = a  b = b  d = d  t1 = t1  t2 = t2  w = w  p = p
    Room = {"r"}
    Form = {f1, f2}
    Area = {a, b}
    Device = {d}
    Entity = {t1, t2, w, p}
    domain <- MCDomain
    device <- MCDevice
    originalClass <- MCOriginalClass
    Entries <- MCEntries
    RoomEdits <- MCRoomEdits
    SharedEdits <- MCSharedEdits
    MaxMoves = 1
    MaxSubmits = 2
    NoArea = NoArea
    NoDevice = NoDevice
    NoClass = NoClass
    NewRoom = NewRoom
    Hub = Hub
    Nobody = Nobody
    Blank = Blank
SYMMETRY AnyForm
INVARIANTS
    TypeOK
    ClearedStaysOut
    ShowsWhatIsStored
PROPERTIES
    LeftAloneStays
    OffersWhatTheAreaHas
