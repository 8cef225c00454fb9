CONSTANTS
    Persons = {p1, p2}
    Convs = {c1}
    Places = {d1}
    k1 = k1
    k2 = k2
    Rooms <- MCRooms
    Bindings <- OneRoomEach
    Scopes <- OneNamed
    AcceptedBands = {"medium", "high"}
    None = None
    MaxIssued = 3
SPECIFICATION Spec
CHECK_DEADLOCK FALSE
SYMMETRY Symmetry
INVARIANTS
    TypeOK
    HandoffIsFinal
    RetiredSpeakerFades
