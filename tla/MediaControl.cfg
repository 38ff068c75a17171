\* Two rooms on one process, three calls of a room in flight. The behaviours end
\* when every stream was published and the process has ended.
SPECIFICATION Spec
CONSTANTS
    r1 = r1
    r2 = r2
    s1 = s1
    s2 = s2
    s3 = s3
    c1 = c1
    c2 = c2
    TIMEOUT_LIMIT = 1
    Rooms = {r1, r2}
    Streams = {s1, s2, s3}
    RoomOf <- TwoRooms
    Kind <- OneInput
    Clients = {c1, c2}
    Erizos = {e1}
    Recordings = {rec1}
    MaxCalls = 3
SYMMETRY ClientSymmetry
CHECK_DEADLOCK FALSE
INVARIANTS
    ControlIsSound
    OnlyInputsThrow
    SignalingFindsItsPeer
    ConnectionsAreHeld
PROPERTIES
    ExitLosesNothing
