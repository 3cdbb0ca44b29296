CONSTANTS
    c1 = c1  c2 = c2  c3 = c3  n1 = n1  n2 = n2  n3 = n3
    a = a  b = b  t = t  vx = vx  vy = vy  x = x  y = y
    Client = {c1, c2}
    Conn = {n1, n2}
    Key <- OneKey
    SLOTS_PER_SCOPE = 1
    KeyOf <- AllOnApp
    SlotForUser <- PreferFirst
    NoSlot = NoSlot
    NoClient = NoClient
    Command = {"build"}
    NoConn = NoConn
    NoFingerprint = NoFingerprint
    Path = {a, b}
    TargetPath = {}
    RootTarget = {}
    Above <- Flat
    Version = {vx, vy}
    Content = {x, y}
    Stat = {vx, vy}
    ContentOf <- MCContentOf
    StatOf <- MCStatOf
    Torn = Torn
    Absent = Absent
    LegacyClient = {}
    Checkouts <- MCCheckouts
    Hint <- AnyHint
    MaxEdits = 1
    MaxBreaks = 1
    MaxFailures = 1
    MaxUpsets = 2
    VanishAllowed = TRUE
SPECIFICATION Spec
SYMMETRY ConnSymmetry
INVARIANTS
    TypeOK
    SyncExact
    BuildReadsOwnTree
    TurnsAgree
    NoUnexpectedMessage
