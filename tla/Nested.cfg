CONSTANTS
    c1 = c1  c2 = c2  c3 = c3  n1 = n1  n2 = n2  n3 = n3
    a = a  b = b  t = t  vx = vx  vy = vy  x = x  y = y
    Client = {c1, c2}
    Conn = {n1, n2}
    Key <- OneKey
    SLOTS_PER_SCOPE = 1
    KeyOf <- AllOnApp
    SlotForUser <- PreferFirst
    NoSlot = NoSlot
    NoClient = NoClient
    Command = {"build", "clean"}
    NoConn = NoConn
    NoFingerprint = NoFingerprint
    Path = {a, b, t}
    TargetPath = {t}
    RootTarget = {t}
    Above <- BInsideA
    Version = {vx, vy}
    Content = {x, y}
    Stat = {vx, vy}
    ContentOf <- MCContentOf
    StatOf <- MCStatOf
    Torn = Torn
    Absent = Absent
    LegacyClient = {c2}
    Checkouts <- SwappedCheckouts
    Hint <- NestedHint
    MaxEdits = 1
    MaxBreaks = 1
    MaxFailures = 1
    MaxUpsets = 1
    VanishAllowed = TRUE
SPECIFICATION Spec
SYMMETRY ConnSymmetry
INVARIANTS
    SyncExact
    NoUnexpectedMessage
    SlotInv
PROPERTIES
    SlotsAreLocks
    TreeSteady
