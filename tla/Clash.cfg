CONSTANTS
    c1 = c1  c2 = c2  c3 = c3  n1 = n1  n2 = n2  n3 = n3
    a = a  b = b  t = t  vx = vx  vy = vy  x = x  y = y
    Client = {c1, c2}
    Conn = {n1, n2}
    Key <- ClashingKeys
    SLOTS_PER_SCOPE = 1
    KeyOf <- OneEach
    SlotForUser <- PreferFirst
    NoSlot = NoSlot
    NoClient = NoClient
    Command = {"build"}
    NoConn = NoConn
    NoFingerprint = NoFingerprint
    Path = {a, b}
    TargetPath = {}
    RootTarget = {}
    Above <- Flat
    Version = {vx, vy}
    Content = {x, y}
    Stat = {vx, vy}
    ContentOf <- MCContentOf
    StatOf <- MCStatOf
    Torn = Torn
    Absent = Absent
    LegacyClient = {}
    Checkouts <- MCCheckouts
    Hint <- AnyHint
    MaxEdits = 0
    MaxBreaks = 0
    MaxFailures = 0
    MaxUpsets = 0
    VanishAllowed = FALSE
SPECIFICATION Spec
SYMMETRY ConnSymmetry
INVARIANTS
    DirectoryExclusive
