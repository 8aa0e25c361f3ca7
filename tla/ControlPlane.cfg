SPECIFICATION Spec
CHECK_DEADLOCK FALSE
SYMMETRY Interchangeable
CONSTANTS
    User = {u1, u2}
    Founder = u1
    Nobody = Nobody
    Process = {p1, p2}
    DeviceCode = {c1, c2}
    Ephemeral = {c2}
    NoToken = NoToken
    Workspace = {w1, w2}
    NoWorkspace = NoWorkspace
    Uses = 1
    Offers <- MCOffers
    Jobs <- MCJobs
    Flaky = {1}
    Eligible = {u1}
    StartingGrant = 2
    Amounts = {1, 2}
    Asks = 2
    Calls = 2
    LaunchAttempts = 2
    Files = 2
    Accepted = {1, 2}
    Page = 2
    Rounds = 2
    Resumes = 1
    MaxSize = 2
    Opens = 3
    Node = {n1}
    Work = {j1, j2}
    Grants = 2
    MaxSteps = 3
    Allowances = {0, 6}
    Prices = {1, 5}
    Funds = 3
    Deaths = 2
    Sizes = {0, 4}
    MaxFiles = 4
    MaxPages = 2
    MaxSlots = 3
    Versions = 2
    Fleets <- MCFleets
    Durations <- MCDurations
    TaskCounts = {1, 4}
    Deadlines = {Nothing, 17}
    Workloads <- MCWorkloads
    MaxRented = 4
    MaxRentedSteps = 2
    Grain = 16
    MinEvidence = 2
    Nothing = Nothing
    Buttons = {"guest"}
    MaxDemoRuns = 2
    Guest = {g1, g2}
INVARIANTS
    TypeOK
    RevokedTokenStaysDead
    ApproverOwnsMachine
    OneCliCredential
    InviteIsHonoured
    NotOverEntitled
    NewcomersShareOneAllowance
    NoDemandIsMissed
    CreditsAreMintedOnce
    OneWorkerNoCredential
    DeletionIsHonest
    ManifestIsWhole
    RowsAreOneHistory
    OneBorrowerEach
    NoWorkIsPassedBy
    AtMostOnePurchasePerDeath
    PostedJobIsWhole
    SchemaIsWhatIsRecorded
    QuotesAreSound
    PressesJoinTheRun
    JoinsConverge
PROPERTIES
    KeepsMatchBook
