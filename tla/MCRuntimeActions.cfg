\* A Rovo action that is also declared under modules.function, called from outside the UI.
\* The system may stop once its calls are used up.
SPECIFICATION RuntimeSpec
CHECK_DEADLOCK FALSE
INVARIANTS
    ActionsStayUnscoped
CONSTANTS
    put1 = put1  put2 = put2  put3 = put3  strip = strip  move = move  hide = hide  add = add
    drop = drop  tx1 = tx1  unlock = unlock  eset = eset  edel = edel  tx2 = tx2
    bset = bset  bdel = bdel  oldTx = oldTx  wset = wset  wdel = wdel  sset = sset
    sdel = sdel  one = one  many = many  dmany = dmany  E = E  k1 = k1
    k2 = k2  k3 = k3  badKey = badKey  low = low  high = high
    hidden = hidden  bare = bare  big = big  Null = Null  Absent = Absent  NoRange = NoRange
    Calls = {put1, put2, put3, strip, move, hide, add, drop, tx1, unlock, eset, edel, tx2, bset,
             bdel, oldTx, wset, wdel, sset, sdel, one, many, dmany}
    PagedCalls <- MCPaged
    Entities = {E}
    Keys = {k1, k2, k3, badKey}
    ValidKeys = {k1, k2, k3}
    Values = {low, high, hidden, bare, big, Null}
    FitValues = {low, high, hidden, bare}
    Request <- MCRequest
    Needs <- MCNeeds
    Allowed <- MCAllowed
    MaxItems = 2
    MaxClock = 1
    Space = E
    Filtered = {low, high, bare}
    Scoped = {low, high, bare}
    Indexed = TRUE
    RangeOf <- MCRangeOf
    KeyRank <- MCKeyRank
    Descending = TRUE
    Limit = 1
    resolver = resolver
    trigger = trigger
    other = other
    consumer = consumer
    err = err
    NoScope = NoScope
    Ok = Ok
    Thrown = Thrown
    Scopes = {resolver, trigger, other}
    Outside = {consumer}
    Errors = {err}
    Parent <- MCParent
    Products = {"jira"}
    Remotes = {"backend"}
    Paths = {"myself", "myself?expand", "property"}
    SelfPaths = {"myself", "myself?expand"}
    WithoutQuery <- MCWithoutQuery
    Patterns = {"any path", "with query"}
    Covers <- MCCovers
    Replies = {"ok", "not found"}
    Accounts = {"site"}
    Seeded = {"lead"}
    People = {"ann"}
    Asks = {"ask"}
    MaxSwitches = 4
    Hooks = {"hook", "newer"}
    V2 = {"newer"}
    Hits = {"hit"}
    MaxUrls = 2
    MaxDeploys = 3
    Apps <- MCApps
    Names = {"ra", "rb", "get", "put", "act", "job", "flow", "hook"}
    MaxInstalls = 3
    Backgrounds = {"b1", "b2"}
    Events = {"e1"}
    Modals = {"m1", "m2", "m3", "m4"}
    OpensNext <- MCOpensNext
    Listeners = {"l1", "l2"}
    MaxNavs = 2
    Speaking = {"polyglot", "bilingual", "silent"}
    Locales = {"en", "fr", "ch"}
    DefaultLocale = "en"
    FilesOf <- MCFilesOf
    FallbacksOf <- MCFallbacksOf
    Lookups = {"first", "second"}
    MaxTurns = 2
    Agents = {"agent"}
    ToolCalls = {"c1", "c2"}
    ApiReplies <- MCApiReplies
    Scripts = {1, 2}
    CallsOf <- MCCallsOf
    MaxTalk = 5
    Firings = {1, 2, 3}
    Versions <- MCVersions
    Bodies = {"f", "g", "h"}
    Publishes <- MCPublishes
    ProductEvents = {"issue"}
    MaxVersions = 2
    FormFields = {"age", "name"}
    FillLists <- MCFillLists
    Fillings = {1}
    HeldNodes = {"node"}
    SqlCalls = {"mig", "again", "query", "schema", "reset", "stop"}
    ProgramOf <- MCProgramOf
    Migrations <- MCMigrations
    Restored = {"dumped"}
    MaxSqlCalls = 3
    MaxServers = 2
