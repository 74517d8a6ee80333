SPECIFICATION MCSpec
CONSTANTS
    a1 = a1
    t1 = t1
    t2 = t2
    o1 = o1
    o2 = o2
    Organizations = {o1, o2}
    Agents = {a1}
    Tools = {t1, t2}
    OrgOf <- MCOrgOf
    InitialTables <- MCInitialTables
    WrittenTypes = {"http", "custom_js"}
    UpdateBodies <- MCUpdateBodies
    Updaters = {"u1", "u2"}
    MaxRequests = 3
    MaxBytes = 3
    MaxRows = 2
    Pieces = {1, 2}
    RowSets <- MCRowSets
INVARIANTS
    TypeOK
    ConfigIsTrusted
    ToolsStayInOrganization
    AnswersAreTrue
PROPERTY EveryCallAnswers
CHECK_DEADLOCK FALSE
