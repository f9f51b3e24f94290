\* Two instances start and restart, each with a request: create, promote, demote, disable, login.
SPECIFICATION Spec
CONSTANTS
    Emails = {root, bob}
    Passwords = {p1}
    SessionIds = {s1, s2}
    Requests = {r1, r2}
    Instances = {i1, i2}
    Home <- TwoInstances
    BootstrapEnabled = TRUE
    BootstrapEmail = root
    BootstrapPassword = p1
    InitialUsers <- FreshOrInUse
    CreateInputs <- NewAccounts
    UpdateInputs <- MostUpdates
    Endpoints = {"create", "update", "login"}
    None = None
    root = root
    bob = bob
    p1 = p1
    r1 = r1
    i1 = i1
    i2 = i2
SYMMETRY SameSessions
CONSTRAINT NotYetContended
INVARIANTS TypeOK
PROPERTIES TokensReflectAccounts AdminRemains BootstrapMakesTheFirstAdmin
