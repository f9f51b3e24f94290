\* Two requests of one user at once: login, refresh, logout, change of the password.
SPECIFICATION Spec
CONSTANTS
    Emails = {root}
    Passwords = {p1, p2}
    SessionIds = {s1, s2, s3}
    Requests = {r1, r2}
    Instances = {i1}
    Home <- OneInstance
    BootstrapEnabled = TRUE
    BootstrapEmail = root
    BootstrapPassword = p1
    InitialUsers <- InUse
    CreateInputs <- NoNewAccounts
    UpdateInputs <- NoUpdates
    Endpoints = {"login", "refresh", "logout", "password"}
    None = None
    root = root
    bob = bob
    p1 = p1
    r1 = r1
    i1 = i1
    i2 = i2
SYMMETRY SameInstance
INVARIANTS OneUsableSession
PROPERTIES EndedLoginStaysEnded PasswordChangesAreAuthorized TokensReflectAccounts
