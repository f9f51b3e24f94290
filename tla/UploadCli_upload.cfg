\* Two runs of the command, killed or cut off anywhere, beside another client.
SPECIFICATION CliSpec
CONSTANTS
    Users = {owner}
    Cases = {c1}
    Names = {res1, script1}
    Labels = {"l1"}
    TestTypes <- OneType
    Bodies = {body1, body2}
    Requests = {r1, r2}
    Principals <- OwnerOnly
    Uploads <- OnePlain
    Patches <- NoPatches
    PublishBodies <- OnlyPublic
    Endpoints = {"put", "delete"}
    NoUser = NoUser
    None = None
    owner = owner
    stranger = stranger
    admin = admin
    body1 = body1
    body2 = body2
    script1 = script1
    res1 = res1
    FileNames = {res1, script1}
    Cut <- NothingToCut
    Invocations <- Commands
    Caller <- Owner
    CliSlots = {r1, r2}
    OtherSlots = {r2}
    MaxRuns = 2
    c1 = c1
    run = run
    hash1 = hash1
    hash2 = hash2
INVARIANTS CliTypeOK SuccessMeansStored RefsAreConsistent ContentMatchesMetadata
PROPERTIES DeletedStaysDeleted
