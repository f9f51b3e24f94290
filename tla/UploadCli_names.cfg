\* Files whose names hold a character that ends the path of a URL.
SPECIFICATION CliSpec
CHECK_DEADLOCK FALSE
CONSTANTS
    Users = {owner}
    Cases = {c1}
    Names = {res1, script1, run}
    Labels = {"l1"}
    TestTypes <- OneType
    Bodies = {body1, body2}
    Requests = {r1}
    Principals <- OwnerOnly
    Uploads <- NoUploads
    Patches <- NoPatches
    PublishBodies <- OnlyPublic
    Endpoints = {}
    NoUser = NoUser
    None = None
    owner = owner
    stranger = stranger
    admin = admin
    body1 = body1
    body2 = body2
    script1 = script1
    res1 = res1
    FileNames = {res1, script1, run, hash1, hash2}
    Cut <- CutAtHash
    Invocations <- HashNames
    Caller <- Owner
    CliSlots = {r1}
    OtherSlots = {}
    MaxRuns = 1
    c1 = c1
    run = run
    hash1 = hash1
    hash2 = hash2
INVARIANTS EachFileIsAnArtifact
