\* Every endpoint, one request at a time, with failures.
SPECIFICATION Spec
CONSTANTS
    Users = {owner}
    Cases = {c1}
    Names = {res1, script1}
    Labels = {"l1"}
    TestTypes <- Types
    Bodies = {body1}
    Requests = {r1}
    Principals <- OwnerOnly
    Uploads <- SerialUploads
    Patches <- AllPatches
    PublishBodies <- AnyBody
    Endpoints = {"publish", "update", "put", "drop", "delete"}
    NoUser = NoUser
    None = None
    owner = owner
    stranger = stranger
    admin = admin
    body1 = body1
    body2 = body2
    script1 = script1
    res1 = res1
INVARIANTS TypeOK ArtifactsBelongToCases
PROPERTIES ImplementsLifecycle
