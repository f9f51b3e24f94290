\* A link write and a PATCH, both stale, leave a public draft.
SPECIFICATION Spec
CONSTANTS
    Users = {owner}
    Cases = {c1}
    Names = {res1}
    Labels = {"l1"}
    TestTypes <- Types
    Bodies = {body1}
    Requests = {r1, r2}
    Principals <- OwnerOnly
    Uploads <- OneUpload
    Patches <- LifecyclePatches
    PublishBodies <- BothVisibilities
    Endpoints = {"publish", "update", "put"}
    NoUser = NoUser
    None = None
    owner = owner
    stranger = stranger
    admin = admin
    body1 = body1
    body2 = body2
    script1 = script1
    res1 = res1
SYMMETRY Symmetry
INVARIANTS DraftsAreAlwaysPrivate
