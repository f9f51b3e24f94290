\* A reader beside one writing request: every endpoint, every kind of caller.
SPECIFICATION ReadSpec
CONSTANTS
    Users = {owner, admin}
    Cases = {c1}
    Names = {res1}
    Labels = {"l1"}
    TestTypes <- OneType
    Bodies = {body1, body2}
    Requests = {r1}
    Principals <- ReadWriters
    Uploads <- ReadUploads
    Patches <- VisibilityPatches
    PublishBodies <- OnlyPublic
    Endpoints = {"publish", "update", "put", "drop", "delete"}
    Readers = {g1}
    ReaderPrincipals <- OwnerAndAnonymous
    NoUser = NoUser
    None = None
    owner = owner
    stranger = stranger
    admin = admin
    body1 = body1
    body2 = body2
    script1 = script1
    res1 = res1
INVARIANTS ReadTypeOK ListsAgreeWithGet AnswersWerePermitted AnswersAreWhole ReferencesResolve
PROPERTIES OnlyManagersWrite
