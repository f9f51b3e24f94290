\* Deletions against a stream of uploads, by callers who may and who may not.
SPECIFICATION FairSpec
CONSTANTS
    Users = {owner, stranger}
    Cases = {c1}
    Names = {res1, script1}
    Labels = {"l1"}
    TestTypes <- OneType
    Bodies = {body1}
    Requests = {r1, r2}
    Principals <- OwnerAndStranger
    Uploads <- OnePlain
    Patches <- NoPatches
    PublishBodies <- OnlyPublic
    Endpoints = {"put", "drop", "delete"}
    NoUser = NoUser
    None = None
    owner = owner
    stranger = stranger
    admin = admin
    body1 = body1
    body2 = body2
    script1 = script1
    res1 = res1
PROPERTIES EveryRequestEnds OnlyManagersWrite
