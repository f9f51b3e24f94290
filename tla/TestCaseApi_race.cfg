\* Two requests of the owner at once: publish, patch, upload.
SPECIFICATION Spec
CONSTANTS
    Users = {owner}
    Cases = {c1}
    Names = {res1}
    Labels = {"l1"}
    TestTypes <- Types
    Bodies = {body1}
    Requests = {r1, r2}
    Principals <- OwnerOnly
    Uploads <- CanonicalUploads
    Patches <- LifecyclePatches
    PublishBodies <- BothVisibilities
    Endpoints = {"publish", "update", "put"}
    NoUser = NoUser
    None = None
    owner = owner
    stranger = stranger
    admin = admin
    body1 = body1
    body2 = body2
    script1 = script1
    res1 = res1
CONSTRAINT NotYetRaced
SYMMETRY Symmetry
INVARIANTS DraftIsPrivate
PROPERTIES PublicationIsFinal
