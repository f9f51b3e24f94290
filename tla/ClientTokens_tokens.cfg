\* Two users, who create, share, list, reveal and revoke tokens, two requests at once.
SPECIFICATION Spec
CONSTANTS
    None = None
    Users = {u1, u2}
    TokenIds = {t1, t2}
    Requests = {r1, r2}
    CreateInputs <- MixedInputs
SYMMETRY Symmetry
CONSTRAINT OneShared
INVARIANTS TypeOK InvalidTokensAreRefused ForeignTokensWereShared
PROPERTIES InvalidStaysInvalid
