SPECIFICATION Spec
CONSTANTS
    Users = {u1, u2}
    Organizations = {o1, o2}
    Tokens = {t1, t2, t3}
    Requests = {r1, r2}
    None = None
SYMMETRY Symmetry
INVARIANTS
    TypeOK
    OneOwner
    LoginRestoresOrganization
    RotationIsAtomic
    SpentTokenIsRefused
    ForksAreBounded
CHECK_DEADLOCK FALSE
