SPECIFICATION AccountsSpec
CONSTANTS
    Procs = {p1, p2}
    None = None
SYMMETRY Symmetry
INVARIANTS
    EnabledSecretIsVerified
    InvitedHasInvitation
    AdmissionsAreBounded
PROPERTIES
    SessionStepsAreSafe
