CONSTANTS
    Requests = {r1, r2, r3}
    ann = ann
    pw1 = pw1
    Emails = {ann}
    Passwords = {pw1, pw2, long}
    Unhashable = {long}
    Subjects = {s1, s2}
    None = None
    Initials <- MCInitials
    MaxFaults = 1
    MaxRestarts = 1
    MaxOutages = 1
SPECIFICATION Spec
SYMMETRY Symmetry
INVARIANTS
    TypeOK
    RegistrationIsExclusive
    RefusedLeavesNoAccount
    TokenGoesToOwner
PROPERTIES
    IdentityIsStable
CHECK_DEADLOCK FALSE
