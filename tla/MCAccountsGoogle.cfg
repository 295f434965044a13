CONSTANTS
    Requests = {r1, r2}
    ann = ann
    pw1 = pw1
    Emails = {ann}
    Passwords = {pw1, long}
    Unhashable = {long}
    Subjects = {s1, s2}
    None = None
    Initials <- MCInitials
    MaxFaults = 1
    MaxRestarts = 1
    MaxOutages = 1
SPECIFICATION Spec
PROPERTIES
    ValidGoogleTokensAreVerified
CHECK_DEADLOCK FALSE
