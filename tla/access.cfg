SPECIFICATION MCSpec
CONSTANTS
    eA = eA  eS = eS  eN = eN  p1 = p1  p2 = p2  NoLogin = NoLogin
    Workers = {w1, w2}
    Emails <- MCEmails
    SeedUsers <- MCSeedUsers
    NoUser = NoUser
    MaxCrashes = 1
    Calls = {c1, c2, c3}
    Keys <- MCKeys
    Limit <- MCLimit
    Window <- MCWindow
    RedisPool = 1
    NoKey = NoKey
    MaxTime = 3
    Hosts = {h1}
    Passwords = {p1, p2}
    Admins = {eA}
    AccessTTL = 1
    RefreshTTL = 2
    NoCall = NoCall
SYMMETRY MCSymmetry
CHECK_DEADLOCK FALSE
INVARIANTS
    AccountsTypeOK ServingImpliesSeeded SeedIsWhole RegistrationsLast
PROPERTIES
    AdmitsAtMostLimit RetryAfterHonoured SessionsLapse
