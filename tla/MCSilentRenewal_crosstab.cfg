\* One call in each of two tabs sharing localstorage: createAuthokClient in tab t1 (checkSession) while tab t2 calls getTokenSilently; the cross-tab lock.
CONSTANTS
    t1 = t1
    t2 = t2
    c1 = c1
    c2 = c2
    c3 = c3
    NoEntry = NoEntry
    NoToken = NoToken
    NoCaller = NoCaller
    Tabs <- MCTabs
    Callers <- MCCrossTab
    CallerTab <- MCCallerTab
    Audiences <- MCAudiences
    ScopeSets <- MCScopeSets
    DefaultAudience = "default"
    DefaultScope <- MCDefaultScope
    Leeway = 1
    Lifetimes = {1, 2}
    MaxTime = 1
    MaxIssued = 2
    LOCK_ATTEMPTS = 2
    FETCH_RETRIES = 2
    UseRefreshTokens = TRUE
    CacheLocation = "localstorage"
    AuthErrors = {"login_required"}
    RotateRefreshTokens = TRUE
    IgnoreCacheOptions = {FALSE}
    CheckSessionCallers = {c1}
SPECIFICATION Spec
INVARIANT LockHeldOnlyByRenewer
INVARIANT RenewsOnlyOnMiss
