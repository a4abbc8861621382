\* Two calls in one tab, with or without ignoreCache: single-flight, the lock, logout on login-required errors; every call settles under weak fairness of the calls, and the engine implements the TokenRequests contract.
CONSTANTS
    t1 = t1
    t2 = t2
    c1 = c1
    c2 = c2
    c3 = c3
    NoEntry = NoEntry
    NoToken = NoToken
    NoCaller = NoCaller
    Tabs <- MCOneTab
    Callers <- MCSameTab
    CallerTab <- MCCallerTab
    Audiences <- MCAudiences
    ScopeSets <- MCScopeSets
    DefaultAudience = "default"
    DefaultScope <- MCDefaultScope
    Leeway = 1
    Lifetimes = {2}
    MaxTime = 0
    MaxIssued = 2
    LOCK_ATTEMPTS = 2
    FETCH_RETRIES = 2
    UseRefreshTokens = TRUE
    CacheLocation = "memory"
    AuthErrors = {"login_required"}
    RotateRefreshTokens = TRUE
    IgnoreCacheOptions = {FALSE, TRUE}
    CheckSessionCallers = {}
SPECIFICATION Spec
INVARIANTS TypeOK LockHeldOnlyByRenewer SingleFlight
PROPERTIES CallsSettle RefinesTokenRequests
