---------------------------- MODULE SilentRenewal ----------------------------
(***************************************************************************)
(* getTokenSilently of AuthokClient: the token cache and the concurrent    *)
(* silent-renewal engine, with the authorization server as environment.   *)
(*                                                                         *)
(* Callers are concurrent getTokenSilently calls.  Each runs in a tab (a   *)
(* JavaScript realm); the callers of one tab share the single-promise map  *)
(* of that realm, keyed by client_id::audience::scope.  All tabs share one *)
(* cross-tab lock (GET_TOKEN_SILENTLY_LOCK_KEY).  The cache store is one   *)
(* per tab for the in-memory cache and one for all tabs for localstorage.  *)
(*                                                                         *)
(* A call goes check -> lock -> recheck -> refresh | iframe -> exchange -> *)
(* store; pc records the await it is suspended on.  Every await of the     *)
(* code is a step boundary, so the steps of callers of all tabs and of the *)
(* environment interleave in every order.                                  *)
(***************************************************************************)
EXTENDS Integers, FiniteSets

CONSTANTS
    Tabs,               \* browser tabs (JavaScript realms)
    Callers,            \* concurrent getTokenSilently calls
    CallerTab,          \* the tab each caller runs in
    Audiences, ScopeSets, Leeway, NoEntry, NoToken,
    DefaultAudience,    \* audience of the login flows ('default')
    DefaultScope,       \* scope of the login flows
    Lifetimes,          \* expires_in values the token endpoint may return
    MaxTime,            \* bound on the clock
    MaxIssued,          \* bound on the tokens the server issues
    LOCK_ATTEMPTS,      \* retryPromise attempts of acquireLock (10)
    FETCH_RETRIES,      \* attempts of a token-endpoint fetch (3)
    UseRefreshTokens,   \* the useRefreshTokens option
    CacheLocation,      \* "memory" or "localstorage"
    AuthErrors,         \* OAuth errors the server may answer with
    RotateRefreshTokens,\* the server invalidates a refresh token on use
    IgnoreCacheOptions, \* the ignoreCache values callers pass
    CheckSessionCallers,\* callers that are checkSession, not getTokenSilently
    NoCaller            \* model value: free lock / empty single-promise slot

INSTANCE CacheManager

VARIABLES
    now,        \* the shared clock
    cache,      \* cache[s]: the token-set entries of store s
    rtRecord,   \* rtRecord[s]: the wildcard refresh-token record of store s
    cookie,     \* the authok.<client_id>.is.authenticated cookie
    session,    \* the user's session at the authorization server
    validRT,    \* refresh tokens the server still accepts
    issued,     \* tokens issued so far (the last token id)
    lock,       \* holder of the cross-tab lock, or NoCaller
    slot,       \* slot[t][f]: the caller running fingerprint f in tab t
    pc,         \* pc[c]: where call c is suspended
    req,        \* req[c]: the request of call c
    tries,      \* tries[c]: failed lock or fetch attempts of the current phase
    resp,       \* resp[c]: the token-endpoint response awaiting store
    result,     \* result[c]: how call c settled
    startIssued,\* history: issued when call c started
    spent,      \* history: refresh tokens the server redeemed and rotated out
    renewed     \* history: the tokens issued to renewals (not to logins)

vars == <<now, cache, rtRecord, cookie, session, validRT, issued, lock, slot,
          pc, req, tries, resp, result, startIssued, spent, renewed>>

Stores == IF CacheLocation = "localstorage" THEN {"localstorage"} ELSE Tabs
StoreOf(t) == IF CacheLocation = "localstorage" THEN "localstorage" ELSE t
Store(c) == StoreOf(CallerTab[c])

TokIds == 1..MaxIssued
Times == 0..(MaxTime + CHOOSE l \in Lifetimes : \A m \in Lifetimes : m <= l)
Requests == [aud : Audiences, scope : ScopeSets, ignoreCache : BOOLEAN]
\* The requests the modelled callers make.
Calls == [aud : Audiences, scope : ScopeSets, ignoreCache : IgnoreCacheOptions]
Fingerprints == Audiences \X ScopeSets
Fp(r) == <<r.aud, r.scope>>

\* Login-required errors end the silent session (RECOVERABLE_ERRORS).
LoginRequiredErrors == {"login_required", "consent_required",
                        "interaction_required", "account_selection_required",
                        "access_denied"}
Errors == LoginRequiredErrors \cup
          {"timeout", "network", "api_error"}
\* What a caller observed of its last call.
Outcomes == Errors \cup {"none", "token", "stale_token", "absorbed", "skipped"}
Ok(t) == [ok |-> TRUE, tok |-> t]
Err(e) == [ok |-> FALSE, err |-> e]

ASSUME /\ CallerTab \in [Callers -> Tabs]
       /\ DefaultAudience \in Audiences /\ DefaultScope \in ScopeSets
       /\ LOCK_ATTEMPTS \in Nat \ {0} /\ FETCH_RETRIES \in Nat \ {0}
       /\ CacheLocation \in {"memory", "localstorage"}
       /\ AuthErrors \subseteq LoginRequiredErrors \cup {"api_error"}
       /\ IgnoreCacheOptions \subseteq BOOLEAN
       /\ CheckSessionCallers \subseteq Callers
       /\ UseRefreshTokens \in BOOLEAN /\ RotateRefreshTokens \in BOOLEAN

Pcs == {"idle", "done", "joined", "check", "lock", "recheck", "refresh", "iframe",
        "exchange", "store"}
\* The awaits of _getTokenSilently between acquireLock and releaseLock.
LockedPcs == {"recheck", "refresh", "iframe", "exchange", "store"}
\* The callers that run _getTokenSilently (not those joined to a promise).
RunningPcs == Pcs \ {"idle", "done", "joined"}

\* The request of a caller that is not calling: getTokenSilently().
DefaultRequest == [aud |-> DefaultAudience, scope |-> DefaultScope,
                   ignoreCache |-> FALSE]

TypeOK ==
    /\ now \in 0..MaxTime
    /\ cache \in [Stores -> [CacheKeys -> Entry(TokIds, Times) \cup {NoEntry}]]
    /\ rtRecord \in [Stores -> [Audiences -> TokIds \cup {NoToken}]]
    /\ cookie \in BOOLEAN /\ session \in BOOLEAN
    /\ validRT \subseteq TokIds /\ issued \in 0..MaxIssued
    /\ lock \in Callers \cup {NoCaller}
    /\ slot \in [Tabs -> [Fingerprints -> Callers \cup {NoCaller}]]
    /\ pc \in [Callers -> Pcs]
    /\ req \in [Callers -> Requests]
    /\ tries \in [Callers -> 0..(LOCK_ATTEMPTS + FETCH_RETRIES)]
    /\ resp \in [Callers -> Entry(TokIds, Times) \cup {NoEntry}]
    /\ result \in [Callers -> Outcomes]
    /\ startIssued \in [Callers -> 0..MaxIssued]
    /\ spent \subseteq TokIds /\ renewed \subseteq TokIds

Init ==
    /\ now = 0
    /\ cache = [s \in Stores |-> EmptyStore]
    /\ rtRecord = [s \in Stores |-> EmptyRefreshRecord]
    /\ cookie = FALSE
    /\ session \in BOOLEAN
    /\ validRT = {} /\ issued = 0
    /\ lock = NoCaller
    /\ slot = [t \in Tabs |-> [f \in Fingerprints |-> NoCaller]]
    /\ pc = [c \in Callers |-> "idle"]
    /\ req = [c \in Callers |-> DefaultRequest]
    /\ tries = [c \in Callers |-> 0]
    /\ resp = [c \in Callers |-> NoEntry]
    /\ result = [c \in Callers |-> "none"]
    /\ startIssued = [c \in Callers |-> 0]
    /\ spent = {} /\ renewed = {}

(***************************************************************************)
(* Helpers of the actions.  Each caller makes one call: pc goes from     *)
(* "idle" to "done".  A step either continues the call (Continue) or       *)
(* settles its promise (Settle).                                           *)
(***************************************************************************)

\* The callers of c's tab awaiting the promise c runs (singlePromise).
Followers(c) ==
    {d \in Callers : /\ pc[d] = "joined"
                     /\ CallerTab[d] = CallerTab[c]
                     /\ Fp(req[d]) = Fp(req[c])}

\* What a caller d that began when startIssued[d] tokens had been issued
\* observes of a settled promise res: a token issued before it began is
\* recorded as "stale_token" when d asked to bypass the cache.  checkSession
\* catches the errors in RECOVERABLE_ERRORS and resolves ("absorbed").
Outcome(d, res) ==
    IF ~res.ok THEN IF d \in CheckSessionCallers /\ res.err \in LoginRequiredErrors
                    THEN "absorbed" ELSE res.err
    ELSE IF req[d].ignoreCache /\ res.tok <= startIssued[d] THEN "stale_token"
    ELSE "token"

\* Faulty variant of Settle: the single-promise entry is not deleted.
SettleKeepsSlot(c, res) ==
    LET done == {c} \cup Followers(c)
    IN  /\ pc' = [d \in Callers |-> IF d \in done THEN "done" ELSE pc[d]]
        /\ result' = [d \in Callers |->
                        IF d \in done THEN Outcome(d, res) ELSE result[d]]
        /\ UNCHANGED slot
        /\ tries' = [d \in Callers |-> IF d \in done THEN 0 ELSE tries[d]]
        /\ UNCHANGED <<req, startIssued>>

\* Faulty variant of Settle: only the runner observes the settled promise.
SettleRunnerOnly(c, res) ==
    /\ pc' = [pc EXCEPT ![c] = "done"]
    /\ result' = [result EXCEPT ![c] = Outcome(c, res)]
    /\ slot' = [slot EXCEPT ![CallerTab[c]][Fp(req[c])] = NoCaller]
    /\ tries' = [tries EXCEPT ![c] = 0]
    /\ UNCHANGED <<req, startIssued>>

\* The promise of c settles with res: c and every caller awaiting the same
\* promise observe res, and the .finally of singlePromise empties the slot.
Settle(c, res) ==
    LET done == {c} \cup Followers(c)
    IN  /\ pc' = [d \in Callers |-> IF d \in done THEN "done" ELSE pc[d]]
        /\ result' = [d \in Callers |->
                        IF d \in done THEN Outcome(d, res) ELSE result[d]]
        /\ slot' = [slot EXCEPT ![CallerTab[c]][Fp(req[c])] = NoCaller]
        /\ tries' = [d \in Callers |-> IF d \in done THEN 0 ELSE tries[d]]
        /\ UNCHANGED <<req, startIssued>>

\* The call c resumes at the await p with n failed attempts of its phase.
Continue(c, p, n) ==
    /\ pc' = [pc EXCEPT ![c] = p]
    /\ tries' = [tries EXCEPT ![c] = n]
    /\ UNCHANGED <<result, slot, req, startIssued>>

\* logout({localOnly: true}): cacheManager.clearSync() and removal of the
\* is.authenticated cookie; no navigation.
LocalLogout(s) ==
    /\ cache' = [cache EXCEPT ![s] = EmptyStore]
    /\ rtRecord' = [rtRecord EXCEPT ![s] = EmptyRefreshRecord]
    /\ cookie' = FALSE

\* Faulty variant of Fail: the lock is not released on an error.
FailKeepsLock(c, e) ==
    /\ UNCHANGED lock
    /\ Settle(c, Err(e))
    /\ IF e \in LoginRequiredErrors THEN LocalLogout(Store(c))
                                    ELSE UNCHANGED <<cache, rtRecord, cookie>>

\* A failure inside the try of _getTokenSilently: the finally releases the
\* lock before the promise rejects; a login-required error logs out first.
Fail(c, e) ==
    /\ lock' = NoCaller
    /\ Settle(c, Err(e))
    /\ IF e \in LoginRequiredErrors THEN LocalLogout(Store(c))
                                    ELSE UNCHANGED <<cache, rtRecord, cookie>>

\* Faulty variant of FetchFailed: a retry with no attempt limit.
FetchFailedUnbounded(c) ==
    /\ Continue(c, pc[c], tries[c] + 1)
    /\ UNCHANGED <<lock, cache, rtRecord, cookie>>

\* A fetch that rejects or is aborted by its timeout: retried until
\* FETCH_RETRIES attempts have failed, then the error propagates.
FetchFailed(c) ==
    \/ /\ tries[c] + 1 < FETCH_RETRIES
       /\ Continue(c, pc[c], tries[c] + 1)
       /\ UNCHANGED <<lock, cache, rtRecord, cookie>>
    \/ /\ tries[c] + 1 >= FETCH_RETRIES
       /\ Fail(c, "network")

\* The server's refresh tokens after it accepted rt and issued token n.
Rotated(rt, n) ==
    IF RotateRefreshTokens THEN (validRT \ {rt}) \cup {n} ELSE validRT \cup {n}

\* The token worker is used when the cache is in memory (getTokenSilently
\* tests 541-712: no worker with localstorage; browsers with Worker are
\* assumed).  The main-thread cache then never receives refresh_token
\* (loginWithPopup test 573): the refresh-token record of a tab's store
\* stands for the worker's, which takes the token from the exchange
\* response; otherwise cacheManager.set stores it with the entry.
InWorker == CacheLocation = "memory"

\* The refresh-token record of store s after token n was issued for a.
RecordRefreshToken(s, a, n) ==
    IF UseRefreshTokens THEN [rtRecord EXCEPT ![s] = SetRefreshToken(@, a, n)]
                        ELSE rtRecord

NewEntry(life) == [tok |-> issued + 1, exp |-> now + life, at |-> TRUE]

\* Faulty variant of SinglePromise: the single-promise map is not
\* consulted, every call runs _getTokenSilently and takes the entry over.
SinglePromiseNoJoin(c, r) ==
    /\ pc[c] = "idle"
    /\ slot' = [slot EXCEPT ![CallerTab[c]][Fp(r)] = c]
    /\ pc' = [pc EXCEPT ![c] = IF r.ignoreCache THEN "lock" ELSE "check"]
    /\ req' = [req EXCEPT ![c] = r]
    /\ startIssued' = [startIssued EXCEPT ![c] = issued]
    /\ UNCHANGED <<now, cache, rtRecord, cookie, session, validRT, issued, lock,
                   tries, resp, result>>

(***************************************************************************)
(* singlePromise(() => _getTokenSilently(..), client_id::audience::scope)  *)
(* for the request r of c.  A caller whose key is in flight awaits that    *)
(* promise; otherwise it runs _getTokenSilently, which reads the cache     *)
(* unless ignoreCache and else goes straight to acquireLock.               *)
(***************************************************************************)
SinglePromise(c, r) ==
    /\ pc[c] = "idle"
    /\ \/ /\ slot[CallerTab[c]][Fp(r)] # NoCaller
          /\ pc' = [pc EXCEPT ![c] = "joined"]
          /\ UNCHANGED slot
       \/ /\ slot[CallerTab[c]][Fp(r)] = NoCaller
          /\ slot' = [slot EXCEPT ![CallerTab[c]][Fp(r)] = c]
          /\ pc' = [pc EXCEPT ![c] = IF r.ignoreCache THEN "lock" ELSE "check"]
    /\ req' = [req EXCEPT ![c] = r]
    /\ startIssued' = [startIssued EXCEPT ![c] = issued]
    /\ UNCHANGED <<now, cache, rtRecord, cookie, session, validRT, issued, lock,
                   tries, resp, result>>

\* getTokenSilently(options) called by the application.
GetTokenSilently(c, r) == c \notin CheckSessionCallers /\ SinglePromise(c, r)

\* checkSession (awaited by createAuthokClient): without the is.authenticated
\* cookie (or its legacy and old names) it returns at once; otherwise it
\* awaits getTokenSilently() and absorbs the recoverable errors (Outcome).
CheckSession(c) ==
    /\ c \in CheckSessionCallers
    /\ \/ /\ ~cookie
          /\ pc[c] = "idle"
          /\ pc' = [pc EXCEPT ![c] = "done"]
          /\ result' = [result EXCEPT ![c] = "skipped"]
          /\ UNCHANGED <<now, cache, rtRecord, cookie, session, validRT, issued,
                         lock, slot, req, tries, resp, startIssued>>
       \/ cookie /\ SinglePromise(c, DefaultRequest)

\* The cache read before the lock: a usable entry settles the call.
CheckCache(c) ==
    /\ pc[c] = "check"
    /\ LET e == CacheGet(cache[Store(c)], req[c].aud, req[c].scope, now)
       IN  \/ e # NoEntry /\ Settle(c, Ok(e.tok))
           \/ e = NoEntry /\ Continue(c, "lock", 0)
    /\ UNCHANGED <<now, cache, rtRecord, cookie, session, validRT, issued, lock,
                   resp>>

\* Faulty variant of AcquireLock: the attempt takes the lock even when
\* another call holds it.
AcquireLockIgnoringHolder(c) ==
    /\ pc[c] = "lock"
    /\ lock' = c
    /\ Continue(c, "recheck", 0)
    /\ UNCHANGED <<now, cache, rtRecord, cookie, session, validRT, issued, resp>>

\* One attempt of retryPromise(() => lock.acquireLock(KEY, 5000), 10): it
\* gets the lock if free, else times out; the last failure is a Timeout.
AcquireLock(c) ==
    /\ pc[c] = "lock"
    /\ \/ /\ lock = NoCaller
          /\ lock' = c
          /\ Continue(c, "recheck", 0)
       \/ /\ lock # NoCaller
          /\ tries[c] + 1 < LOCK_ATTEMPTS
          /\ Continue(c, "lock", tries[c] + 1)
          /\ UNCHANGED lock
       \/ /\ lock # NoCaller
          /\ tries[c] + 1 >= LOCK_ATTEMPTS
          /\ Settle(c, Err("timeout"))
          /\ UNCHANGED lock
    /\ UNCHANGED <<now, cache, rtRecord, cookie, session, validRT, issued, resp>>

\* Faulty variant of Recheck: the cache is not read again under the lock.
RecheckSkippingCache(c) ==
    /\ pc[c] = "recheck"
    /\ Continue(c, IF UseRefreshTokens THEN "refresh" ELSE "iframe", 0)
    /\ UNCHANGED <<now, cache, rtRecord, cookie, session, validRT, issued, lock, resp>>

\* The second cache read, under the lock, unless ignoreCache; on a miss the
\* call renews with the refresh token when useRefreshTokens, else by iframe.
Recheck(c) ==
    /\ pc[c] = "recheck"
    /\ LET e == CacheGet(cache[Store(c)], req[c].aud, req[c].scope, now)
       IN  \/ /\ ~req[c].ignoreCache
              /\ e # NoEntry
              /\ lock' = NoCaller
              /\ Settle(c, Ok(e.tok))
           \/ /\ req[c].ignoreCache \/ e = NoEntry
              /\ Continue(c, IF UseRefreshTokens THEN "refresh" ELSE "iframe", 0)
              /\ UNCHANGED lock
    /\ UNCHANGED <<now, cache, rtRecord, cookie, session, validRT, issued, resp>>

(***************************************************************************)
(* _getTokenUsingRefreshToken: one refresh_token grant with the audience's *)
(* refresh token.  A missing or rejected refresh token falls back to the   *)
(* iframe; a fetch failure is retried; a fetch aborted by its timeout may  *)
(* have been processed by the server; an OAuth error propagates.           *)
(***************************************************************************)
RefreshExchange(c) ==
    /\ pc[c] = "refresh"
    /\ LET rt == GetRefreshToken(rtRecord[Store(c)], req[c].aud)
       IN  \/ /\ rt \in validRT
              /\ issued < MaxIssued
              /\ \E life \in Lifetimes : resp' = [resp EXCEPT ![c] = NewEntry(life)]
              /\ issued' = issued + 1
              /\ validRT' = Rotated(rt, issued + 1)
              /\ rtRecord' = IF InWorker THEN RecordRefreshToken(Store(c), req[c].aud, issued + 1)
                                        ELSE rtRecord
              /\ Continue(c, "store", 0)
              /\ UNCHANGED <<lock, cache, cookie>>
           \/ /\ rt \notin validRT
              /\ Continue(c, "iframe", 0)
              /\ UNCHANGED <<lock, issued, validRT, resp, cache, rtRecord, cookie>>
           \/ /\ FetchFailed(c)
              /\ UNCHANGED <<issued, validRT, resp>>
           \/ /\ rt \in validRT
              /\ issued < MaxIssued
              /\ issued' = issued + 1
              /\ validRT' = Rotated(rt, issued + 1)
              /\ FetchFailed(c)
              /\ UNCHANGED resp
           \/ /\ \E e \in AuthErrors : Fail(c, e)
              /\ UNCHANGED <<issued, validRT, resp>>
    /\ UNCHANGED <<now, session>>

\* _getTokenFromIFrame, runIframe(authorize url with prompt=none): a code
\* when the server session allows it, else an OAuth error; or the
\* authorizeTimeoutInSeconds timeout.
IFrame(c) ==
    /\ pc[c] = "iframe"
    /\ \/ /\ session
          /\ Continue(c, "exchange", 0)
          /\ UNCHANGED <<lock, cache, rtRecord, cookie>>
       \/ ~session /\ Fail(c, "login_required")
       \/ \E e \in AuthErrors \cup {"timeout"} : Fail(c, e)
    /\ UNCHANGED <<now, session, validRT, issued, resp>>

\* oauthToken with grant_type authorization_code and the code verifier; the
\* ID token is verified; with useRefreshTokens the response has a refresh
\* token (offline_access).
CodeExchange(c) ==
    /\ pc[c] = "exchange"
    /\ \/ /\ issued < MaxIssued
          /\ \E life \in Lifetimes : resp' = [resp EXCEPT ![c] = NewEntry(life)]
          /\ issued' = issued + 1
          /\ validRT' = IF UseRefreshTokens THEN validRT \cup {issued + 1}
                                            ELSE validRT
          /\ rtRecord' = IF InWorker THEN RecordRefreshToken(Store(c), req[c].aud, issued + 1)
                                    ELSE rtRecord
          /\ Continue(c, "store", 0)
          /\ UNCHANGED <<lock, cache, cookie>>
       \/ FetchFailed(c) /\ UNCHANGED <<issued, validRT, resp>>
       \/ Fail(c, "api_error") /\ UNCHANGED <<issued, validRT, resp>>
    /\ UNCHANGED <<now, session>>

\* cacheManager.set of the result under the requested audience and scope,
\* with its refresh token unless the worker keeps it, the is.authenticated cookie, then the finally
\* releases the lock and the promise resolves with the access token.
StoreResult(c) ==
    /\ pc[c] = "store"
    /\ cache' = [cache EXCEPT ![Store(c)] =
                     CacheSet(@, req[c].aud, req[c].scope, resp[c])]
    /\ rtRecord' = IF InWorker THEN rtRecord
                   ELSE RecordRefreshToken(Store(c), req[c].aud, resp[c].tok)
    /\ cookie' = TRUE
    /\ lock' = NoCaller
    /\ Settle(c, Ok(resp[c].tok))
    /\ resp' = [resp EXCEPT ![c] = NoEntry]
    /\ UNCHANGED <<now, session, validRT, issued>>

(***************************************************************************)
(* The environment: the login flows, the application's local logout, the   *)
(* clock and the authorization server.                                     *)
(***************************************************************************)

\* handleRedirectCallback / loginWithPopup completing in tab t: the tokens
\* are stored under the default audience and scope, outside the lock.
Login(t) ==
    /\ issued < MaxIssued
    /\ \E life \in Lifetimes, at \in BOOLEAN :
         cache' = [cache EXCEPT ![StoreOf(t)] =
                      CacheSet(@, DefaultAudience, DefaultScope,
                               [NewEntry(life) EXCEPT !.at = at])]
    /\ rtRecord' = IF UseRefreshTokens
                   THEN [rtRecord EXCEPT ![StoreOf(t)] =
                            SetRefreshToken(@, DefaultAudience, issued + 1)]
                   ELSE rtRecord
    /\ validRT' = IF UseRefreshTokens THEN validRT \cup {issued + 1} ELSE validRT
    /\ issued' = issued + 1
    /\ session' = TRUE
    /\ cookie' = TRUE
    /\ UNCHANGED <<now, lock, slot, pc, req, tries, resp, result, startIssued>>

\* The application calls logout({localOnly: true}) in tab t.
Logout(t) ==
    /\ LocalLogout(StoreOf(t))
    /\ UNCHANGED <<now, session, validRT, issued, lock, slot, pc, req, tries,
                   resp, result, startIssued>>

Tick ==
    /\ now < MaxTime
    /\ now' = now + 1
    /\ UNCHANGED <<cache, rtRecord, cookie, session, validRT, issued, lock, slot,
                   pc, req, tries, resp, result, startIssued, spent, renewed>>

\* The user's session at the authorization server ends.
SessionEnds ==
    /\ session
    /\ session' = FALSE
    /\ UNCHANGED <<now, cache, rtRecord, cookie, validRT, issued, lock, slot,
                   pc, req, tries, resp, result, startIssued, spent, renewed>>

\* A refresh token expires or is revoked at the server.
RefreshTokenExpires ==
    /\ \E r \in validRT : validRT' = validRT \ {r}
    /\ UNCHANGED <<now, cache, rtRecord, cookie, session, issued, lock, slot,
                   pc, req, tries, resp, result, startIssued, spent, renewed>>

\* The steps of a running call, resumed by the event loop.
\* The histories: a step that has the server issue a token is a renewal's
\* grant; one that also drops a refresh token is a rotating refresh_token
\* grant, which redeems it.
TrackSpent ==
    /\ spent' = spent \cup IF RotateRefreshTokens /\ issued' > issued
                        THEN validRT \ validRT' ELSE {}
    /\ renewed' = renewed \cup IF issued' > issued THEN {issued'} ELSE {}

Step(c) ==
    /\ \/ CheckCache(c)
       \/ AcquireLock(c)
       \/ Recheck(c)
       \/ RefreshExchange(c)
       \/ IFrame(c)
       \/ CodeExchange(c)
       \/ StoreResult(c)
    /\ TrackSpent

Environment ==
    \/ \E t \in Tabs : Login(t) \/ Logout(t)
    \/ Tick
    \/ SessionEnds
    \/ RefreshTokenExpires

Next ==
    \/ \E c \in Callers, r \in Calls : GetTokenSilently(c, r) /\ UNCHANGED <<spent, renewed>>
    \/ \E c \in Callers : CheckSession(c) /\ UNCHANGED <<spent, renewed>>
    \/ \E c \in Callers : Step(c)
    \/ Environment /\ UNCHANGED <<spent, renewed>>

\* Every awaited operation completes: the lock attempt, the fetch and the
\* iframe all end by their timeouts, so a running call is never starved.
Spec == Init /\ [][Next]_vars /\ \A c \in Callers : WF_vars(Step(c))

(***************************************************************************)
(* Properties.                                                             *)
(***************************************************************************)

\* The cross-tab lock is held exactly by the call that is between
\* acquireLock and releaseLock: at most one renewal runs across all tabs,
\* and every exit of the try (cache hit on the recheck, store, every error)
\* releases the lock in its finally.
LockHeldOnlyByRenewer ==
    \A c \in Callers : pc[c] \in LockedPcs <=> lock = c

\* singlePromise: per tab and key, at most one _getTokenSilently runs; the
\* map entry names it while it runs and is deleted once it settles, so no
\* later caller awaits a promise that has already settled.
SingleFlight ==
    \A t \in Tabs, f \in Fingerprints :
        LET mine(P) == {c \in Callers : /\ CallerTab[c] = t
                                        /\ pc[c] \in P
                                        /\ Fp(req[c]) = f}
        IN  /\ slot[t][f] = NoCaller => mine(RunningPcs \cup {"joined"}) = {}
            /\ slot[t][f] # NoCaller => mine(RunningPcs) = {slot[t][f]}

\* Spec section 6: of two calls that missed the cache at once, the second
\* to get the lock observes the cache populated by the first and makes no
\* network call.  A call without ignoreCache that is renewing (refresh
\* grant or iframe) never does so while its store holds a usable entry
\* for its request that another renewal stored: the recheck under the
\* lock, not the stale read before it, decides.  Entries stored by logins,
\* which do not take the lock, may appear at any time and are excluded.
RenewsOnlyOnMiss ==
    \A c \in Callers :
        pc[c] \in {"refresh", "iframe"} /\ ~req[c].ignoreCache =>
            \A k \in Compatible(req[c].aud, req[c].scope) :
                Usable(cache[Store(c)][k], now) => cache[Store(c)][k].tok \notin renewed

(***************************************************************************)
(* Refinement of TokenRequests: a call is waiting until it holds the lock, *)
(* renewing while it holds it; a joined call follows the call that owns    *)
(* its single-promise entry.                                               *)
(***************************************************************************)
AbsStatus ==
    [c \in Callers |-> CASE result[c] = "skipped"     -> "idle"
                         [] pc[c] \in {"idle", "done"} -> pc[c]
                         [] pc[c] \in LockedPcs      -> "renewing"
                         [] OTHER                    -> "waiting"]

AbsLeader ==
    [c \in Callers |-> IF pc[c] = "joined" THEN slot[CallerTab[c]][Fp(req[c])]
                      ELSE IF pc[c] \in RunningPcs THEN c
                      ELSE NoCaller]

TR == INSTANCE TokenRequests
        WITH status <- AbsStatus, key <- [c \in Callers |-> Fp(req[c])],
             leader <- AbsLeader, renewer <- lock,
             Keys <- Fingerprints, DefaultKey <- Fp(DefaultRequest)

\* getTokenSilently implements the contract of singlePromise and of the
\* cross-tab lock (spec sections 4.2 and 4.3): a call joins only a promise
\* still running for its key in its tab, everyone awaiting a promise settles
\* with it, and only a call that got the lock renews, one at a time.
RefinesTokenRequests == TR!Spec

\* Every getTokenSilently call eventually resolves or rejects.
CallsSettle == \A c \in Callers : pc[c] # "idle" ~> pc[c] = "done"

\* A call with ignoreCache resolves only with a token issued after it began:
\* ignoreCache bypasses the cache and renews.
IgnoreCacheGetsFreshToken == \A c \in Callers : result[c] # "stale_token"

\* Spec section 4.3: renewals are serialised so that a refresh token is not
\* spent twice.  A refresh_token grant never presents a refresh token that
\* the server has already redeemed (and rotated): with reuse detection the
\* server would revoke the whole token family.
RefreshTokenNotReused ==
    [][\A c \in Callers :
          (pc[c] = "refresh" /\ RefreshExchange(c))
          => GetRefreshToken(rtRecord[Store(c)], req[c].aud) \notin spent
      ]_vars


\* Spec section 2: the wildcard refresh-token record of an audience points
\* at the most recent refresh token for it, and a set overwrites an entry
\* with the newer token set.  No step (a renewal's store, a login's store
\* in a tab sharing the store) replaces an entry or a refresh token with
\* one the server issued earlier.
TokensNeverRegress ==
    [][\A s \in Stores :
          /\ \A k \in CacheKeys :
                cache[s][k] # NoEntry /\ cache'[s][k] # NoEntry
                => cache'[s][k].tok >= cache[s][k].tok
          /\ \A a \in Audiences :
                rtRecord[s][a] # NoToken /\ rtRecord'[s][a] # NoToken
                => rtRecord'[s][a] >= rtRecord[s][a]
      ]_vars

=============================================================================
