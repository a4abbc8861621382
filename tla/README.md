# TLA+ models of the token cache and silent-renewal engine

This directory holds TLA+ models of `getTokenSilently` of `AuthokClient` and of the state it shares with the login flows and `logout`. It also holds the TLC configurations that check those models.

The repository ships the public entry point (`src/src/index.ts`) and the Jest suites under `src/__tests__/`. The behaviour of the client is modelled from `spec.md` and from the behaviour those tests pin: call counts, which paths are taken, and which errors are thrown. `PROJECT.json` maps every definition to the test lines it translates. Definitions that only the specification describes are marked `spec_modelled`: the server, the clock and the event loop.

## The system

| Part | State | Operations |
|---|---|---|
| Cache Key Model | keys `<<audience, scope>>`; a scope is a set of atoms | compatibility: same audience, and the stored scope includes the requested one |
| Cache Manager | token-set entries per key; one wildcard refresh-token record per audience | `get` (strict leeway check, access token required), `set`, `getRefreshToken`, `clear` |
| Cache Store | one store per tab (`memory`) or one shared store (`localstorage`) | read and write by the manager |
| Single-Flight (`singlePromise`) | a map per JavaScript realm from `client_id::audience::scope` to the running promise | run, or join the running promise; delete the entry on settle |
| Cross-Instance Lock | one lock (`GET_TOKEN_SILENTLY_LOCK_KEY`) for all tabs | `retryPromise(acquireLock(key, 5000), 10)`, then Timeout; `releaseLock` in `finally` |
| Renewal Engine (`_getTokenSilently`) | the await each call is suspended on | check cache → lock → recheck → refresh-token grant or iframe → code exchange → store → release |
| Login flows, `logout` | cookie `authok.<client_id>.is.authenticated`, the cache | store the login tokens; local logout clears the cache and the cookie |
| Redirect transaction | one transaction `{state, code_verifier, ...}` under `a0.spajs.txs.<client_id>`, in sessionStorage (per tab) or, with `useCookiesForTransactions`, a cookie shared by all tabs | `loginWithRedirect` stores it and navigates; `handleRedirectCallback` reads it, removes it, checks error and state, exchanges the code |
| Async cache clear | the `cleared` marker of `clearSync`, the keys an asynchronous clear still has to remove | `logout` clears synchronously for readers; `isAuthenticated` reads through the marker |
| Entry points | `src/src/index.ts` (ES module: polyfill imports, `createAuthokClient`, exports) and `src/src/index.cjs.ts` (CommonJS/UMD default export: the factory with names attached) | `createAuthokClient` constructs the client, awaits `checkSession`, returns the client |
| Authorization server (environment) | user session, valid refresh tokens, tokens issued | issues tokens, rotates refresh tokens, may answer with OAuth errors or time out |

How the parts interact:

- A call first goes through the tab's single-flight map. Only the caller that registers runs the engine; the others await its promise.
- The engine reads the cache without the lock.
- On a miss it takes the cross-tab lock and reads the cache again.
- It renews with the audience's refresh token when `useRefreshTokens` is set.
  - If the refresh token is missing or rejected, it falls back to the iframe (`prompt=none`) and the code exchange.
- It stores the result, sets the cookie, releases the lock and settles the promise.
- A token-endpoint fetch that rejects or times out is retried (three attempts in the code).
- An error of the login-required family (`login_required`, `consent_required`, `interaction_required`, `account_selection_required`, `access_denied`) runs `logout({localOnly: true})` before the call rejects.

## Modules

- **`CacheManager.tla`** holds the cache operators: `CacheKeys`, `Usable` (`exp - Leeway > now`, access token required), `Compatible`, `CacheGet`, `CacheSet`, and the refresh-token record. It has no variables; the store is a variable of the module that uses it.
- **`SilentRenewal.tla`** composes the cache, single-flight, lock and engine with the login flows, local logout and the server.
  - Each caller `c` is one `getTokenSilently` call in tab `CallerTab[c]`. `pc[c]` is the await it is suspended on: `idle`, `joined`, `check`, `lock`, `recheck`, `refresh`, `iframe`, `exchange`, `store`, then `done`. Every await is a step boundary, so the steps of all callers and of the environment interleave in every order.
  - Actions, one per awaited step of the code:
    - `GetTokenSilently` / `SinglePromise`: `singlePromise`, either registering or joining.
    - `CheckSession`: for the callers in `CheckSessionCallers`, `checkSession` as awaited by `createAuthokClient`. Without the is.authenticated cookie it returns at once (`skipped`). Otherwise it calls `getTokenSilently()` and absorbs the login-required family of errors (`absorbed`). The legacy and old cookie names are folded into the one `cookie` boolean.
    - `CheckCache`.
    - `AcquireLock`: one attempt of `retryPromise`.
    - `Recheck`.
    - `RefreshExchange`: success with rotation, fallback to the iframe, a retried fetch failure, a request the server processed before the client aborted it, or an OAuth error.
    - `IFrame`.
    - `CodeExchange`.
    - `StoreResult`: cache set (with the refresh token, unless the worker keeps it), cookie, lock release and settle, all in one step as in the code.
    - `InWorker`: with the memory cache the token worker keeps the refresh token (loginWithPopup tests 573-605). The per-tab refresh-token record then stands for the worker's, and the exchanges write it when the response arrives (`RecordRefreshToken`). With localstorage the record is written by `StoreResult`.
  - Environment actions: `Login(t)`, `Logout(t)`, `Tick`, `SessionEnds`, `RefreshTokenExpires`.
  - `Settle` settles the runner and every caller joined to it, and deletes the map entry. `Fail` is the `catch`/`finally` of the engine: it releases the lock, logs out on login-required errors, then settles.
  - `result[c]` records how the call settled. It is `stale_token` when an `ignoreCache` call received a token issued before it began. `startIssued` is the history variable behind that. `spent`, updated by `TrackSpent` on every caller step, is the history of refresh tokens the server redeemed and rotated out, and `renewed` that of the tokens issued to renewals (not to logins).
- **`TokenRequests.tla`** is the abstract contract of `singlePromise` and the cross-tab lock, from spec sections 4.2 and 4.3 as the concurrency tests pin it.
  - Each call is `idle`, `waiting`, `renewing` or `done`, and has a `leader`: itself, or the call of its tab whose promise it awaits for the same key.
  - `Call` joins a leader still open for the key, or leads.
  - `BeginRenewal` needs the single `renewer` slot free.
  - `Finish` settles a leader together with all of its followers, freeing the slot if it held it.
  - `SilentRenewal` maps onto it: a call is `renewing` while it holds the lock, a joined call's leader is the owner of its single-promise entry, and `renewer` is the lock. `RefinesTokenRequests` checks `TR!Spec` as a property.
- **`RedirectLogin.tla`** models the redirect login flow from the `handleRedirectCallback` and `loginWithRedirect` tests.
  - An attempt is named by the state it generates. Its code verifier, and the code the server issues for it, carry the same name, so the PKCE pairing is the equality of names.
  - `LoginWithRedirect(t, a)` stores the transaction in the tab's store (`TxnStore`) and leaves for `/authorize`.
  - `Authorize(t)` is the server's redirect back, with a code or an error.
  - `ForgedCallback(t)` opens the tab on a callback URL with a state the client never made (the `state=constructor` test).
  - `HandleRedirectCallback(t)` follows the order the tests pin: no query string, then no transaction, fail without removing anything; otherwise `RemoveTxn`, then the error param, then `StateMatches`. The callback URL stays in place, so the call may be repeated.
  - `TokenExchange(t)` is the token endpoint: it accepts only an issued, unredeemed code with its own verifier, and may fail with an HTTP error. `redeemed` is the history of codes sent.
  - `MCRedirectLogin.tla` has two tabs, three attempt states, one forged state, and symmetry over tabs and over attempt states.
- **`EntryPoints.tla`** models the package's entry points and a page that uses them.
  - `IndexExports` is the set of runtime names `index.ts` exports. `Wrapper` is the CommonJS default export, with the properties the wrapper assigns.
  - `LoadBundle` evaluates the build the page chose (`build` is `esm` or `umd`). For the UMD build it sets the two window globals that the cypress initialisation test looks up (`WindowGlobals`).
  - `CreateAuthokClient(loc)` rejects for an unknown cache location (the `dummy` test). Otherwise `checkSession` runs: with no cookie it resolves at once; when getTokenSilently resolves it resolves; a recoverable error clears the cookie and resolves; any other error rejects the factory.
  - `Get(obj, n)` reads a property the way JavaScript does: `Undefined` when it was never assigned.
  - `UseClient(e)` is the page receiving error class `e` from the client and testing it with `instanceof` against the class its build exposes. `OtherTab` toggles the shared cookie.
  - The model has no constants to size: its sets are the code's own lists of names, and `MCEntryPoints_errors.cfg` gives the `Undefined` model value. The cypress assertion that `window.createAuthokClient` and `window.AuthokClient` are functions depends on constants only: it is `ASSUME GlobalsAreFunctions`, checked before the `cjserrors` run. The module has no passing run: the ES module build recognises every error class by construction, so the one question it asks is the UMD build's.
- **`AsyncCacheClear.tla`** models the Cache Manager over an asynchronous `ICache`, with logout's `clearSync` and `isAuthenticated` (specification section 3, `clear`; logout tests 125-197).
  - `IssueSet` and `LandSet` are the two ends of an awaited `cache.set`.
  - `Logout` raises the `cleared` marker and schedules a removal of every key that has an entry. `RemoveKey` is one awaited removal. `ClearDone` lowers the marker after the last removal.
  - `Read` answers `None` while the marker is up, and `IsAuthenticated` is a successful read.
  - Each entry records the logout epoch in which its write was issued and the one in which it landed.
  - `ClearCompletes` asks that every raised marker is lowered again.
- **`MCSilentRenewal.tla`** instantiates the model for TLC:
  - two tabs `t1`, `t2` and the callers `c1`, `c2` (tab `t1`) and `c3` (tab `t2`);
  - one audience and the scopes `{openid}` and `{openid, read}`, where the narrower scope is served from the wider entry.

## Runs

| Run | Expect | Checks | Shows |
|---|---|---|---|
| `crosstab` | pass | LockHeldOnlyByRenewer, RenewsOnlyOnMiss | one call per tab with a shared localstorage store, the one in `t1` being `checkSession` of `createAuthokClient`: renewals of different tabs are mutually exclusive, and a call that gets the lock after another tab's renewal finds that renewal's tokens at its recheck and makes no network call (spec section 6) |
| `liveness` | pass | TypeOK, LockHeldOnlyByRenewer, SingleFlight, CallsSettle, RefinesTokenRequests | two calls of one tab (memory cache, lifetime 2, with and without `ignoreCache`): never two renewals for one key; the lock is held exactly by the call between acquire and release; every call, including those that joined another call's promise, eventually settles; every behaviour of the engine, its cache, lock and environment is a behaviour of the `TokenRequests` contract |
| `ignorecache` | violation | IgnoreCacheGetsFreshToken | an `ignoreCache` call joins a call without it that is in flight for the same key, and resolves with an older cached token |
| `rtreuse` | violation | RefreshTokenNotReused | a refresh-token grant the server redeemed, but whose fetch the client aborted at its timeout, is retried with the now-rotated refresh token |
| `regress` | violation | TokensNeverRegress | with the shared localstorage cache, a renewal that received its tokens before a login stores them after it, replacing the login's newer entry and refresh token with older ones |
| `redirect` | pass | CodeRedeemedWithItsVerifier, NoCodeRedeemedTwice | two tabs sharing the transaction cookie, forged callback URLs and repeated callbacks: a code is sent only with its own verifier, and never twice |
| `txncollide` | violation | EachAttemptKeepsTransaction | with `useCookiesForTransactions`, a second tab's `loginWithRedirect` replaces the first tab's transaction while that tab is at `/authorize`; its callback then fails with `Invalid state` |
| `cjserrors` | violation | ErrorClassesRecognised | a page on the UMD/CommonJS build receives a `PopupCancelledError` it cannot recognise, because the wrapper does not export that class |
| `clear` | pass | LandedBeforeLogoutHidden, ClearCompletes | an asynchronous cache with writes in flight across two logouts: no read, and so no `isAuthenticated`, answers an entry stored before the last logout; every clear completes and lowers the marker |
| `staleset` | violation | IssuedBeforeLogoutHidden | a cache write issued before a local logout lands during the clear, and is visible once the clear completes |

Bounds:

- `Leeway = 1` with `Lifetimes = {1, 2}` makes the leeway boundary reachable. An entry with lifetime 1 is never usable; one with lifetime 2 is usable only before the clock ticks.
- The clock bound is `MaxTime = 1` in `crosstab` and the violation runs of `SilentRenewal`, so an entry can expire under a waiting call there.
- The one-tab passing run `liveness` keeps the clock at 0 (`MaxTime = 0`) and uses only lifetime 2. Its questions are about the single-promise map, the lock and termination, not expiry; expiry is exercised in `crosstab`.
- `MaxIssued = 2` allows a login and a renewal, or two renewals, so refresh-token rotation and a spent refresh token both occur.
- `LOCK_ATTEMPTS = 2` and `FETCH_RETRIES = 2` (10 and 3 in the code) keep both the retry and the give-up branches reachable.
- The server may answer with `login_required`. The code exchange may fail with `api_error`.
- Each caller makes one call. Two callers are enough for every pairwise race: two callers in one tab give the single-flight races, and two in different tabs the lock races.
- The `liveness` run uses the two callers of one tab, so that a caller can be joined to another's promise, with and without `ignoreCache`. It explores about 534,000 distinct states in under two minutes.

- `clear` and `staleset`: two keys, two logouts and two writes in flight, so a write can straddle one logout and land during or after the clear of another.
- `redirect` and `txncollide`: three attempt states let both tabs log in and one of them log in again. One forged state covers URLs the client never made. The run explores all 2969 distinct states.

Fairness: `WF_vars(Step(c))` for every caller. Every await of a running call ends, because the lock attempt, the fetch (abort signal) and the iframe all have timeouts, and the event loop runs every resumed continuation. Callers that joined a promise have no step of their own; they settle with the runner. The environment has no fairness.

In `AsyncCacheClear` the event loop is fair to the clear: `WF_vars` of a completed remove and of `ClearDone`. The removes are awaited promises of the cache, and the continuation that lowers the marker runs once they have resolved. The application's writes and logouts have no fairness.

## Findings

- **`ignorecache`:** the single-promise key does not include `ignoreCache`, so a forced renewal can be satisfied by a concurrent cached read (`spec_gap`).
- **`rtreuse`:** the fetch retry re-presents a refresh token the server may already have redeemed, which the lock of section 4.3 is meant to prevent; the rotated refresh token is lost (`spec_gap`).
- **`txncollide`:** one transaction per client id, not one per attempt as section 3 of the specification says; with the shared cookie store, concurrent redirect logins of two tabs break each other (`spec_code_divergence`).
- **`cjserrors`:** `index.cjs.ts` leaves `PopupCancelledError`, `LocalStorageCache` and `InMemoryCache` out of the CommonJS/UMD export. The Jest suites import only the ES module, so nothing tests it (`code_bug`).
- **`rtreuse`, second finding:** the trace goes through the token-fetch retry (three fetches in the tests), which section 7 of the specification rules out: only lock acquisition is retried there (`spec_code_divergence`).
- **`regress`:** a login's `handleRedirectCallback` stores its tokens outside the cross-tab lock, which covers only the renewal window (section 5). A renewal that received its tokens before the login stores them after it, so with the shared localstorage cache the entry and the wildcard refresh-token record, which section 2 says points at the most recent refresh token, go back to older ones (`spec_gap`). With the memory cache the worker takes the refresh token from the exchange response, so only the entry goes back.
- **`staleset`:** the cleared marker hides reads only until the asynchronous clear completes, and the clear removes the keys held when it started. A token write issued before the logout that lands later survives, and `isAuthenticated` turns true again. Neither the specification nor a test says whether a logout must end such sessions (`spec_gap`). The same sequence is reachable in `SilentRenewal`: a local logout during a renewal, whose `StoreResult` then writes the cache and the cookie.

## Not modelled

- URL building and option parsing: pure formatting.
- The popup flow's window and message handling, and transactions without a state (created only by hand in a test).
- The ID-token verifier.
- The worker's message channel: it behaves like the main-thread fetch to the caller. Where the worker keeps the refresh token is modelled (`InWorker`).
- `getUser` and the claims of the ID token.
- The cookie-name migration and the organization hint cookie of `checkSession`.
- The polyfill imports of `index.ts` (lines 1-10): they install globals that no property tells apart.

The leeway boundary (`exp - leeway > now`, strict) is reached by the bounds but has no property of its own. A property would only restate `Usable`, and the specification's Scenario B agrees with the code.
