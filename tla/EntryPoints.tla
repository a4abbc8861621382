----------------------------- MODULE EntryPoints -----------------------------
(***************************************************************************)
(* The package's entry points and what a page can reach through them.     *)
(*                                                                         *)
(* index.ts is the ES module: after its polyfill imports it exports the   *)
(* factory createAuthokClient as default, AuthokClient, the error classes  *)
(* and the cache classes.  index.cjs.ts is the CommonJS/UMD entry: its     *)
(* default export is the factory itself with some of those names attached *)
(* as properties.  The UMD build puts that object on window as             *)
(* createAuthokClient and its AuthokClient property as window.AuthokClient.*)
(*                                                                         *)
(* createAuthokClient(options) constructs the client, which throws for an  *)
(* invalid cache location, awaits checkSession, and returns the client.    *)
(* checkSession calls getTokenSilently only when the is.authenticated      *)
(* cookie is set; it absorbs the recoverable errors, which log out         *)
(* locally, and rethrows the others.  Afterwards the page uses the client, *)
(* which may throw any of the error classes; the page recognises an error *)
(* by instanceof against the class its build exposes.                      *)
(***************************************************************************)
EXTENDS FiniteSets

CONSTANTS
    Undefined   \* model value: a property that was never assigned

ErrorClasses == {"GenericError", "AuthenticationError", "TimeoutError",
                 "PopupTimeoutError", "PopupCancelledError", "MfaRequiredError"}
CacheClasses == {"LocalStorageCache", "InMemoryCache"}

\* The runtime bindings index.ts exports; ./global, ICache and Cacheable
\* are types and are erased.  Every one of them is a function.
IndexExports == {"createAuthokClient", "AuthokClient"} \cup ErrorClasses \cup CacheClasses

\* index.cjs.ts: the factory, with the names it attaches.
WrapperProps == {"AuthokClient", "createAuthokClient", "GenericError", "AuthenticationError",
                 "TimeoutError", "PopupTimeoutError", "MfaRequiredError"}

\* The CommonJS default export, with the properties the wrapper assigns.
Wrapper == [n \in WrapperProps |-> n]

\* Reading property n of an object: undefined when it was never assigned.
Get(obj, n) == IF n \in DOMAIN obj THEN obj[n] ELSE Undefined

\* The names of the ES module's namespace object.
Namespace == [n \in IndexExports |-> n]

\* The object the page reaches the package by, for each build.
Exposed == [esm |-> Namespace, umd |-> Wrapper]

\* The values the cypress test looks up on window after whenReady.
WindowGlobals(w) == [createAuthokClient |-> "createAuthokClient", AuthokClient |-> Get(w, "AuthokClient")]

\* The cypress initialisation test: the UMD bundle leaves both
\* window.createAuthokClient and window.AuthokClient defined as functions.
\* It depends on constants only, so it is an assumption TLC checks before
\* every run of this module.
GlobalsAreFunctions ==
    \A n \in DOMAIN WindowGlobals(Wrapper) : WindowGlobals(Wrapper)[n] \in IndexExports

ASSUME GlobalsAreFunctions

Builds == {"esm", "umd"}
\* The errors checkSession absorbs (RECOVERABLE_ERRORS); it rethrows others.
RecoverableErrors == {"login_required", "consent_required", "interaction_required",
                      "account_selection_required", "access_denied"}
CacheLocations == {"memory", "localstorage", "dummy"}

VARIABLES
    build,     \* the entry the page loads
    loaded,    \* the bundle has been evaluated
    window,    \* the UMD globals, or Undefined
    factory,   \* "none", "checking", "resolved", "rejected"
    cookie,    \* the is.authenticated cookie
    thrown,    \* the error classes the client threw to the page
    caught     \* those the page recognised with instanceof

vars == <<build, loaded, window, factory, cookie, thrown, caught>>

TypeOK ==
    /\ build \in Builds /\ loaded \in BOOLEAN /\ cookie \in BOOLEAN
    /\ factory \in {"none", "checking", "resolved", "rejected"}
    /\ thrown \subseteq ErrorClasses /\ caught \subseteq thrown

Init ==
    /\ build \in Builds
    /\ loaded = FALSE
    /\ window = Undefined
    /\ factory = "none"
    /\ cookie \in BOOLEAN
    /\ thrown = {} /\ caught = {}

\* The page evaluates the bundle: index.ts, then,
\* for the UMD build, the CommonJS wrapper and the window globals.
LoadBundle ==
    /\ ~loaded
    /\ loaded' = TRUE
    /\ window' = IF build = "umd" THEN WindowGlobals(Wrapper) ELSE Undefined
    /\ UNCHANGED <<build, factory, cookie, thrown, caught>>

\* createAuthokClient: new AuthokClient(options) throws for a cache
\* location it does not know; otherwise checkSession is awaited.
CreateAuthokClient(loc) ==
    /\ loaded /\ factory = "none"
    /\ factory' = IF loc = "dummy" THEN "rejected" ELSE "checking"
    /\ UNCHANGED <<build, loaded, window, cookie, thrown, caught>>

\* checkSession, as createAuthokClient awaits it: no cookie, no call;
\* a recoverable error logs out locally and is absorbed; any other error
\* rejects the factory.
CheckSession ==
    /\ factory = "checking"
    /\ \/ ~cookie /\ factory' = "resolved" /\ UNCHANGED cookie
       \/ cookie /\ factory' = "resolved" /\ UNCHANGED cookie   \* getTokenSilently resolved
       \/ cookie /\ factory' = "resolved" /\ cookie' = FALSE    \* one of RecoverableErrors
       \/ cookie /\ factory' = "rejected" /\ UNCHANGED cookie   \* any other error
    /\ UNCHANGED <<build, loaded, window, thrown, caught>>

\* The page uses the client it was given and the client throws e; the page
\* catches it with instanceof against the class its build exposes.
UseClient(e) ==
    /\ factory = "resolved"
    /\ thrown' = thrown \cup {e}
    /\ caught' = caught \cup (IF Get(Exposed[build], e) # Undefined THEN {e} ELSE {})
    /\ UNCHANGED <<build, loaded, window, factory, cookie>>

\* Another tab logs in or out, setting or clearing the shared cookie.
OtherTab ==
    /\ cookie' = ~cookie
    /\ UNCHANGED <<build, loaded, window, factory, thrown, caught>>

Next ==
    \/ LoadBundle
    \/ \E loc \in CacheLocations : CreateAuthokClient(loc)
    \/ CheckSession
    \/ \E e \in ErrorClasses : UseClient(e)
    \/ OtherTab

Spec == Init /\ [][Next]_vars

(***************************************************************************)
(* Properties                                                              *)
(***************************************************************************)

\* Whichever build a page loads, every error class the client throws to
\* it can be recognised with instanceof against the class the build
\* exports.
ErrorClassesRecognised == caught = thrown

=============================================================================
