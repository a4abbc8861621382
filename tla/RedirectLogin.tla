---------------------------- MODULE RedirectLogin ----------------------------
(***************************************************************************)
(* The redirect login flow: loginWithRedirect stores one transaction under *)
(* the key a0.spajs.txs.<client_id> and navigates to /authorize; the       *)
(* authorization server redirects back with code and state, or with an     *)
(* error; handleRedirectCallback reads the transaction, removes it, checks *)
(* the error and the state, and exchanges the code at the token endpoint   *)
(* with the transaction's PKCE code verifier.                              *)
(*                                                                         *)
(* The transaction store is sessionStorage (one per tab) by default and a  *)
(* cookie shared by all tabs with useCookiesForTransactions.  An attempt   *)
(* is named by the state it generated; its code verifier and, at the      *)
(* server, the code issued for it are named by the same value.            *)
(***************************************************************************)
EXTENDS FiniteSets

CONSTANTS
    Tabs,
    AttemptStates,          \* the states loginWithRedirect may generate
    ForgedStates,           \* states of callback URLs this client never made
    Forged,                 \* model value: a code the server never issued to us
    UseCookiesForTransactions,
    NoTxn,                  \* model value: no transaction stored
    NoParams                \* model value: no callback query string

ASSUME AttemptStates \cap ForgedStates = {}
ASSUME UseCookiesForTransactions \in BOOLEAN

VARIABLES
    txn,        \* txn[s]: the attempt stored in transaction store s, or NoTxn
    url,        \* url[t]: the callback query of tab t, or NoParams
    attempt,    \* attempt[t]: the attempt tab t last sent to /authorize
    pc,         \* pc[t] \in {"idle", "authorizing", "exchanging"}
    exch,       \* exch[t]: the code and verifier of t's token request
    outcome,    \* outcome[t]: how t's last handleRedirectCallback ended
    used,       \* attempts generated so far (states are never reused)
    redeemed    \* history: the codes sent to the token endpoint

vars == <<txn, url, attempt, pc, exch, outcome, used, redeemed>>

\* sessionStorage is per tab; the transaction cookie is one for the origin.
TxnStores == IF UseCookiesForTransactions THEN {"cookie"} ELSE Tabs
TxnStore(t) == IF UseCookiesForTransactions THEN "cookie" ELSE t

Codes == AttemptStates \cup {Forged}
Params == [kind : {"code", "error"}, state : AttemptStates \cup ForgedStates, code : Codes]
NoAttempt == NoTxn
Outcomes == {"none", "no_params", "invalid_state", "auth_error", "token_error", "logged_in"}

TypeOK ==
    /\ txn \in [TxnStores -> AttemptStates \cup {NoTxn}]
    /\ url \in [Tabs -> Params \cup {NoParams}]
    /\ attempt \in [Tabs -> AttemptStates \cup {NoAttempt}]
    /\ pc \in [Tabs -> {"idle", "authorizing", "exchanging"}]
    /\ exch \in [Tabs -> [code : Codes, verifier : AttemptStates] \cup {NoParams}]
    /\ outcome \in [Tabs -> Outcomes]
    /\ used \subseteq AttemptStates
    /\ redeemed \subseteq Codes

Init ==
    /\ txn = [s \in TxnStores |-> NoTxn]
    /\ url = [t \in Tabs |-> NoParams]
    /\ attempt = [t \in Tabs |-> NoAttempt]
    /\ pc = [t \in Tabs |-> "idle"]
    /\ exch = [t \in Tabs |-> NoParams]
    /\ outcome = [t \in Tabs |-> "none"]
    /\ used = {}
    /\ redeemed = {}

\* loginWithRedirect: a fresh state, the transaction stored under the one
\* key of the client, then the navigation that leaves the page.
LoginWithRedirect(t, a) ==
    /\ pc[t] = "idle"
    /\ a \notin used
    /\ txn' = [txn EXCEPT ![TxnStore(t)] = a]
    /\ used' = used \cup {a}
    /\ attempt' = [attempt EXCEPT ![t] = a]
    /\ url' = [url EXCEPT ![t] = NoParams]
    /\ pc' = [pc EXCEPT ![t] = "authorizing"]
    /\ UNCHANGED <<exch, outcome, redeemed>>

\* The authorization server redirects back with the state it was sent and
\* either the code issued for it or an error.
Authorize(t) ==
    /\ pc[t] = "authorizing"
    /\ \E k \in {"code", "error"} :
           url' = [url EXCEPT ![t] = [kind |-> k, state |-> attempt[t], code |-> attempt[t]]]
    /\ pc' = [pc EXCEPT ![t] = "idle"]
    /\ UNCHANGED <<txn, attempt, exch, outcome, used, redeemed>>

\* The tab is opened on a callback URL this client never started, such as
\* ?code=foo&state=constructor.
ForgedCallback(t) ==
    /\ pc[t] = "idle"
    /\ \E s \in ForgedStates : url' = [url EXCEPT ![t] = [kind |-> "code", state |-> s, code |-> Forged]]
    /\ UNCHANGED <<txn, attempt, pc, exch, outcome, used, redeemed>>

StateMatchesAlways(tx, p) == TRUE

RemoveTxnNever(s) == UNCHANGED txn

\* transactionManager.remove(): the client's one transaction key is deleted.
RemoveTxn(s) == txn' = [txn EXCEPT ![s] = NoTxn]

\* The state check of handleRedirectCallback.
StateMatches(tx, p) == tx = p.state

\* handleRedirectCallback up to the token request: no query string, then no
\* transaction, fail before anything is removed; otherwise the transaction
\* is removed and the error param, then the state, are checked.  The URL is
\* left as it is, so the call can be made again on the same query.
HandleRedirectCallback(t) ==
    /\ pc[t] = "idle"
    /\ LET s == TxnStore(t)
           p == url[t]
       IN  \/ /\ p = NoParams
              /\ outcome' = [outcome EXCEPT ![t] = "no_params"]
              /\ UNCHANGED <<txn, pc, exch>>
           \/ /\ p # NoParams /\ txn[s] = NoTxn
              /\ outcome' = [outcome EXCEPT ![t] = "invalid_state"]
              /\ UNCHANGED <<txn, pc, exch>>
           \/ /\ p # NoParams /\ txn[s] # NoTxn
              /\ RemoveTxn(s)
              /\ \/ /\ p.kind = "error"
                    /\ outcome' = [outcome EXCEPT ![t] = "auth_error"]
                    /\ UNCHANGED <<pc, exch>>
                 \/ /\ p.kind = "code" /\ ~StateMatches(txn[s], p)
                    /\ outcome' = [outcome EXCEPT ![t] = "invalid_state"]
                    /\ UNCHANGED <<pc, exch>>
                 \/ /\ p.kind = "code" /\ StateMatches(txn[s], p)
                    /\ exch' = [exch EXCEPT ![t] = [code |-> p.code, verifier |-> txn[s]]]
                    /\ pc' = [pc EXCEPT ![t] = "exchanging"]
                    /\ UNCHANGED outcome
    /\ UNCHANGED <<url, attempt, used, redeemed>>

\* The token endpoint answers the code exchange: it issues tokens only for
\* a code it issued, not yet redeemed, presented with that attempt's
\* verifier, and may fail with an HTTP error whatever was sent.  On success
\* the tokens are cached and the is.authenticated cookie set.
TokenExchange(t) ==
    /\ pc[t] = "exchanging"
    /\ LET e == exch[t]
           valid == e.code = e.verifier /\ e.code \notin redeemed
       IN  \/ /\ valid
              /\ outcome' = [outcome EXCEPT ![t] = "logged_in"]
           \/ outcome' = [outcome EXCEPT ![t] = "token_error"]
    /\ redeemed' = redeemed \cup {exch[t].code}
    /\ pc' = [pc EXCEPT ![t] = "idle"]
    /\ exch' = [exch EXCEPT ![t] = NoParams]
    /\ UNCHANGED <<txn, url, attempt, used>>

Next ==
    \E t \in Tabs :
        \/ \E a \in AttemptStates : LoginWithRedirect(t, a)
        \/ Authorize(t)
        \/ ForgedCallback(t)
        \/ HandleRedirectCallback(t)
        \/ TokenExchange(t)

Spec == Init /\ [][Next]_vars

(***************************************************************************)
(* Properties                                                              *)
(***************************************************************************)

\* The state check protects the PKCE pairing: whatever callback URL a tab
\* is opened on, and whatever other tabs do to the shared transaction, the
\* code handleRedirectCallback sends to the token endpoint is the one
\* issued for the attempt whose code verifier it sends with it.
CodeRedeemedWithItsVerifier ==
    \A t \in Tabs : pc[t] = "exchanging" => exch[t].code = exch[t].verifier

\* Spec section 3: a transaction is consumed exactly once.  Calling
\* handleRedirectCallback again on the same query, in the same or another
\* tab, never sends an authorization code to the token endpoint twice.
NoCodeRedeemedTwice ==
    [][\A t \in Tabs : pc[t] = "exchanging" /\ pc'[t] = "idle" => exch[t].code \notin redeemed]_vars

\* Spec section 3: there is one transaction per in-flight authorization
\* attempt.  While a tab waits for /authorize to redirect back, the
\* transaction loginWithRedirect stored for it is still there.
EachAttemptKeepsTransaction ==
    \A t \in Tabs : pc[t] = "authorizing" => txn[TxnStore(t)] = attempt[t]

=============================================================================
