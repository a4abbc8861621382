---------------------------- MODULE TokenRequests ----------------------------
(***************************************************************************)
(* What getTokenSilently promises its callers, without the cache, the      *)
(* server or the steps of a renewal.                                       *)
(*                                                                         *)
(* A call for a key either leads (it runs the renewal logic itself) or     *)
(* follows the leader of its tab that runs for the same key.  A leader may *)
(* become the one renewer of all tabs; it then ends by giving that up.     *)
(* A leader and all of its followers finish together, with one outcome.    *)
(***************************************************************************)
CONSTANTS
    Callers,     \* the calls
    CallerTab,   \* the tab (realm) of each call
    Keys,        \* request keys (audience and scope)
    DefaultKey,  \* the key of a caller that has not called yet
    NoCaller     \* model value: no leader / no renewer

VARIABLES
    status,   \* status[c] \in {"idle", "waiting", "renewing", "done"}
    key,      \* key[c]: the key c asked for
    leader,   \* leader[c]: the call whose outcome c will receive
    renewer   \* the call renewing, or NoCaller

vars == <<status, key, leader, renewer>>

\* The calls whose outcome is still open and that run for themselves.
Leaders == {c \in Callers : status[c] \in {"waiting", "renewing"} /\ leader[c] = c}

Init ==
    /\ status = [c \in Callers |-> "idle"]
    /\ key = [c \in Callers |-> DefaultKey]
    /\ leader = [c \in Callers |-> NoCaller]
    /\ renewer = NoCaller

\* c calls for k: it follows the leader of its tab for k if there is one,
\* and leads otherwise.
Call(c, k) ==
    /\ status[c] = "idle"
    /\ LET same == {d \in Leaders : CallerTab[d] = CallerTab[c] /\ key[d] = k}
       IN  \/ \E d \in same : leader' = [leader EXCEPT ![c] = d]
           \/ same = {} /\ leader' = [leader EXCEPT ![c] = c]
    /\ status' = [status EXCEPT ![c] = "waiting"]
    /\ key' = [key EXCEPT ![c] = k]
    /\ UNCHANGED renewer

\* A waiting leader becomes the one renewer of all tabs.
BeginRenewal(c) ==
    /\ c \in Leaders /\ status[c] = "waiting"
    /\ renewer = NoCaller
    /\ renewer' = c
    /\ status' = [status EXCEPT ![c] = "renewing"]
    /\ UNCHANGED <<key, leader>>

\* A leader's outcome is settled, renewed or not: it and all of its
\* followers finish, and a renewer stops renewing.
Finish(c) ==
    /\ c \in Leaders
    /\ status[c] = "renewing" => renewer = c
    /\ renewer' = IF status[c] = "renewing" THEN NoCaller ELSE renewer
    /\ LET group == {d \in Callers : leader[d] = c /\ status[d] # "done"}
       IN  /\ status' = [d \in Callers |-> IF d \in group THEN "done" ELSE status[d]]
           /\ leader' = [d \in Callers |-> IF d \in group THEN NoCaller ELSE leader[d]]
    /\ UNCHANGED key

Next ==
    \/ \E c \in Callers, k \in Keys : Call(c, k)
    \/ \E c \in Callers : BeginRenewal(c) \/ Finish(c)

\* The safety part only: the liveness of calls is CallsSettle.
Spec == Init /\ [][Next]_vars

=============================================================================
