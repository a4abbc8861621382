--------------------------- MODULE AsyncCacheClear ---------------------------
(***************************************************************************)
(* The Cache Manager over an asynchronous cache (a custom ICache whose     *)
(* get, set and remove return promises), with logout's synchronous clear   *)
(* and isAuthenticated.                                                    *)
(*                                                                         *)
(* cache.set is awaited, so a write is issued (the manager calls set) and  *)
(* lands later.  logout calls clearSync: it raises the "cleared" marker,   *)
(* which makes every read answer undefined, and starts removing the keys   *)
(* the manager knows, one awaited remove at a time; the marker is lowered  *)
(* when the last remove has completed.  isAuthenticated is true exactly    *)
(* when a read of the ID-token entry answers an entry.                     *)
(*                                                                         *)
(* An entry records the logout epoch in which its write was issued and     *)
(* the one in which it landed; epoch counts the logouts so far.            *)
(***************************************************************************)
EXTENDS Naturals, FiniteSets

CONSTANTS
    Keys,          \* cache keys the manager writes
    None,          \* model value: no entry under a key
    MaxLogouts,    \* bound on logout calls
    MaxPending     \* bound on writes in flight

ASSUME MaxLogouts \in Nat /\ MaxPending \in Nat

Epochs == 0..MaxLogouts
Entries == [issued : Epochs, landed : Epochs]
Writes == [key : Keys, issued : Epochs]

VARIABLES
    store,      \* store[k]: the entry the async cache holds under k, or None
    pending,    \* writes issued whose set has not completed
    epoch,      \* logouts so far
    cleared,    \* the in-memory marker of a clear in progress
    toRemove    \* keys the clear still has to remove

vars == <<store, pending, epoch, cleared, toRemove>>

TypeOK ==
    /\ store \in [Keys -> Entries \cup {None}]
    /\ pending \subseteq Writes
    /\ epoch \in Epochs
    /\ cleared \in BOOLEAN
    /\ toRemove \subseteq Keys

Init ==
    /\ store = [k \in Keys |-> None]
    /\ pending = {}
    /\ epoch = 0
    /\ cleared = FALSE
    /\ toRemove = {}

ReadIgnoringMarker(k) == store[k]

\* cacheManager.get: while a clear is in progress every read is undefined.
Read(k) == IF cleared THEN None ELSE store[k]

\* isAuthenticated: a user is found in the cache.
IsAuthenticated == \E k \in Keys : Read(k) # None

\* A login or a renewal stores its token set: cacheManager.set is called.
IssueSet(k) ==
    /\ Cardinality(pending) < MaxPending
    /\ pending' = pending \cup {[key |-> k, issued |-> epoch]}
    /\ UNCHANGED <<store, epoch, cleared, toRemove>>

\* The asynchronous set completes.
LandSet(w) ==
    /\ store' = [store EXCEPT ![w.key] = [issued |-> w.issued, landed |-> epoch]]
    /\ pending' = pending \ {w}
    /\ UNCHANGED <<epoch, cleared, toRemove>>

\* logout({localOnly: true}): clearSync raises the marker and schedules
\* the removal of every key the manager holds an entry for.
Logout ==
    /\ epoch < MaxLogouts
    /\ epoch' = epoch + 1
    /\ cleared' = TRUE
    /\ toRemove' = toRemove \cup {k \in Keys : store[k] # None}
    /\ UNCHANGED <<store, pending>>

\* Faulty variant of RemoveKey: the completed remove is not taken off the
\* keys the clear still waits for.
RemoveKeyKeepsPending(k) ==
    /\ k \in toRemove
    /\ store' = [store EXCEPT ![k] = None]
    /\ UNCHANGED <<pending, epoch, cleared, toRemove>>

\* One awaited remove of the clear completes.

RemoveKey(k) ==
    /\ k \in toRemove
    /\ store' = [store EXCEPT ![k] = None]
    /\ toRemove' = toRemove \ {k}
    /\ UNCHANGED <<pending, epoch, cleared>>

ClearDoneEarly == cleared /\ cleared' = FALSE /\ UNCHANGED <<store, pending, epoch, toRemove>>

\* The last remove has completed: the marker is lowered.
ClearDone ==
    /\ cleared /\ toRemove = {}
    /\ cleared' = FALSE
    /\ UNCHANGED <<store, pending, epoch, toRemove>>

Next ==
    \/ \E k \in Keys : IssueSet(k) \/ RemoveKey(k)
    \/ \E w \in pending : LandSet(w)
    \/ Logout
    \/ ClearDone

\* The event loop resolves every awaited remove of the cache and then runs
\* the continuation that lowers the marker; the writes of the application
\* and its logouts need not happen.
Spec == Init /\ [][Next]_vars
        /\ WF_vars(\E k \in Keys : RemoveKey(k))
        /\ WF_vars(ClearDone)

(***************************************************************************)
(* Properties                                                              *)
(***************************************************************************)

\* logout.test "can access isAuthenticated immediately after local logout
\* when using a custom async cache": no read answers an entry whose write
\* completed before the last logout, neither while the clear is running
\* nor after it.
LandedBeforeLogoutHidden ==
    \A k \in Keys : Read(k) # None => Read(k).landed = epoch

\* The clear started by a local logout completes: the cleared marker is
\* lowered again, however the application's writes and further logouts
\* interleave with the awaited removes.  Otherwise every read, and so
\* isAuthenticated, stays undefined even after the next login.
ClearCompletes == cleared ~> ~cleared

\* A logout also ends the sessions whose tokens were still being stored:
\* no read answers an entry that was issued before the last logout.
IssuedBeforeLogoutHidden ==
    \A k \in Keys : Read(k) # None => Read(k).issued = epoch

=============================================================================
