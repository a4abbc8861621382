---------------------------- MODULE CacheManager ----------------------------
(***************************************************************************)
(* The token cache of the client (cacheManager): a store maps a cache key  *)
(* <<audience, scope>> to a token-set entry, and keeps one wildcard        *)
(* refresh-token record per audience.  These are the operators the         *)
(* renewal engine applies to a store; the store itself is a variable of    *)
(* the module that composes them (SilentRenewal).                          *)
(*                                                                         *)
(* A scope is a set of scope atoms: matching is by subset, as the code     *)
(* matches space-delimited scope strings order-insensitively.  Time is an  *)
(* integer clock in abstract seconds; the leeway is subtracted from the    *)
(* entry's expiry before comparing with now.                               *)
(***************************************************************************)
EXTENDS Integers

CONSTANTS
    Audiences,   \* audiences a token may be requested for
    ScopeSets,   \* the scopes (sets of scope atoms) callers may request
    Leeway,      \* expiry leeway (EXPIRY_LEEWAY / the leeway option)
    NoEntry,     \* model value: no entry under a key
    NoToken      \* model value: no token / no refresh token

ASSUME Leeway \in Nat

CacheKeys == Audiences \X ScopeSets

\* An entry of the store: the token set it holds (tok), its absolute expiry
\* and whether the response carried an access token at all.
Entry(T, Times) == [tok : T, exp : Times, at : BOOLEAN]

EmptyStore == [k \in CacheKeys |-> NoEntry]

EmptyRefreshRecord == [a \in Audiences |-> NoToken]

(***************************************************************************)
(* Usable: the entry may be returned for a request of scope s at time now. *)
(* It must carry an access token, and expires_at - leeway must still lie   *)
(* in the future.                                                          *)
(***************************************************************************)
Usable(e, now) ==
    /\ e # NoEntry
    /\ e.at
    /\ e.exp - Leeway > now

\* The keys whose entry satisfies a request for audience a and scope s:
\* the same audience and a stored scope that includes the requested one.
Compatible(a, s) == {k \in CacheKeys : k[1] = a /\ s \subseteq k[2]}

(***************************************************************************)
(* get: the best compatible, unexpired entry, or NoEntry.  An expired      *)
(* entry is not removed by a read.  When several keys qualify the store   *)
(* returns the one under the exact key if any, else any qualifying one.   *)
(***************************************************************************)
CacheGet(store, a, s, now) ==
    LET hits == {k \in Compatible(a, s) : Usable(store[k], now)}
    IN  IF hits = {} THEN NoEntry
        ELSE IF <<a, s>> \in hits THEN store[<<a, s>>]
        ELSE store[CHOOSE k \in hits : TRUE]

\* set: full replacement of the entry under its key.
CacheSet(store, a, s, e) == [store EXCEPT ![<<a, s>>] = e]

\* The wildcard refresh-token record of an audience: last write wins.
SetRefreshToken(rec, a, rt) == [rec EXCEPT ![a] = rt]

GetRefreshToken(rec, a) == rec[a]

=============================================================================
