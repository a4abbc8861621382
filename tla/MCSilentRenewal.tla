--------------------------- MODULE MCSilentRenewal ---------------------------
(***************************************************************************)
(* Instantiation of SilentRenewal for TLC: two tabs and two calls, either *)
(* both in tab t1, sharing its single-promise map (MCSameTab), or one in  *)
(* each tab, meeting only at the cross-tab lock (MCCrossTab).  One        *)
(* audience and two scopes, one narrower than the other.                  *)
(***************************************************************************)
EXTENDS SilentRenewal, TLC

CONSTANTS t1, t2, c1, c2, c3

MCTabs == {t1, t2}
MCOneTab == {t1}
MCSameTab == {c1, c2}
MCCrossTab == {c1, c3}
MCCallerTab == [c \in Callers |-> IF c = c3 THEN t2 ELSE t1]
MCAudiences == {"default"}
MCScopeSets == {{"openid"}, {"openid", "read"}}
MCDefaultScope == {"openid", "read"}

=============================================================================
