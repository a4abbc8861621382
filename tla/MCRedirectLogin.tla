--------------------------- MODULE MCRedirectLogin ---------------------------
EXTENDS RedirectLogin, TLC

CONSTANTS t1, t2, a1, a2, a3, f1

MCTabs == {t1, t2}
MCAttemptStates == {a1, a2, a3}
MCForgedStates == {f1}

\* Tabs and the attempts' states are interchangeable.
MCSymmetry == Permutations(MCTabs) \cup Permutations(MCAttemptStates)

=============================================================================
