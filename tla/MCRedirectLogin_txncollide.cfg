CONSTANTS
    t1 = t1
    t2 = t2
    a1 = a1
    a2 = a2
    a3 = a3
    f1 = f1
    Tabs <- MCTabs
    AttemptStates <- MCAttemptStates
    ForgedStates <- MCForgedStates
    Forged = Forged
    NoTxn = NoTxn
    NoParams = NoParams
    UseCookiesForTransactions = TRUE
SPECIFICATION Spec
INVARIANT EachAttemptKeepsTransaction
