CONSTANTS
    Keys = {k1, k2}
    None = None
    MaxLogouts = 2
    MaxPending = 2
SPECIFICATION Spec
INVARIANT IssuedBeforeLogoutHidden
