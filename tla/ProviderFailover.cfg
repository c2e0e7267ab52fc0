SPECIFICATION Spec
CONSTANTS
    c1 = c1
    c2 = c2
    a1 = a1
    Calls = {c1, c2}
    Chain = 2
    Account <- MCAccount
    MaxResets = 1
SYMMETRY Symmetry
INVARIANTS ProbeHasHolder ResetForgets
PROPERTIES ImplementsChain
