SPECIFICATION Spec
CONSTANTS
    PowTokens = {k1, k2, k3}
    Verifiers = {v1, v2, v3}
    Validity = 2
    MaxTime = 4
    MaxRestarts = 1
    NoPowToken = NoPowToken
SYMMETRY Symmetry
INVARIANTS
    SingleUseWhileValid
