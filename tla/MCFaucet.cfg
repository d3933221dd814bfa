SPECIFICATION Spec
CONSTANTS
    Requests = {r1, r2}
    Addresses = {a}
    Cooldown = 2
    Funds = 2
    MaxTime = 5
    MaxCrashes = 2
SYMMETRY Symmetry
INVARIANTS
    NeverWronglyEmpty
PROPERTIES
    OncePerCooldown
