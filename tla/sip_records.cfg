CONSTANTS
    h1 = h1
    h2 = h2
    None = None
    Kinds <- AllKinds
    Handlers <- TwoHandlers
    Udp = FALSE
    MaxCreated = 2
    MaxCrash = 1
    MaxArmed = 1
    Expiry = TRUE
SPECIFICATION Spec
SYMMETRY Symmetry
INVARIANTS
    StateHasTtl
    RoutedOnce
    FinalReachesTUAlone
CHECK_DEADLOCK FALSE
