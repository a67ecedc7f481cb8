SPECIFICATION Spec
CONSTANTS
    Consoles <- Shell
    Asking <- Nothing
    Looks = FALSE
    Retries = 1
    Recoveries = 2
    Reconnects = 1
INVARIANT SetUpAgain
