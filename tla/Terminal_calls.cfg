SPECIFICATION Spec
CONSTANTS
    Consoles <- ShellAndLines
    Asking <- Line
    Looks = TRUE
    Retries = 1
    Recoveries = 2
    Reconnects = 1
INVARIANTS
    TypeOK
    PromptTracked
    UnreadyIsExcused
    OncePerAttempt
PROPERTY CallsEnd
