SPECIFICATION Spec
CONSTANTS
    Addrs = {"x"}
    Accounts = {v1, v2}
    Callers = {c1}
    None = None
    Starts = {TRUE}
    Crashes = TRUE
    Failures = FALSE
PROPERTIES RestartFindsState
