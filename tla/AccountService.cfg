SPECIFICATION Spec
CONSTANTS
    Addrs = {"x"}
    Accounts = {v1, v2}
    Callers = {c1, c2}
    None = None
    Starts = {TRUE, FALSE}
    Crashes = TRUE
    Failures = TRUE
INVARIANTS RootRecent RootKeptWhileChanging
SYMMETRY Symmetry
