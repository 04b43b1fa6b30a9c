SPECIFICATION FairSpec
CONSTANTS
    Types = {t1}
    Subs = {s1, s2}
    Posters = {p1, p2}
    Unsubscribers = {u1}
    Stopper = stopper
    NoOne = noone
    MaxPosts = 1
INVARIANTS PanicsOnlyIfLate
PROPERTIES QuietAfterClose CloseTerminates PostTerminates
CHECK_DEADLOCK FALSE
