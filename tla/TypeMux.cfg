SPECIFICATION Spec
CONSTANTS
    Types = {t1, t2}
    Subs = {s1, s2}
    Posters = {p1}
    Unsubscribers = {u1, u2}
    Stopper = stopper
    NoOne = noone
    MaxPosts = 2
SYMMETRY Symmetry
INVARIANTS InOrder NoMissed
CHECK_DEADLOCK FALSE
