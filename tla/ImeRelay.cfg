\* Two clients; one has two text inputs, only one of which has a caret.
SPECIFICATION Spec
CONSTANTS
    u = u
    r = r
    TextInputs = {t1, t2, u}
    Surfaces = {s, r}
    ClientOf <- MCClientOf
    Carets = {t1, u}
    InputMethods = {m1, m2}
    None = None
INVARIANTS
    Consistent
    ActiveIsCurrent
    OnlyActiveShows
