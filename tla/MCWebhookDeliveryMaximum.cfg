SPECIFICATION Spec
CONSTANTS
    s1 = s1  s2 = s2  e1 = e1  e2 = e2  c1 = c1  c2 = c2
    Subs = {s1}
    Events = {e1, e2}
    maxRetries = 2
    Calls = {c1, c2}
    CanRestart = FALSE
INVARIANTS
    MaximumAttempts
