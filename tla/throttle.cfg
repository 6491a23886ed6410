CONSTANTS
    c1 = c1
    c2 = c2
    Client = {c1, c2}
    HeaderValue = {2, 3}
    DefaultBackoff = 2
    Start = 4
    MaxTime = 8
SPECIFICATION Spec
INVARIANTS TypeOK BackoffBounded
