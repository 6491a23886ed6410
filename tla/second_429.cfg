CONSTANTS
    c1 = c1
    Client = {c1}
    HeaderValue = {}
    DefaultBackoff = 2
    Start = 4
    MaxTime = 8
SPECIFICATION Spec
PROPERTY BackoffAfterTooMany
