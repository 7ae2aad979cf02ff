\* What the documentation says of a publish, against what the code does.
CONSTANTS
    e1 = e1
    e2 = e2
    e3 = e3
    Events <- TwoEvents
SPECIFICATION Spec
INVARIANT FailedPublishIsLogged
