\* The hook with four commands of two methods, one that it cannot read, every list, a store that
\* fails and hangs, and a plugin that stops.
CONSTANTS
    k1 = k1
    k2 = k2
    k3 = k3
    k4 = k4
    pay = pay
    checkrune = checkrune
    Commands <- FourCommands
    Methods <- TwoMethods
    MethodOf <- Calls
    Unreadable = {k4}
SPECIFICATION FairSpec
INVARIANTS
    LoggedBeforeRun
PROPERTIES
    UnlistedRun
