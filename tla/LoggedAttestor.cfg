\* One statement whose calls pass through the hook, with and without logging.
SPECIFICATION FairSpec
CONSTANTS
    Requests = {r1}
    Lists <- MCLists
INVARIANTS
    StatementIsLogged
    RecordsHaveNoGaps
PROPERTIES
    LoggedEnds
