\* Every token and option, two events and one scrape; a plugin may end.
SPECIFICATION FairSpec
CONSTANTS
    Events = {e1, e2}
    Clients = {c1}
    Payloads <- MCPayloads
    RawTokens <- MCRawTokens
    Bearers <- MCBearers
    Space = 0
    MinTokenLen = 2
INVARIANTS
    AccessIsChosen
    ScrapeIsCurrent
PROPERTIES
    HtlcsContinue
    ScrapesAnswered
CHECK_DEADLOCK FALSE
