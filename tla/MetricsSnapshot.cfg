\* Every answer of up to three channels of two peers, with and without ids.
\* A run ends with the scrape.
CONSTANTS
    p1 = p1
    p2 = p2
    s1 = s1
    i1 = i1
    Peers <- TwoPeers
    Scids <- OneScid
    ChannelIds <- OneChannelId
    Amounts <- TwoAmounts
    Counts <- TwoCounts
    None = None
    MaxChannels = 3
SPECIFICATION Spec
CHECK_DEADLOCK FALSE
INVARIANTS
    PeerSeriesAreRight
    AmountsAreShown
    TotalsCountAll
