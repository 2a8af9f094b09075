SPECIFICATION FairSpec
CONSTANTS
    Pids = {p1, p2}
    Nobody = Nobody
    MaxPieces = 2
    ReadMax = 1
    MaxUnread = 3
INVARIANTS TypeOK OneServer ShowsItsAnswer
PROPERTIES StartsLoseNothing ReplReturns
