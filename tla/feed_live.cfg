SPECIFICATION FairSpec
CONSTANTS
    Writers = {w1, w2}
    Streams = {s1, s2}
    Capacity = 1
    MaxChanges = 2
INVARIANTS
    TypeOK
    SendsToOpenChannels
    NewestAccountedFor
PROPERTIES
    BroadcastReturns
    StreamLeaves
