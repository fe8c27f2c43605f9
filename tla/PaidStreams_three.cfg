\* Two shops where one session per channel is allowed, a demo stream and a call:
\* fair timers, a lossy network.
SPECIFICATION FairSpec
CONSTANTS
    e1 = e1  e2 = e2  d1 = d1
    Streams <- Three
    Demo <- Ticker
    Deposit = 2
    SliceCost = 1
    Slice = 2
    CallPrice = 1
    MaxCalls = 1
    MaxPerChannel = 1
    Lossy = TRUE
    MaxUnread = 1
INVARIANTS PaidSliceBySlice ChargedIsSold
PROPERTIES SessionsEnd
CHECK_DEADLOCK FALSE
