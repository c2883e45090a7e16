SPECIFICATION DispatchSpec
CONSTANTS
    Ids = {1, 2}
    Messages <- MCMessages
    MaxOutput = 2
CONSTRAINT OutputBound
INVARIANT
    AdvertisedServed
CHECK_DEADLOCK FALSE
