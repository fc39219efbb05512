\* Three requests at a time, three starts.
SPECIFICATION FairSpec
CONSTANTS
    Client = {c1, c2, c3}
    MaxStarts = 3
INVARIANTS
    GameWithPlayer
    NoNullPlayer
PROPERTIES
    StartClears
    StartsEnd
