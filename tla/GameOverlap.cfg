\* Two starts at once.
SPECIFICATION Spec
CONSTANTS
    Client = {c1, c2}
    MaxStarts = 2
INVARIANT
    StartAsDocumented
