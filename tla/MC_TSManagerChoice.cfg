\* Scores that do not change, one of them zero.
CONSTANTS
    Call = {c1, c2}
    Servers = 2
    Active = {0, 1}
    Score = {0, 1, 2}
    MaxRetries = 2
    MaxChanges = 0
SPECIFICATION FairSpec
PROPERTIES AvailableIsChosen
