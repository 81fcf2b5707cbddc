\* What UpdateInterval promises, across midnight.
CONSTANTS
    Server = {s1}
    Statistics <- IdleAndBusy
    AbsoluteScore <- Equal
    MaxInFlight = 3
SPECIFICATION FairSpec
PROPERTIES CollectsInformation
