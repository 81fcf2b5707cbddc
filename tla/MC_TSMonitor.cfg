\* One server: the monitor treats each on its own.  Three messages let answers
\* pile up over two ticks.
CONSTANTS
    Server = {s1}
    Statistics <- IdleAndBusy
    AbsoluteScore <- Equal
    MaxInFlight = 3
SPECIFICATION FairSpec
INVARIANTS TypeOK ScoreIsCurrent AskedAfterLogin
PROPERTIES Recovers
