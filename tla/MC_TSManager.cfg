\* Two calls, two servers, one change: a score or a server changes before, between
\* or after the reads of a scan, or while a call waits.
CONSTANTS
    Call = {c1, c2}
    Servers = 2
    Active = {0}
    Score = {0, 1, 2}
    MaxRetries = 2
    MaxChanges = 1
SPECIFICATION FairSpec
INVARIANTS TypeOK TextAfterLogin
PROPERTIES ImplementsTranslateCalls CallsEnd
