\* Five lines on three threads: results overtake each other by up to one line
\* per thread and a drain can write two parked lines in a row.
CONSTANTS
    Lines = 5
    MaxThreads = 3
SPECIFICATION FairSpec
INVARIANTS TypeOK InputOrder HandedOverOnce NothingHeldBack CompleteOnExit
PROPERTIES Terminates RefinesOrderedOutput
