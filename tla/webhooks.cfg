\* Two endpoints on two pages, a publication and a replay, two runners.
SPECIFICATION Spec
CONSTANTS
    Newest = 2
    Publications = {c1}
    Replays = {c2}
    Runners = {x1, x2}
    PageSize = 1
    MaxReceives = 2
    MaxChanges = 1
    MaxRecords = 2
    MaxRuns = 2
    MaxFaults = 1
SYMMETRY RunnerSymmetry
INVARIANTS PublicationReachesAll SettledWasAnswered  AttemptsCoverRequests
CHECK_DEADLOCK FALSE
