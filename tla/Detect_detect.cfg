\* A run in which two operations fail or hang, and other runs in the directory.
\* The run ends, and so may all there is to do.
CHECK_DEADLOCK FALSE
SPECIFICATION FairSpec
CONSTANTS
    Machines <- MostMachines
    Outputs = {"env.json"}
    MaxFaults = 2
    MaxSecond = 1
    MaxOthers = 1
    None = None
INVARIANTS TypeOK EveryCollectorReports StatusesAreHonest RawFilesAreTimely SuccessMeansKept
PROPERTIES DetectEnds
