SPECIFICATION Spec
CONSTANTS
    w0 = w0
    w1 = w1
    Worker <- MCWorker
    Root = w0
    Rank <- MCRank
    Runs <- MCRuns
    Restartable <- MCRestartable
    Samples <- MCSamples
    Size = 2
    MaxCrashes = 1
    Epochs = 4
    Warmup = 2
    Decay = 3
    Unit = 40
    BatchSize = 1
    Accumulate <- MCAccumulate
    SaveSteps = 1
    SaveLimit = 1
INVARIANTS
    CollectivesMatch
    ModelsAgree
    EveryBatchOnce
    ScheduleFollowed
    FirstProcessDownloads
PROPERTY
    JobFinishes
CHECK_DEADLOCK FALSE
