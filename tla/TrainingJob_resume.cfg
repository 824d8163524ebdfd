SPECIFICATION Spec
CONSTANTS
    w0 = w0
    w1 = w1
    Worker <- MCWorker
    Root = w0
    Rank <- MCRank
    Runs <- MCResumed
    Restartable <- MCResumed
    Samples <- MCSamples
    Size = 2
    MaxCrashes = 1
    Epochs = 3
    Warmup = 1
    Decay = 2
    Unit = 40
    BatchSize = 1
    Accumulate <- MCAccumulate
    SaveSteps = 1
    SaveLimit = 1
INVARIANT ModelsAgree
CHECK_DEADLOCK FALSE
