SPECIFICATION FairSpec
CONSTANTS
    Thread = {t1, t2}
    Main = main
    Call <- LockedCalls
    MaxWorkers = 2
INVARIANTS PersistedIsCurrent
PROPERTIES StoppingIsTransient RunningGetsWorker
