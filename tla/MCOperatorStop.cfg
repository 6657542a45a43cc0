SPECIFICATION Spec
CONSTANTS
    Thread = {t1, t2}
    Main = main
    Call <- EveryCall
    MaxWorkers = 1
PROPERTIES StopIsNotUndone
