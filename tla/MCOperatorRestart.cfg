SPECIFICATION Spec
CONSTANTS
    Thread = {t1}
    Main = main
    Call <- EveryCall
    MaxWorkers = 1
INVARIANTS ReconciliationIsNotForgotten
