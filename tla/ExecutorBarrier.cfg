\* Four executors, any of which may fail.
CONSTANTS
    cpu = cpu
    gpu0 = gpu0
    gpu1 = gpu1
    worker = worker
    Executors = {cpu, gpu0, gpu1, worker}
    Needs <- Chain
    OK = OK
SPECIFICATION FairSpec
INVARIANTS
    AbortedOnce
    ReportsFirstError
    NoUseAfterFree
PROPERTY StepEnds
