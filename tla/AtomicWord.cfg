\* Two threads, every build
SPECIFICATION FairSpec
CONSTANTS
    Threads = {t1, t2}
    Half = 2
    Inputs <- MCInputs
    MaxCalls = 4
PROPERTIES
    ImplementsRegister
    SpinsEnd
CHECK_DEADLOCK FALSE
