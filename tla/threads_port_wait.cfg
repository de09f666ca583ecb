SPECIFICATION FairSpec
CONSTANTS
    MAX_THREADS = 2
    MAX_IRQ_WAITERS = 1
    MAX_IRQS = 1
    Timeouts = {0, 1}
    COUNT_RANGE = 1
    Ports = {"x86_64"}
PROPERTIES
    TimedWaitReturns
