SPECIFICATION CooperativeSpec
CONSTANTS
    MAX_THREADS = 3
    MAX_IRQ_WAITERS = 2
    MAX_IRQS = 1
    Timeouts = {0, 1}
    COUNT_RANGE = 2
    Ports = {"x86_64", "wired"}
INVARIANTS SchedulerConsistent WaitResultTruthful
PROPERTIES ReadyThreadsRun TimedWaitReturnsWithClock
