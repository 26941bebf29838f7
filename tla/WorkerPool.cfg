CONSTANTS
    a = a
    b = b
    N = 2
    Mailboxes = {a, b}
    QueueCapacity = 1
    SystemCapacity = 1
    StopTimesOut = TRUE
SPECIFICATION Spec
CHECK_DEADLOCK FALSE
SYMMETRY MailboxSymmetry
INVARIANTS
    QueuedOnce
    WorkIsSignalled
    StopWakesWorkers
