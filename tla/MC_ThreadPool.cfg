\* Two workers, two submitting threads, one of which may exit, queues of size 1.
CONSTANTS
    s1 = s1
    s2 = s2
    s3 = s3
    None = None
    Submitters <- MC_Submitters
    W = 2
    QSize = 1
    MaxTasks = 4
    MaxExits = 1
SPECIFICATION Spec
\* The pool may idle for ever with every worker waiting.
CHECK_DEADLOCK FALSE
INVARIANTS
    TypeOK
    TaskAccounted
