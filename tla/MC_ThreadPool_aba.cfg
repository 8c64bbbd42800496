\* Two workers, two submitting threads that both exit, queues of size 1: a
\* key destructor whose exchange succeeds exchanges again, after its worker
\* went STANDBY and was paired with the other thread.
CONSTANTS
    s1 = s1
    s2 = s2
    s3 = s3
    None = None
    Submitters <- MC_Submitters
    W = 2
    QSize = 1
    MaxTasks = 3
    MaxExits = 2
SPECIFICATION Spec
\* The pool may idle for ever with every worker waiting.
CHECK_DEADLOCK FALSE
INVARIANT
    ActiveCount
