\* Two threads, three nodes, two calls each, every method but push_back.
CONSTANTS
    a = a
    b = b
    c = c
    t1 = t1
    t2 = t2
    H = H
    T = T
    Null = Null
    Nodes <- MC_Nodes
    Threads <- MC_Threads
    MaxOps = 2
    Ops <- MC_NoPushBack
SPECIFICATION Spec
\* The callers stop after MaxOps calls each.
CHECK_DEADLOCK FALSE
INVARIANTS
    TypeOK
    LinkedAtRest
PROPERTIES
    ImplementsDeque
    CallsReturn
