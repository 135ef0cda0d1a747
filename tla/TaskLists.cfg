\* Four TCBs: lists with a head, a tail and inner elements, emptied and filled
\* again, and addresses reused under another parent.
CONSTANTS
    t1 = t1
    t2 = t2
    t3 = t3
    t4 = t4
    NULL = NULL
    Tasks <- FourTasks
    Queues = {"os_q", "sleep_q"}
    Parents = {"init", "shell"}
SPECIFICATION MCSpec
INVARIANTS
    BackLinks
    NoFreedSibling
PROPERTIES
    ImplementsQueues
    ImplementsLists
