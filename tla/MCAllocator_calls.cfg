SPECIFICATION Spec
CONSTANTS
    Requests <- TheRequests
    ALIGNMENT = 8
    METADATA_SIZE = 4
    MMAP_THRESHOLD = 16
    PageSize = 12
    Wrap = 1000
    MaxCalls = 7
INVARIANTS
    Disjoint
    Linked
\* Calls end at the bound, and with a fault.
CHECK_DEADLOCK FALSE
