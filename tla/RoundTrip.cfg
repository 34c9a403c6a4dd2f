\* Every window over a ring of six accounts and five shortcuts, with the cap of
\* five that the query has.
CONSTANTS
    a = a
    b = b
    c = c
    d = d
    e = e
    f = f
    Accounts <- SixAccounts
    Origin = a
    MaxDepth = 5
    Graphs <- Windows
SPECIFICATION FairSpec
INVARIANTS
    SearchInv
    ReportComplete
PROPERTIES
    Answered
\* a query ends
CHECK_DEADLOCK FALSE
