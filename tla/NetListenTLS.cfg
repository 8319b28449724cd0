SPECIFICATION FairSpec
CONSTANTS
    c1 = c1
    c2 = c2
    c3 = c3
    a1 = a1
    a2 = a2
    None = None
    Clients <- MCClients
    Acceptors <- MCAcceptors
INVARIANT TypeOK
INVARIANT NoAcceptedConnLeak
PROPERTY PromptClientsAreServed
PROPERTY ClosedListenerWindsDown
CHECK_DEADLOCK FALSE
