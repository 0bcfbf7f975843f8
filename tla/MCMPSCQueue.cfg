\* Two sending threads and four messages: the dummy goes round more than once
\* while both producers stop between exchange and link.
SPECIFICATION FairSpec
CONSTANTS
    p1 = p1
    p2 = p2
    m1 = m1
    m2 = m2
    m3 = m3
    m4 = m4
    Producers <- MCProducers
    Messages <- MCMessages
    Dummy = Dummy
    Null = Null
INVARIANTS
    TypeOK
    NoUseAfterDelete
PROPERTIES
    ImplementsFifo
    EverythingDelivered
