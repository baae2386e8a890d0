SPECIFICATION Spec
CONSTANTS
    Nothing = Nothing
    single = single
    pair = pair
    bad = bad
    Call <- MCCall
    Size <- MCSize
    Unrenderable <- MCUnrenderable
    QueueLimit = 2
INVARIANTS
    TypeOK
    SentIsDelivered
    ReturnedIsSent
PROPERTIES
    ImplementsPublisher
    EveryCallEnds
CHECK_DEADLOCK FALSE
