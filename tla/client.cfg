SPECIFICATION FairSpec
CONSTANTS
    u1 = u1
    u2 = u2
    Users <- MCUsers
    HeaderLen = 2
    Requests <- MCRequests
    Answers <- MCAnswers
    MaxSent = 3
    MaxPushed = 1
INVARIANTS TypeOK HandledInOrder ReceivedInOrder OnlineMeansLoggedIn
PROPERTIES RequestIsAnswered EndOfClientEndsSession
CHECK_DEADLOCK FALSE
