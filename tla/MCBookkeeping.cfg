\* Three requests in two sessions, a log of two, tickets that live for one or two.
CONSTANTS
    q1 = q1
    q2 = q2
    q3 = q3
    s1 = s1
    s2 = s2
    Nil = Nil
    Requests = {q1, q2, q3}
    SessionOf <- MCSessionOf
    Observers = {o1}
    Lives = {1, 2}
    Limit = 2
    Early = 1
    Late = 1
    MaxTime = 3
    MaxLog = 2
SYMMETRY MCSymmetry
SPECIFICATION BookSpec
INVARIANTS
    BookTypeOK
    
    EveryRequestCounted
PROPERTIES
    OneSamplePerTicket
