\* Three streams on two threads of one receiver.
CONSTANTS
    NULL = NULL
    Blank = Blank
    NaN = NaN
    q1 = q1
    q2 = q2
    q3 = q3
    q4 = q4
    u1 = u1
    alpha = alpha
    m1 = m1
    long = long
    Streams = {s1, s2, s3}
    MaxWorkers = 2
    Messages <- MCMessages
    Texts = {q1, q2, q3, q4, u1, alpha, m1, long}
    TooLong = {long}
    MaxBigInt = 3
    LastDay = 1
SPECIFICATION FairSpec
INVARIANTS
    TypeOK
    HandledEntriesBooked
    BookedAsReported
    CountersAddUp
PROPERTIES
    StreamsServed
