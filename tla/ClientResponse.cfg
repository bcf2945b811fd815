\* Reads of 4 bytes, a separator of 2, headers that end at every place of a read, contents around every limit.
SPECIFICATION FairSpec
CONSTANTS
    READ_BUF_SIZE = 4
    Sep = 2
    max_buf_len = 4
    max_dest_len = 8
    Heads = {3, 4, 5}
    Contents = {0, 1, 2, 4, 5}
    MaxRequests = 2
INVARIANT
    AnswerOfRequest
    ResultByLength
    BufferSafe
PROPERTY
    RecvReturns
