SPECIFICATION ForwardFairSpec
CONSTANTS
    Conn = {c1, c2}
    MaxChunks = 1
    NoConn = NoConn
CHECK_DEADLOCK FALSE
INVARIANTS AppGetsAll ClientHearsAll
 
