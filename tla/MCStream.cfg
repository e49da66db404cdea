\* Three consumers, three chunks.
CONSTANTS
    a = a  b = b  c = c
    Consumer = {a, b, c}
    MaxChunks = 3
SPECIFICATION FairSpec
INVARIANTS
    TypeOK
    ChunksOnceInOrder
    EndMeansAll
PROPERTIES
    StreamEnds
\* The stream is over, or the routine sends no more.
CHECK_DEADLOCK FALSE
