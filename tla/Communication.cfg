\* Two clients that may fail, two adapters of the UAV, which may lag behind each
\* other, and one of the ground station, which gets up to two copies of an answer;
\* two requests of every kind.  Two sequence numbers: the second request has the
\* number remembered from the start, as if 255 frames before it had been lost.
SPECIFICATION Spec
CONSTANTS
    Clients = {c1, c2}
    NumAir = 2
    GndAdapters = {a1}
    SeqRange = 2
    Before = 1
    Dsts = {"GND", "GND_UAV", "UAV", "GCS", "unknown"}
    Types = {"ping", "param"}
    MaxRequests = 2
    MaxLeaving = 1
SYMMETRY Symmetry
CHECK_DEADLOCK FALSE
INVARIANTS
    ExecutedOnce
    AnswerSentOnce
    NoRequestLost
