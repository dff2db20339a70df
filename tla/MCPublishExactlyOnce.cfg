SPECIFICATION Spec
CONSTANTS
    None = None
    Msgs = {1, 2, 3}
    PacketID <- MCPacketID
    Qoss <- MCQoss
    Topic <- MCTopic
    Conns = {c1, c2}
    Publisher = "pub"
    Clients = {"sub", "pub"}
    Tables <- MCTables
    ReceiveMax = 2
    MaxQueued = 1
    MaxErrs = 1
SYMMETRY ConnSymmetry
INVARIANTS TypeOK DedupMatchesFanout AcknowledgedWasFannedOut QueueBounded HealthyNotRefused
PROPERTIES FanoutExact
CHECK_DEADLOCK FALSE
