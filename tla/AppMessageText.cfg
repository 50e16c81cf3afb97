CONSTANTS
    Undefined = Undefined
    Leaves <- TextLeaves
    Starts <- TextStarts
    None = None
    SecureId <- TheSession
    ExchangeNo <- TheExchange
    NodeId <- TheNode
    MaxMessages = 6
    FirstCounter <- CarryCounter
    MaxPayload = 14
SPECIFICATION Spec
INVARIANTS
    ReadsWhatWasPut
CHECK_DEADLOCK FALSE
