CONSTANTS
    Undefined = Undefined
    Leaves <- AsciiLeaves
    Starts <- SomeStarts
    None = None
    SecureId <- TheSession
    ExchangeNo <- TheExchange
    NodeId <- TheNode
    MaxMessages = 6
    FirstCounter <- CarryCounter
    MaxPayload = 7
SPECIFICATION Spec
INVARIANTS
    TypeOK
    ReadsWhatWasPut
    EncodesBack
    FieldsRead
    ReplyFindsRequester
CHECK_DEADLOCK FALSE
