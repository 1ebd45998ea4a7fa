SPECIFICATION FairSpec
CONSTANTS
    chan = chan
    api = api
    Messages = {chan, api}
    Pairs = {}
    Tokens = {t1, t2, t3}
    NoToken = NoToken
    NoMessage = NoMessage
    MaxAttempts = 4
    Drivers = {d1, d2}
    ApiMessages = {api}
    AnswerLen = 4
    BlankChars = {3}
    MaxCharsSet = {1, 2, 3}
    MaxOutboundChunks = 3
    DeliveryMaxAttempts = 2
    Scenarios <- MCScenarios
INVARIANTS
    StoreConsistent
    AnswersCarried
PROPERTIES
    ForwardOnly
    NothingSentTwice
    DeliverySettles
CHECK_DEADLOCK FALSE
