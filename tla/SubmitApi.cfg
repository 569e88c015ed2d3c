SPECIFICATION FairSpec
CONSTANTS
    LimbBase = 4
    ChainId = 1
    Exchange = "exchange"
    FlashWallet = "flash wallet"
    ZeroAddress = "zero"
    Nobody = "nobody"
    Requests = {r1, r2}
    Inputs <- MCInputs
    Orders <- MCOrders
    Document <- MCDocument
    Reports <- MCReports
    Concurrent = 2
    MaxOrders = 3
INVARIANTS
    TypeOK
    AnswerFitsOutcomes
    SignaturesJudgedAlike
    StoredAsSubmitted
PROPERTIES
    AnswersArrive
CHECK_DEADLOCK FALSE
