SPECIFICATION Spec
CONSTANTS
    KalshiNumer = 1000
    KalshiDenom = 1000
    MaxPosition = 5
    MinEdge = 4
    ReturnNumer = 3
    ReturnDenom = 20
    NoTime = NoTime
    NoStrike = NoStrike
    Sources <- MCSources
    Catalogues <- MCCatalogues
    Shapes <- MCShapes
    NoBids <- Empty
    Now = 0
    MaxBehind = 1
CHECK_DEADLOCK FALSE
INVARIANTS
    IdsAgree
    OneQuestionEach
    InferenceIsSound
    PromotionKeepsGroups
    ChecksAgree
    FeesAreTheGap
    PaperIsTheVenue
    Guaranteed
