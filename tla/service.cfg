SPECIFICATION FairSpec
CONSTANTS
    AppId = {a1, a2}
    Request = {r1, r2}
    SendMayFail = TRUE
    MayBeUntimed = {r2}
INVARIANTS
    AnsweredOnce
    HearsTheTruth
PROPERTIES
    CommandPerAcceptance
    ImplementsRegistry
    EveryRequestAnswered
