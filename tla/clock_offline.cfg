SPECIFICATION Spec
CONSTANTS
    Tick = 2
    MaxSkew = 1
    Expiries <- EarlyAndLate
    Licenses <- OneLicense
    Files <- TwoFiles
    Tokens <- OneToken
    MaxAge = 2
    MaxGrace = 2
    MaxLifetime = 3
    Legacy = TRUE
    Overlap = FALSE
    MaxWall = 6
    MaxMono = 2
INVARIANT TypeOK
INVARIANT NoRevival
INVARIANT ToldIsCurrent
INVARIANT EndsOnce
PROPERTY AnswersNeverGoBack
PROPERTY OfflineWindow
