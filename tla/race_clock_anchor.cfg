SPECIFICATION Spec
CONSTANTS
    Tick = 2
    MaxSkew = 1
    Expiries <- EarlyAndLate
    Licenses <- OneLicense
    Files <- TwoFiles
    Tokens <- OneToken
    MaxAge = 2
    MaxGrace = 2
    MaxLifetime = 3
    Legacy = TRUE
    Overlap = TRUE
    MaxWall = 4
    MaxMono = 0
PROPERTY OnlineReanchors
