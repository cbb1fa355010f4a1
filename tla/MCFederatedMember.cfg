SPECIFICATION FairSpec
CONSTANTS
    Ids = {1, 2}
    Rounds = {r1}
    MaxKeys = 2
    MaxDeaths = 1
INVARIANTS ToldTrue
PROPERTIES ImplementsConsent Participates
