SPECIFICATION FairSpec
CONSTANTS
    Settings = {s0, s1}
    DefaultSettings = s0
    Bounds = {b1}
    NoBounds = NoBounds
    Generations = 4
    Quiet = 2
    Blank = Blank
    Torn = Torn
    Nothing = Nothing
    None = None
    NoRequest = NoRequest
    Boards = {"m1"}
PROPERTIES
    SavingSurvivesReset
