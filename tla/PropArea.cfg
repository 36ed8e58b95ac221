CONSTANTS
    Prop = {"p", "q"}
    Width = 3
    Name = "p"
    MaxSets = 3
    Value <- MCValue
    Want <- MCWant
SPECIFICATION FairSpec
INVARIANTS NoLostWake QuietRead
PROPERTY WaitEnds
