CONSTANTS
    t1 = t1
    t2 = t2
    EOL = EOL
    Pending = Pending
    Texts <- TwoTexts
    MaxLines = 2
    MaxExpects = 2
SPECIFICATION FairSpec
INVARIANTS
    TypeOK
    OutputConserved
    FindsFirstMatch
PROPERTIES
    ExpectSettles
CHECK_DEADLOCK FALSE
