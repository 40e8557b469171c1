SPECIFICATION FairSpec
CONSTANTS
    Configs <- MCTwoConfigs
    Key <- MCKey
    BadKeys <- MCBadKeys
    w1 = w1
    w2 = w2
    Workers = {w1}
PROPERTIES
    OvertakenConnectionEnds
    JoinsReturn
