SPECIFICATION Spec
CONSTANTS
    Configs <- MCConfigs
    Key <- MCKey
    BadKeys <- MCBadKeys
    w1 = w1
    w2 = w2
    Workers = {w1}
PROPERTY
    RefusedKeyIsNotRetried
