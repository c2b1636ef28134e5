\* Three data words stand for all: the check is linear in them.
SPECIFICATION CrcSpec
CONSTANTS
    BlockBits = 26
    DataWords = {{}, {0, 1, 2, 3, 4, 5, 6, 7, 8, 9, 10, 11, 12, 13, 14, 15},
                 {2, 3, 5, 7, 11, 13, 15}}
    MaxSpan = 5
INVARIANTS TestsAgree DamageDetected NeverMiscorrected MistakesListed
CHECK_DEADLOCK FALSE
