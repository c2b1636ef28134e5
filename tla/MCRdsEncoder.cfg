\* Groups 0, 2 and 3, the types with a counter; texts of one and of both
\* segments; commands stop at an unknown time.
SPECIFICATION FairEncoderSpec
CONSTANTS
    PSSegments = 2
    RTSegments = 2
    Kinds <- ThreeKinds
    Texts = {short, long}
    Long = {long}
    Settings = {s1, s2}
    Blank = blank
INVARIANTS EncoderTypeOK CycleComplete BuffersCurrent SentWasPrepared
PROPERTIES EverySegmentSent
