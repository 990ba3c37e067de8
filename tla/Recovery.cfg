\* Two data and three coding shreds, up to four of them in any order.
SPECIFICATION Spec
CONSTANTS
    NumData = 2
    NumCoding = 3
    ProofSize = 3
    P = 7
    MaxShreds = 4
    CodecOk <- MCCodecOk
    Inputs <- MCInputs
    SoundBlocks <- MCSoundBlocks
    Enough <- MCEnough
    Rebuilt <- MCRebuilt
    HeaderIn <- MCHeaderIn
    SaneShard <- MCSaneShard
INVARIANT EveryShredInItsPlace
INVARIANT YieldedShredsVerify
INVARIANT YieldedShredsReparse
INVARIANT CarriedProofsMatch
INVARIANT FastPathAgrees
INVARIANT RecoveryComplete
INVARIANT FastGivesNewShreds
PROPERTY ImplementsService
