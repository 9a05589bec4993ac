SPECIFICATION CallbackSpec
CONSTANTS
    Second = 3
    MaxDelay = 2
    CounterRange = 5
    BlockSize = 2
    FileSizes = {2, 11}
    SineLength = 6
    Peak = {0, 3277, 32768}
INVARIANTS CallbackTypeOK OneLateSend MeterIsHonest
PROPERTIES VoiceGoesOut SilenceIsNoticed StubGoesRound
