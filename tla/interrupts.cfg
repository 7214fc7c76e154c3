CONSTANTS
    NUM_TERMINALS = 3
    RTC_HZ = 8
    FreqTable <- MCFreqTable
    WriteFreqs <- MCWriteFreqs
SPECIFICATION Spec
INVARIANT TypeOK
INVARIANT MaskOps
PROPERTY RtcReadCompletes
