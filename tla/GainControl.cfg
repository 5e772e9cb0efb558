SPECIFICATION GainSpec
CONSTANTS
    None = None
    Freqs = {137, 144, 145}
    minGain = 0
    maxGain = 2
    step = 2
    samplesNeeded = 2
    fallbackGain = 1
    EnvGains = {0, 2, 4}
    ApiGains = {0, 3}
INVARIANT GainInRange
INVARIANT NeverRecalibratesFinalGain
PROPERTY FinalGainKept
