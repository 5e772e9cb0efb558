---------------------------- MODULE GainControl ----------------------------
(***************************************************************************)
(* Gain of the receiver: the auto-gain calibration and the per-band store  *)
(* (middleware/web/auto-gain.ts), and the part of the web server that      *)
(* drives them (debouncedFFTStart, broadcastFFTData, the gain requests).   *)
(*                                                                         *)
(* Of the FFT stream this module keeps what the gain depends on: a start   *)
(* at the running frequency changes nothing; a start at another frequency  *)
(* lets the old process send frames until it is stopped, and a start soon  *)
(* after a stop waits, before they spawn a process with the gain read when *)
(* the start was called.  One start is under way at a time, a second one   *)
(* is refused: what overlapping starts do is FftStream's subject.          *)
(*                                                                         *)
(* Frequencies are in MHz.  The average of the medians of samplesNeeded    *)
(* spectra is an input: below, within or above the target range.           *)
(***************************************************************************)
EXTENDS Integers

CONSTANTS
    Freqs,           \* frequencies clients ask for
    None,
    minGain, maxGain, step, samplesNeeded,   \* AutoGainConfig
    fallbackGain,    \* 20: the gain without a usable SDR_GAIN
    EnvGains,        \* what SDR_GAIN may be set to; 0 also stands for what is
                     \* not a number
    ApiGains         \* gains in the body of POST /api/fft/start; 0: none given

ASSUME FreqsAssumption == Freqs \subseteq Nat
ASSUME NoneAssumption ==
    /\ None \notin Int
    /\ None \notin [gain : Int, calibrated : BOOLEAN]
    /\ None \notin [freq : Freqs, gain : Int]
ASSUME GainAssumption ==
    /\ minGain \in Int /\ maxGain \in Int /\ step \in Nat
    /\ fallbackGain \in minGain..maxGain
    /\ EnvGains \subseteq Int /\ ApiGains \subseteq Int
ASSUME SamplesAssumption == samplesNeeded \in Nat \ {0}

VARIABLES
    sdrGain,                      \* SDR_GAIN of the environment, or None
    enabled, autoGain, samples,   \* AutoGainState: enabled, currentGain, number of samples
    store,                        \* bandGainStore
    currentGain, currentBand,     \* the server's
    pendingFFTStart,              \* frequency of the debounce timer
    tunedTo, runsAt,              \* frequency and gain of the rtl_sdr process
    retune                        \* a start that waits for the old process or the delay

control == <<sdrGain, enabled, autoGain, samples, store, currentGain, currentBand>>
gainVars == <<control, pendingFFTStart, tunedTo, runsAt, retune>>

----------------------------------------------------------------------------
Bands == {"noaa", "2m", "unknown"}

classifyBand(f) ==
    CASE f \in 136..138 -> "noaa"
      [] f \in 144..146 -> "2m"
      [] OTHER -> "unknown"

(* SDR_GAIN is taken as it is, whatever the receiver's range.              *)
defaultGain == IF sdrGain \in {None, 0} THEN fallbackGain ELSE sdrGain

(* An SDR_GAIN that is set, to whatever, switches the calibration off.     *)
FixedGain == sdrGain # None

Gains == minGain..maxGain
Max2(a, b) == IF a >= b THEN a ELSE b
Min2(a, b) == IF a <= b THEN a ELSE b

Entries == [gain : Int, calibrated : BOOLEAN]   \* BandGainState
Retunes == [freq : Freqs, gain : Int]

GainTypeOK ==
    /\ sdrGain \in EnvGains \cup {None}
    /\ enabled \in BOOLEAN
    /\ autoGain \in Int
    /\ samples \in 0..(samplesNeeded - 1)
    /\ store \in [Bands -> Entries \cup {None}]
    /\ currentGain \in Int
    /\ currentBand \in Bands
    /\ pendingFFTStart \in Freqs \cup {None}
    /\ tunedTo \in Freqs \cup {None}
    /\ runsAt \in Int
    /\ retune \in Retunes \cup {None}

(* createAutoGain starts enabled; the server disables a fixed gain at once.*)
CreateAutoGain(initialGain) ==
    /\ enabled = ~ FixedGain
    /\ autoGain = initialGain
    /\ samples = 0

GainInit ==
    /\ sdrGain \in EnvGains \cup {None}
    /\ CreateAutoGain(defaultGain)
    /\ store = [b \in Bands |-> None]
    /\ currentGain = defaultGain
    /\ currentBand = "noaa"
    /\ pendingFFTStart = None
    /\ tunedTo = None
    /\ runsAt = defaultGain
    /\ retune = None

----------------------------------------------------------------------------
(* The debounce timer: the band's gain, whether to calibrate, the start.   *)

(* getForFrequency: a stored gain is used whether it is calibrated or not. *)
GainFor(band) == IF store[band] = None THEN defaultGain ELSE store[band].gain

(* Variant with a fault, for FinalGainKept: a stored gain is calibrated    *)
(* again.                                                                  *)
CalibratesAlways(band) == TRUE

NeedsCalibration(band) == store[band] = None

(* autoGain.enable and autoGain.disable                                    *)
AutoGainEnable ==
    /\ enabled' = TRUE
    /\ samples' = 0

AutoGainDisable ==
    /\ enabled' = FALSE
    /\ samples' = 0

SelectBand(band) ==
    /\ currentBand' = band
    /\ currentGain' = GainFor(band)
    /\ IF NeedsCalibration(band) /\ ~ FixedGain
       THEN AutoGainEnable /\ autoGain' = GainFor(band)
       ELSE AutoGainDisable /\ UNCHANGED autoGain
    /\ UNCHANGED <<sdrGain, store>>

(* startFFTStream with frequency f and gain g.                             *)
Start(f, g) ==
    \/ /\ tunedTo = f \/ retune # None     \* no-op, or refused
       /\ UNCHANGED <<tunedTo, runsAt, retune>>
    \/ /\ tunedTo = None                  \* nothing is running
       /\ retune = None
       /\ tunedTo' = f
       /\ runsAt' = g
       /\ UNCHANGED retune
    \/ /\ tunedTo # f                     \* stop the old process, or wait, first
       /\ retune = None
       /\ retune' = [freq |-> f, gain |-> g]
       /\ UNCHANGED <<tunedTo, runsAt>>

StartTimer ==
    /\ pendingFFTStart # None
    /\ pendingFFTStart' = None
    /\ SelectBand(classifyBand(pendingFFTStart))
    /\ Start(pendingFFTStart, currentGain')

(* POST /api/fft/start: neither the band nor the range of the gain is      *)
(* looked at.                                                              *)
ApiStart(f, g) ==
    /\ Start(f, IF g = 0 THEN currentGain ELSE g)
    /\ UNCHANGED <<control, pendingFFTStart>>

(* The old process is gone, the delay is over, the new one is spawned.     *)
Respawn ==
    /\ retune # None
    /\ tunedTo' = retune.freq
    /\ runsAt' = retune.gain
    /\ retune' = None
    /\ UNCHANGED <<control, pendingFFTStart>>

(* The process ends, or the stream is stopped.                             *)
StreamEnds ==
    /\ tunedTo # None
    /\ tunedTo' = None
    /\ UNCHANGED <<control, pendingFFTStart, runsAt, retune>>

----------------------------------------------------------------------------
(* broadcastFFTData with a subscriber: one frame feeds the calibration.    *)

(* bandGainStore.clear and bandGainStore.set for the current band          *)
Cleared == [store EXCEPT ![currentBand] = None]

Stored(gain, calibrated) ==
    [store EXCEPT ![currentBand] = [gain |-> gain, calibrated |-> calibrated]]

(* Fewer than samplesNeeded samples so far: "waiting".                     *)
FeedWaits ==
    /\ tunedTo # None
    /\ enabled
    /\ samples + 1 < samplesNeeded
    /\ samples' = samples + 1
    /\ UNCHANGED <<sdrGain, enabled, autoGain, store, currentGain, currentBand,
                   pendingFFTStart, tunedTo, runsAt, retune>>

(* Variant with a fault, for GainInRange: the limits are not applied.      *)
AdjustedUnlimited(level) ==
    CASE level = "high" -> autoGain - step
      [] level = "low"  -> autoGain + step
      [] OTHER          -> autoGain

Adjusted(level) ==
    CASE level = "high" -> Max2(minGain, autoGain - step)
      [] level = "low"  -> Min2(maxGain, autoGain + step)
      [] OTHER          -> autoGain

(* "adjusted": the new gain is stored as not calibrated and the stream     *)
(* restarted at its frequency.                                             *)
FeedAdjusts(level) ==
    /\ tunedTo # None
    /\ enabled
    /\ samples + 1 = samplesNeeded
    /\ samples' = 0
    /\ Adjusted(level) # autoGain
    /\ autoGain' = Adjusted(level)
    /\ currentGain' = autoGain'
    /\ store' = Stored(autoGain', FALSE)
    /\ pendingFFTStart' = tunedTo
    /\ UNCHANGED <<sdrGain, enabled, currentBand, tunedTo, runsAt, retune>>

(* "in_range" or "limit_reached": the gain is final.                       *)
FeedSettles(level) ==
    /\ tunedTo # None
    /\ enabled
    /\ samples + 1 = samplesNeeded
    /\ samples' = 0
    /\ Adjusted(level) = autoGain
    /\ enabled' = FALSE
    /\ store' = Stored(autoGain, TRUE)
    /\ currentGain' = autoGain
    /\ UNCHANGED <<sdrGain, autoGain, currentBand, pendingFFTStart, tunedTo, runsAt,
                   retune>>

----------------------------------------------------------------------------
(* Requests.                                                               *)

(* fft_subscribe, fft_set_frequency, a scanning frequency                  *)
RequestFrequency(f) ==
    /\ pendingFFTStart' = f
    /\ UNCHANGED <<control, tunedTo, runsAt, retune>>

(* isFFTStreamRunning: false as soon as a retune has begun.                *)
Running == tunedTo # None /\ retune = None

(* Variant with a fault, for NeverRecalibratesFinalGain: auto-gain is not  *)
(* disabled.                                                               *)
AutoGainSetGainKeepsOn(g) ==
    /\ autoGain' = g
    /\ samples' = 0
    /\ UNCHANGED enabled

(* autoGain.setGain                                                        *)
AutoGainSetGain(g) ==
    /\ autoGain' = g
    /\ enabled' = FALSE
    /\ samples' = 0

(* What both requests do with a gain: it is final for the current band,    *)
(* and a running stream is restarted.                                      *)
SetGain(g) ==
    /\ currentGain' = g
    /\ AutoGainSetGain(g)
    /\ store' = Stored(g, TRUE)
    /\ pendingFFTStart' = IF Running THEN tunedTo ELSE pendingFFTStart
    /\ UNCHANGED <<sdrGain, currentBand, tunedTo, runsAt, retune>>

(* fft_set_gain: a gain out of range is ignored.                           *)
FftSetGain(g) ==
    /\ g \in Gains
    /\ SetGain(g)

(* POST /api/config/gain with a gain: out of range it is answered by 400.  *)
PostGain(g) ==
    /\ g \in Gains
    /\ SetGain(g)

(* POST /api/config/gain { auto: true }                                    *)
EnableAutoGain ==
    /\ store' = Cleared
    /\ AutoGainEnable
    /\ UNCHANGED <<sdrGain, autoGain, currentGain, currentBand, pendingFFTStart,
                   tunedTo, runsAt, retune>>

Averages == {"low", "inRange", "high"}

GainNext ==
    \/ StartTimer
    \/ Respawn
    \/ StreamEnds
    \/ FeedWaits
    \/ \E level \in Averages : FeedAdjusts(level) \/ FeedSettles(level)
    \/ \E f \in Freqs : RequestFrequency(f)
    \/ \E f \in Freqs, g \in ApiGains : ApiStart(f, g)
    \/ \E g \in (minGain - 1)..(maxGain + 1) : PostGain(g) \/ FftSetGain(g)
    \/ EnableAutoGain

GainSpec == GainInit /\ [][GainNext]_gainVars

----------------------------------------------------------------------------
(* The receiver's range, or from there to an SDR_GAIN outside it.          *)
Allowed == Min2(minGain, defaultGain)..Max2(maxGain, defaultGain)

(* No adjustment, band change, restart or user setting takes a gain out of *)
(* the receiver's range: every gain that is stored, reported or given to   *)
(* rtl_sdr is in it if SDR_GAIN is, or is not set, and otherwise is no     *)
(* further outside than SDR_GAIN itself, which the server does not check   *)
(* (its documents allow 50, its range ends at 49).  The gain of a request  *)
(* to /api/fft/start, which is not checked either, only reaches rtl_sdr.   *)
GainInRange ==
    /\ {autoGain, currentGain} \subseteq Allowed
    /\ \A b \in Bands : store[b] # None => store[b].gain \in Allowed
    /\ runsAt \in Allowed \cup ApiGains
    /\ retune # None => retune.gain \in Allowed \cup ApiGains

(* Calibration never runs over a gain that is final: while it is enabled   *)
(* the current band has no gain that the user set or that an earlier       *)
(* calibration settled on.                                                 *)
NeverRecalibratesFinalGain ==
    enabled => store[currentBand] = None \/ ~ store[currentBand].calibrated

(* A final gain changes only by a request: SetGain stores a final gain,    *)
(* EnableAutoGain removes it; the calibration of another band, late frames *)
(* and restarts leave it alone.                                            *)
FinalGainKept ==
    [][\A b \in Bands :
         store[b] # None /\ store[b].calibrated =>
            \/ store'[b] = store[b]
            \/ store'[b] = None /\ b = currentBand
            \/ store'[b] # None /\ store'[b].calibrated /\ b = currentBand]_gainVars
=============================================================================
