------------------------------ MODULE Station ------------------------------
(***************************************************************************)
(* The capture station: the continuous capture loop (cli/commands/run.ts), *)
(* the scheduler, the ground SSTV scanner, the state manager and the web   *)
(* server's FFT handlers, around the FFT stream of FftStream.  All of them *)
(* run on one event loop and share one RTL-SDR receiver and one status.    *)
(*                                                                         *)
(* The state manager emits its events synchronously, so the server's       *)
(* listener runs, up to its first await, inside the step that emits.       *)
(* Left out: gain and calibration, capture progress, TLEs and prediction   *)
(* (a batch of passes is an input), the database rows.                     *)
(***************************************************************************)
EXTENDS SignalCheck

CONSTANTS
    Clients,      \* WebSocket clients
    WebCallers,   \* concurrent debounce and idle-stop timer callbacks and
                  \* /api/fft requests
    Freqs, Procs, None, Faults,
    ScanFreqs,    \* SSTV_SCAN_FREQUENCIES, in order
    Batch,        \* the passes predictPasses returns
    SignalAttempts,   \* attempts of verifySignal
    ScanOutputs,      \* what rtl_power may print
    MinSignalStrength,
    GroundScan,   \* may the operator enable ground scanning?
    Requests      \* what clients ask for beside subscribing: "frequency",
                  \* "gain", "api" (the /api/fft endpoints)

ASSUME ScanFreqsAssumption == ScanFreqs \in Seq(Freqs) /\ Len(ScanFreqs) > 0
ASSUME SignalAssumption == SignalAttempts \in Nat \ {0} /\ MinSignalStrength \in Int
ASSUME GroundScanAssumption == GroundScan \in BOOLEAN
ASSUME RequestsAssumption == Requests \subseteq {"frequency", "gain", "api"}

(* The call chains into fft-stream.ts.                                     *)
Callers == WebCallers \cup {"scheduler", "scanner", "listener"}

Passes == {Batch[i] : i \in 1..Len(Batch)}

ASSUME BatchAssumption == Batch \in Seq(Passes)
ASSUME StreamAssumption ==
    None \notin Callers \cup Freqs \cup Procs /\ Faults \subseteq {"hang", "spawn"}

VARIABLES
    \* capture loop and scheduler
    sched,        \* where the loop is suspended
    queue,        \* passes of the batch not yet looked at; the head is next
    scanWait,     \* waitForPass took the branch that scans
    \* state manager
    status, currentPass, scanningFrequency,
    upcomingPasses,   \* as a set: nobody here reads their order
    \* scanner
    scan,         \* where scanForSstv is suspended
    scanIndex,    \* index into ScanFreqs
    shouldStop,
    groundSstvScanEnabled,
    \* web server
    fftSubscribers, pendingFFTStart, pendingFFTStop,
    \* FftStream
    sdrProcess, currentCallback, currentConfig, isRunning, isStarting,
    lastStopTime, latestData, fftProcessor, averagingCount,
    pc, want, waitOn, restamped, procState, tuned, signal

Fft == INSTANCE FftStream

loop    == <<sched, queue, scanWait>>
state   == <<status, currentPass, upcomingPasses, scanningFrequency>>
scanner == <<scan, scanIndex, shouldStop, groundSstvScanEnabled>>
web     == <<fftSubscribers, pendingFFTStart, pendingFFTStop>>
fft     == <<sdrProcess, currentCallback, currentConfig, isRunning, isStarting,
             lastStopTime, latestData, fftProcessor, averagingCount,
             pc, want, waitOn, restamped, procState, tuned, signal>>
vars    == <<loop, state, scanner, web, fft>>

SchedLocations ==
    {"between", "waiting", "stoppingFft", "usbDelay", "verifying", "recording", "decoding"}
ScanLocations == {"off", "dwelling", "stoppingFft", "usbDelay", "recording", "decoding"}
Statuses == {"idle", "waiting", "scanning", "capturing", "decoding"}

TypeOK ==
    /\ sched \in SchedLocations
    /\ queue \in Seq(Passes)
    /\ scanWait \in BOOLEAN
    /\ status \in Statuses
    /\ currentPass \in Passes \cup {None}
    /\ upcomingPasses \in SUBSET Passes
    /\ scanningFrequency \in Freqs \cup {None}
    /\ scan \in ScanLocations
    /\ scanIndex \in 1..Len(ScanFreqs)
    /\ shouldStop \in BOOLEAN
    /\ groundSstvScanEnabled \in BOOLEAN
    /\ fftSubscribers \subseteq Clients
    /\ pendingFFTStart \in Freqs \cup {None}
    /\ pendingFFTStop \in BOOLEAN
    /\ Fft!TypeOK

Init ==
    /\ sched = "between"
    /\ queue = <<>>
    /\ scanWait = FALSE
    /\ status = "idle"
    /\ currentPass = None
    /\ upcomingPasses = {}
    /\ scanningFrequency = None
    /\ scan = "off"
    /\ scanIndex = 1
    /\ shouldStop = FALSE
    /\ groundSstvScanEnabled = FALSE
    /\ fftSubscribers = {}
    /\ pendingFFTStart = None
    /\ pendingFFTStop = FALSE
    /\ Fft!Init

IsSstvScannerRunning == scan # "off"
InCapture(st) == st \in {"capturing", "decoding"}

----------------------------------------------------------------------------
(* State manager.                                                          *)

SetStatus(st) ==
    /\ status' = st
    /\ scanningFrequency' = IF st = "scanning" THEN scanningFrequency ELSE None

(* setScanningFrequency, and what the listener does with its event: retune *)
(* through the debounce timer if somebody watches and st, the status at    *)
(* that moment, is not a capture.                                          *)
SetScanningFrequency(i, st) ==
    /\ scanIndex' = i
    /\ scanningFrequency' = ScanFreqs[i]
    /\ pendingFFTStart' = IF fftSubscribers # {} /\ ~ InCapture(st)
                          THEN ScanFreqs[i] ELSE pendingFFTStart
    /\ UNCHANGED <<fftSubscribers, pendingFFTStop>>

(* Variant with a fault, for StatusShowsCapture: the status is left as it  *)
(* was.                                                                    *)
StartPassKeepsStatus(pass) ==
    /\ currentPass' = pass
    /\ \/ Fft!IsFFTStreamRunning /\ Fft!StopRunning("listener")
       \/ ~ Fft!IsFFTStreamRunning /\ UNCHANGED fft
    /\ UNCHANGED <<status, upcomingPasses, scanningFrequency>>

(* startPass, and what the listener does with its event.                   *)
StartPass(pass) ==
    /\ currentPass' = pass
    /\ status' = "capturing"
    /\ \/ Fft!IsFFTStreamRunning /\ Fft!StopRunning("listener")
       \/ ~ Fft!IsFFTStreamRunning /\ UNCHANGED fft
    /\ UNCHANGED <<upcomingPasses, scanningFrequency>>

(* completePass: the filter drops the passes whose aos is the startTime of *)
(* the result, which is the time the recording began (or was given up).    *)
CompletePass(pass, beganAtAos) ==
    /\ currentPass' = None
    /\ status' = "idle"
    /\ upcomingPasses' = {p \in upcomingPasses : ~ (p = pass /\ beganAtAos)}

UpdatePasses(list) == upcomingPasses' = {list[i] : i \in DOMAIN list}

----------------------------------------------------------------------------
(* Capture loop and scheduler.  "between": before the next look at queue.   *)

(* One round of the loop up to runScheduler.                               *)
PredictPasses ==
    /\ sched = "between"
    /\ queue = <<>>
    /\ queue' = Batch
    /\ UpdatePasses(Batch)
    /\ UNCHANGED <<sched, scanWait, status, currentPass, scanningFrequency,
                   scanner, web, fft>>

(* Variant with a fault, for TypeOK: the pass that was not found is listed. *)
NothingToScheduleUnset ==
    /\ sched = "between"
    /\ queue = <<>>
    /\ SetStatus("idle")
    /\ UpdatePasses(<<None>>)
    /\ UNCHANGED <<loop, currentPass, scanner, web, fft>>

(* No active satellite, no pass in the next 24 hours, or an exception.     *)
NothingToSchedule ==
    /\ sched = "between"
    /\ queue = <<>>
    /\ SetStatus("idle")
    /\ UpdatePasses(<<>>) \/ UNCHANGED upcomingPasses
    /\ UNCHANGED <<loop, currentPass, scanner, web, fft>>

(* pass.los < now; the loop sets the status when the batch is over.        *)
SkipPastPass ==
    /\ sched = "between"
    /\ queue # <<>>
    /\ queue' = Tail(queue)
    /\ IF Tail(queue) = <<>> THEN SetStatus("idle")
                             ELSE UNCHANGED <<status, scanningFrequency>>
    /\ UNCHANGED <<sched, scanWait, currentPass, upcomingPasses, scanner, web, fft>>

(* waitForPass: the standard wait, of any length.                          *)
WaitForPass ==
    /\ sched = "between"
    /\ queue # <<>>
    /\ sched' = "waiting"
    /\ scanWait' = FALSE
    /\ SetStatus("waiting")
    /\ UNCHANGED <<queue, currentPass, upcomingPasses, scanner, web, fft>>

(* scanForSstv up to the first sleep of its first dwell.                   *)
BeginScan ==
    /\ scan' = "dwelling"
    /\ shouldStop' = FALSE
    /\ status' = "scanning"
    /\ SetScanningFrequency(1, "scanning")

(* waitForPass with more than MIN_IDLE_FOR_SSTV_SCAN to go: scanForSstv is *)
(* called, not awaited.                                                    *)
WaitAndScan ==
    /\ sched = "between"
    /\ queue # <<>>
    /\ ~ IsSstvScannerRunning
    /\ groundSstvScanEnabled
    /\ sched' = "waiting"
    /\ scanWait' = TRUE
    /\ BeginScan
    /\ UNCHANGED <<queue, currentPass, upcomingPasses, groundSstvScanEnabled, fft>>

(* The interval of waitForPass, 30 s before the pass.                      *)
StopScannerBeforePass ==
    /\ sched = "waiting"
    /\ scanWait
    /\ IsSstvScannerRunning
    /\ shouldStop' = TRUE
    /\ UNCHANGED <<loop, state, scan, scanIndex, groundSstvScanEnabled, web, fft>>

(* The end of waitForPass and capturePass up to its first await.  After a  *)
(* wait with a scan the scanner was asked to stop 30 s ago, so it has left *)
(* every state but a recording and its decoding.                           *)
WaitOver ==
    /\ sched = "waiting"
    /\ scanWait => scan \in {"off", "recording", "decoding"} /\ (shouldStop \/ scan = "off")
    /\ shouldStop' = (shouldStop \/ scanWait)
    /\ \/ /\ Fft!IsFFTStreamRunning
          /\ Fft!StopRunning("scheduler")
          /\ sched' = "stoppingFft"
          /\ UNCHANGED state
       \/ /\ ~ Fft!IsFFTStreamRunning
          /\ StartPass(Head(queue))
          /\ sched' \in {"verifying", "recording"}
    /\ UNCHANGED <<queue, scanWait, scan, scanIndex, groundSstvScanEnabled, web>>

(* stopFFTStream has returned: one more second.                            *)
FftStoppedForPass ==
    /\ sched = "stoppingFft"
    /\ pc["scheduler"] = "idle"
    /\ sched' = "usbDelay"
    /\ UNCHANGED <<queue, scanWait, state, scanner, web, fft>>

(* startPass, then verifySignal or, with SKIP_SIGNAL_CHECK, the recording. *)
BeginCapture ==
    /\ sched = "usbDelay"
    /\ StartPass(Head(queue))
    /\ sched' \in {"verifying", "recording"}
    /\ UNCHANGED <<queue, scanWait, scanner, web>>

(* verifySignal: what an attempt may find, and the possible verdicts on    *)
(* all of them.  Nobody else sees the attempts, so they are one step.      *)
Attempted == {CheckSignalOnce(s, MinSignalStrength) : s \in Scans(ScanOutputs)}

VerifySignal ==
    {Passed({i \in 1..SignalAttempts : r[i]}, SignalAttempts) :
        r \in [1..SignalAttempts -> Attempted]}

SignalVerified ==
    /\ sched = "verifying"
    /\ TRUE \in VerifySignal
    /\ sched' = "recording"
    /\ UNCHANGED <<queue, scanWait, state, scanner, web, fft>>

(* The end of capturePass.  After the last pass of the batch the loop sets *)
(* the status to "idle", which clears the scan frequency.                  *)
PassEnds ==
    /\ \E beganAtAos \in BOOLEAN : CompletePass(Head(queue), beganAtAos)
    /\ queue' = Tail(queue)
    /\ scanningFrequency' = IF Tail(queue) = <<>> THEN None ELSE scanningFrequency
    /\ sched' = "between"
    /\ UNCHANGED <<scanWait, scanner, web, fft>>

(* No signal: the pass is given up.                                        *)
SignalTooWeak ==
    /\ sched = "verifying"
    /\ FALSE \in VerifySignal
    /\ PassEnds

(* recordPass has returned: rtl_fm was sent SIGTERM and sox has closed or  *)
(* 5 s have passed.                                                        *)
RecordingDone ==
    /\ sched = "recording"
    /\ sched' = "decoding"
    /\ SetStatus("decoding")
    /\ UNCHANGED <<queue, scanWait, currentPass, upcomingPasses, scanner, web, fft>>

(* An exception from the recording or the decoder, or decoded.             *)
CaptureEnds ==
    /\ sched \in {"recording", "decoding"}
    /\ PassEnds

----------------------------------------------------------------------------
(* Ground SSTV scanner.                                                    *)

(* A sample of the dwell is over the threshold: stopFFTStream is called.   *)
ScanDetects ==
    /\ scan = "dwelling"
    /\ ~ shouldStop
    /\ latestData # None
    /\ \/ Fft!StopRunning("scanner") /\ scan' = "stoppingFft"
       \/ Fft!StopNothing("scanner") /\ scan' = "usbDelay"
    /\ UNCHANGED <<loop, state, scanIndex, shouldStop, groundSstvScanEnabled, web>>

ScanFftStopped ==
    /\ scan = "stoppingFft"
    /\ pc["scanner"] = "idle"
    /\ scan' = "usbDelay"
    /\ UNCHANGED <<loop, state, scanIndex, shouldStop, groundSstvScanEnabled, web, fft>>

(* captureSstv up to the recording: shouldStop is not looked at again.     *)
ScanRecords ==
    /\ scan = "usbDelay"
    /\ scan' = "recording"
    /\ SetStatus("capturing")
    /\ UNCHANGED <<loop, currentPass, upcomingPasses, scanIndex, shouldStop,
                   groundSstvScanEnabled, web, fft>>

ScanRecorded ==
    /\ scan = "recording"
    /\ scan' = "decoding"
    /\ SetStatus("decoding")
    /\ UNCHANGED <<loop, currentPass, upcomingPasses, scanIndex, shouldStop,
                   groundSstvScanEnabled, web, fft>>

(* Variant with a fault, for ScannerYields: the stop flag is not looked at *)
(* after a capture that failed.                                            *)
ScanNextFrequencyAnyway ==
    /\ scan \in {"dwelling", "recording", "decoding"}
    /\ scan = "dwelling" => ~ shouldStop
    /\ LET st == IF scan = "dwelling" THEN status ELSE "scanning"
       IN  /\ status' = st
           /\ SetScanningFrequency((scanIndex % Len(ScanFreqs)) + 1, st)
    /\ scan' = "dwelling"
    /\ UNCHANGED <<loop, currentPass, upcomingPasses, shouldStop, groundSstvScanEnabled, fft>>

(* The next frequency: after a dwell without a signal, or after a capture  *)
(* that failed (status "scanning" again).                                  *)
ScanNextFrequency ==
    /\ scan \in {"dwelling", "recording", "decoding"}
    /\ ~ shouldStop
    /\ LET st == IF scan = "dwelling" THEN status ELSE "scanning"
       IN  /\ status' = st
           /\ SetScanningFrequency((scanIndex % Len(ScanFreqs)) + 1, st)
    /\ scan' = "dwelling"
    /\ UNCHANGED <<loop, currentPass, upcomingPasses, shouldStop, groundSstvScanEnabled, fft>>

(* Variant with a fault, for ScannerStops: a dwell that is asked to stop   *)
(* waits on.                                                               *)
ScanEndsByTimeout ==
    /\ scan \in {"dwelling", "recording", "decoding"}
    /\ ~ (shouldStop /\ scan = "dwelling")
    /\ scan' = "off"
    /\ IF scan # "dwelling" \/ status = "scanning"
       THEN SetStatus("idle")
       ELSE UNCHANGED <<status, scanningFrequency>>
    /\ UNCHANGED <<loop, currentPass, upcomingPasses, scanIndex, shouldStop,
                   groundSstvScanEnabled, web, fft>>

(* scanForSstv ends: asked to stop, out of time, or with an image.  The    *)
(* status becomes "idle" unless a dwell ends while it is something else.   *)
ScanEnds ==
    /\ scan \in {"dwelling", "recording", "decoding"}
    /\ scan' = "off"
    /\ IF scan # "dwelling" \/ status = "scanning"
       THEN SetStatus("idle")
       ELSE UNCHANGED <<status, scanningFrequency>>
    /\ UNCHANGED <<loop, currentPass, upcomingPasses, scanIndex, shouldStop,
                   groundSstvScanEnabled, web, fft>>

(* Switching scanning off stops a scan that is running.                    *)
SetGroundSstvScanEnabled(enabled) ==
    /\ groundSstvScanEnabled' = enabled
    /\ shouldStop' = (shouldStop \/ ~ enabled)

(* POST /api/sstv/ground-scan/toggle                                       *)
ToggleGroundScan ==
    /\ GroundScan
    /\ \E enabled \in BOOLEAN : SetGroundSstvScanEnabled(enabled)
    /\ UNCHANGED <<loop, state, scan, scanIndex, web, fft>>

----------------------------------------------------------------------------
(* Web server.                                                             *)

(* fft_subscribe                                                           *)
Subscribe(c, f) ==
    /\ fftSubscribers' = fftSubscribers \cup {c}
    /\ pendingFFTStop' = FALSE
    /\ pendingFFTStart' =
         IF Fft!IsFFTStreamRunning \/ InCapture(status) THEN pendingFFTStart
         ELSE IF status = "scanning" /\ scanningFrequency # None THEN scanningFrequency
         ELSE f
    /\ UNCHANGED <<loop, state, scanner, fft>>

(* fft_unsubscribe                                                         *)
Unsubscribe(c) ==
    /\ fftSubscribers' = fftSubscribers \ {c}
    /\ pendingFFTStop' = TRUE
    /\ UNCHANGED <<pendingFFTStart, loop, state, scanner, fft>>

(* The WebSocket closes.                                                   *)
Disconnect(c) ==
    /\ c \in fftSubscribers
    /\ fftSubscribers' = fftSubscribers \ {c}
    /\ UNCHANGED <<pendingFFTStart, pendingFFTStop, loop, state, scanner, fft>>

(* fft_set_frequency                                                       *)
SetFrequency(f) ==
    /\ "frequency" \in Requests
    /\ pendingFFTStart' = f
    /\ UNCHANGED <<fftSubscribers, pendingFFTStop, loop, state, scanner, fft>>

(* A gain change, from a client or from auto-gain, restarts the stream at  *)
(* its frequency.                                                          *)
GainChanged ==
    /\ "gain" \in Requests
    /\ Fft!IsFFTStreamRunning
    /\ pendingFFTStart' = currentConfig
    /\ UNCHANGED <<fftSubscribers, pendingFFTStop, loop, state, scanner, fft>>

(* The debounce timer fires.                                               *)
StartTimer(w) ==
    /\ pendingFFTStart # None
    /\ pendingFFTStart' = None
    /\ Fft!StartFFTStream(w, pendingFFTStart)
    /\ UNCHANGED <<fftSubscribers, pendingFFTStop, loop, state, scanner>>

(* The idle-stop timer fires.                                              *)
StopTimer(w) ==
    /\ pendingFFTStop
    /\ pendingFFTStop' = FALSE
    /\ IF fftSubscribers = {} /\ Fft!IsFFTStreamRunning
       THEN Fft!StopRunning(w)
       ELSE UNCHANGED fft
    /\ UNCHANGED <<fftSubscribers, pendingFFTStart, loop, state, scanner>>

(* POST /api/fft/start and /api/fft/stop                                   *)
ApiStart(w, f) ==
    /\ "api" \in Requests
    /\ Fft!StartFFTStream(w, f)
    /\ UNCHANGED <<loop, state, scanner, web>>

ApiStop(w) ==
    /\ "api" \in Requests
    /\ Fft!StopRunning(w) \/ Fft!StopNothing(w)
    /\ UNCHANGED <<loop, state, scanner, web>>

----------------------------------------------------------------------------
(* What the FFT stream does by itself.                                     *)
Alone == UNCHANGED <<loop, state, scanner, web>>

FftWake(t)       == Fft!WakeAndSpawn(t) /\ Alone
FftTimeout(t)    == Fft!StopTimeout(t) /\ Alone
FftEscalation(p) == Fft!EscalationTimer(p) /\ Alone
FftExit(p)       == Fft!ProcExit(p) /\ Alone
FftClose(p)      == Fft!ProcClose(p) /\ Alone
FftFrame(p)      == Fft!Frame(p) /\ Alone
FftTick          == Fft!Tick /\ Alone

Scheduler ==
    \/ PredictPasses \/ NothingToSchedule \/ SkipPastPass \/ WaitForPass \/ WaitAndScan
    \/ StopScannerBeforePass \/ WaitOver \/ FftStoppedForPass \/ BeginCapture
    \/ SignalVerified \/ SignalTooWeak \/ RecordingDone \/ CaptureEnds

Scanner ==
    \/ ScanDetects \/ ScanFftStopped \/ ScanRecords \/ ScanRecorded
    \/ ScanNextFrequency \/ ScanEnds
    \/ ToggleGroundScan

Server ==
    \/ \E c \in Clients :
         \/ \E f \in Freqs : Subscribe(c, f)
         \/ Unsubscribe(c)
         \/ Disconnect(c)
    \/ \E f \in Freqs : SetFrequency(f)
    \/ GainChanged
    \/ \E w \in WebCallers :
         \/ StartTimer(w)
         \/ StopTimer(w)
         \/ ApiStop(w)
         \/ \E f \in Freqs : ApiStart(w, f)

Stream ==
    \/ \E t \in Callers : FftWake(t) \/ FftTimeout(t)
    \/ \E p \in Procs : FftEscalation(p) \/ FftExit(p) \/ FftClose(p) \/ FftFrame(p)
    \/ FftTick

Next == Scheduler \/ Scanner \/ Server \/ Stream

Spec == Init /\ [][Next]_vars

(* Timers and promise continuations run, recordings and decoders end, the  *)
(* scanner gives up at its endTime, and the time of the next pass comes.   *)
(* Nothing a client or the operator does is owed.                          *)
Fairness ==
    /\ WF_vars(WaitOver) /\ WF_vars(StopScannerBeforePass)
    /\ WF_vars(FftStoppedForPass) /\ WF_vars(BeginCapture)
    /\ WF_vars(SignalVerified \/ SignalTooWeak) /\ WF_vars(RecordingDone)
    /\ WF_vars(sched = "decoding" /\ CaptureEnds)
    /\ WF_vars(ScanFftStopped) /\ WF_vars(ScanRecords) /\ WF_vars(ScanRecorded)
    /\ WF_vars((shouldStop \/ scan = "decoding") /\ ScanEnds)
    /\ WF_vars(\E w \in WebCallers : StartTimer(w))
    /\ WF_vars(\E w \in WebCallers : StopTimer(w))
    /\ WF_vars(FftTick)
    /\ \A t \in Callers : WF_vars(FftWake(t)) /\ WF_vars(FftTimeout(t))
    /\ \A p \in Procs :
         /\ WF_vars(FftEscalation(p)) /\ WF_vars(FftClose(p))
         /\ WF_vars("hang" \notin Faults /\ signal[p] # "none" /\ FftExit(p))

FairSpec == Spec /\ Fairness

----------------------------------------------------------------------------
(* Who uses the receiver.                                                  *)
RtlSdr == {p \in Procs : procState[p] = "alive"}
RtlFm  == sched = "recording"

(* While a pass is being captured the status says so, which is what        *)
(* fft_subscribe and the listener for scan frequencies look at before they *)
(* ask for the stream (fft_set_frequency, the API, gain changes and the    *)
(* debounce timer do not look): it does from the step that starts the      *)
(* pass, and only the ground scanner, which writes the same status, may    *)
(* take that away.                                                         *)
StatusShowsCapture ==
    [][currentPass' # None /\ ~ InCapture(status') =>
          IsSstvScannerRunning \/ (currentPass # None /\ ~ InCapture(status))]_vars

(* The scanner gives way to a pass: while the loop works on one, from the  *)
(* stop of the FFT stream to the end of the decoding, the scanner at most  *)
(* finishes a recording it had begun before, with the request to stop      *)
(* still set, and neither dwells nor begins another, whatever that         *)
(* recording comes to and whoever switches scanning off and on meanwhile.  *)
ScannerYields ==
    sched \notin {"between", "waiting"} /\ IsSstvScannerRunning =>
        shouldStop /\ scan \in {"recording", "decoding"}

(* The scanner ends once it is asked to.                                   *)
ScannerStops == IsSstvScannerRunning /\ shouldStop ~> ~ IsSstvScannerRunning

(* The capture loop is never wedged: a wait for a pass ends, the FFT stop  *)
(* it awaits returns whatever the web handlers do meanwhile, and every     *)
(* pass started is completed.                                              *)
PassesComplete == sched # "between" ~> sched = "between"

----------------------------------------------------------------------------
(* What comments and documents say and the code does not do.               *)

(* "The SDR can only be used by one process at a time (rtl_sdr vs rtl_fm)" *)
(* : no FFT process that was not told to stop runs beside a recording.     *)
NoFftDuringRecording ==
    RtlFm => \A p \in RtlSdr : Fft!Killed(p)
=============================================================================
