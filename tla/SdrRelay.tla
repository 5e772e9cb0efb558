------------------------------ MODULE SdrRelay ------------------------------
(***************************************************************************)
(* The SDR relay (sdr-relay/server.ts): an HTTP and WebSocket server beside *)
(* the receiver, for stations whose receiver is on another machine.  It    *)
(* runs the same FFT stream and recorder (capture/recorder.ts) in a process *)
(* of its own.                                                             *)
(*                                                                         *)
(* The handlers call startFFTStream and stopFFTStream without await.  Of   *)
(* the stream they see isFFTStreamRunning() and getFFTStreamConfig(): that *)
(* is all this module keeps of it, and that a running stream has a         *)
(* configuration (FftStream's StatusTruthful, proved for any number of     *)
(* overlapping calls) is all it assumes.                                   *)
(*                                                                         *)
(* Left out: capture parameters, progress percentages, GET /sdr/status and *)
(* /health, which only read, and the audio itself.                         *)
(***************************************************************************)
EXTENDS Integers

CONSTANTS
    Sockets,     \* WebSocket connections to /sdr/fft
    Sessions,    \* capture session ids; bounds the number of captures
    Freqs, None,
    Detections   \* what verifySignalAtFrequency may say of a frequency

ASSUME DetectionsAssumption == Detections \in (SUBSET BOOLEAN) \ {{}}

VARIABLES
    currentMode, fftSubscribers,
    sessions,    \* activeSessions: the status of each session; "starting" and
                 \* "failed", startRecording is awaited or threw, have no entry
    recorder,    \* rtl_fm and sox of the session
    stops,       \* who awaits session.stop(): "auto", the progress interval,
                 \* or "request"
    check,       \* wasFFTRunning of the signal checks under way: one or more
                 \* of each kind in the set
    streamRunning, streamConfig     \* what fft-stream.ts reports

fft   == <<streamRunning, streamConfig>>
relay == <<currentMode, fftSubscribers, sessions, recorder, stops, check>>
relayVars == <<relay, fft>>

RelayTypeOK ==
    /\ currentMode \in {"idle", "fft", "recording"}
    /\ fftSubscribers \subseteq Sockets
    /\ sessions \in [Sessions -> {"none", "starting", "failed", "recording", "complete"}]
    /\ recorder \in [Sessions -> {"off", "running", "ending", "over"}]
    /\ stops \in [Sessions -> SUBSET {"auto", "request"}]
    /\ check \subseteq {"fftWasOff", "fftWasOn"}
    /\ streamRunning \in BOOLEAN
    /\ streamConfig \in Freqs \cup {None}

RelayInit ==
    /\ currentMode = "idle"
    /\ fftSubscribers = {}
    /\ sessions = [s \in Sessions |-> "none"]
    /\ recorder = [s \in Sessions |-> "off"]
    /\ stops = [s \in Sessions |-> {}]
    /\ check = {}
    /\ streamRunning = FALSE
    /\ streamConfig = None

----------------------------------------------------------------------------
(* The FFT stream.                                                         *)

(* Any change of a stream that reports the truth: a call of startFFTStream *)
(* (at once, or later after a stop and a delay, or refused), the end of a  *)
(* stop or of the process.                                                 *)
StreamChanges ==
    /\ streamRunning' \in BOOLEAN
    /\ streamConfig' \in Freqs \cup {None}
    /\ streamRunning' => streamConfig' # None

(* stopFFTStream, not awaited, if the stream runs: it no longer reports    *)
(* running, and forgets its configuration when the process has ended.      *)
PauseFft ==
    /\ streamRunning' = FALSE
    /\ UNCHANGED streamConfig

----------------------------------------------------------------------------
(* WebSocket messages.                                                     *)

(* subscribe; refused while recording.  The stream is started, not         *)
(* awaited: `started` is a promise and never falsy.                        *)
Subscribe(x) ==
    /\ currentMode # "recording"
    /\ fftSubscribers' = fftSubscribers \cup {x}
    /\ IF streamRunning
       THEN UNCHANGED <<currentMode, fft>>
       ELSE StreamChanges /\ currentMode' = "fft"
    /\ UNCHANGED <<sessions, recorder, stops, check>>

(* The last subscriber to leave stops the stream, if it runs.              *)
Leave(x) ==
    /\ fftSubscribers' = fftSubscribers \ {x}
    /\ IF fftSubscribers' = {} /\ streamRunning
       THEN PauseFft /\ currentMode' = "idle"
       ELSE UNCHANGED <<currentMode, fft>>
    /\ UNCHANGED <<sessions, recorder, stops, check>>

Unsubscribe(x) == Leave(x)
SocketClosed(x) == x \in fftSubscribers /\ Leave(x)

(* broadcastFFTData drops a subscriber it cannot send to; the stream goes  *)
(* on, also without any.                                                   *)
BroadcastFails(x) ==
    /\ streamRunning
    /\ x \in fftSubscribers
    /\ fftSubscribers' = fftSubscribers \ {x}
    /\ UNCHANGED <<currentMode, sessions, recorder, stops, check, fft>>

(* updateFFTFrequency starts the stream with the current callback.         *)
UpdateFFTFrequency ==
    /\ streamRunning
    /\ StreamChanges
    /\ UNCHANGED relay

(* set_frequency, from any socket, and POST /sdr/tune                      *)
SetFrequency == UpdateFFTFrequency
Tune == UpdateFFTFrequency

----------------------------------------------------------------------------
(* Captures.                                                               *)

(* POST /sdr/capture/start up to the await of startRecording.              *)
CaptureStart(s) ==
    /\ currentMode # "recording"
    /\ sessions[s] = "none"
    /\ PauseFft
    /\ sessions' = [sessions EXCEPT ![s] = "starting"]
    /\ UNCHANGED <<currentMode, fftSubscribers, recorder, stops, check>>

(* startRecording has spawned rtl_fm and sox.                              *)
CaptureRecords(s) ==
    /\ sessions[s] = "starting"
    /\ sessions' = [sessions EXCEPT ![s] = "recording"]
    /\ recorder' = [recorder EXCEPT ![s] = "running"]
    /\ currentMode' = "recording"
    /\ UNCHANGED <<fftSubscribers, stops, check, fft>>

(* startRecording threw (the directory cannot be made).                    *)
CaptureStartFails(s) ==
    /\ sessions[s] = "starting"
    /\ sessions' = [sessions EXCEPT ![s] = "failed"]
    /\ currentMode' = "idle"
    /\ UNCHANGED <<fftSubscribers, recorder, stops, check, fft>>

(* session.stop() up to its await: rtl_fm gets SIGTERM, sox ends when its  *)
(* input does.                                                             *)
BeginStop(s, who) ==
    /\ recorder' = [recorder EXCEPT ![s] = IF @ = "running" THEN "ending" ELSE @]
    /\ stops' = [stops EXCEPT ![s] = @ \cup {who}]
    /\ UNCHANGED <<currentMode, fftSubscribers, sessions, check, fft>>

(* The progress interval finds the duration over, and ends itself.         *)
DurationReached(s) ==
    /\ sessions[s] = "recording"
    /\ "auto" \notin stops[s]
    /\ BeginStop(s, "auto")

(* POST /sdr/capture/stop, for any session there is, complete or not.      *)
CaptureStop(s) ==
    /\ sessions[s] \in {"recording", "complete"}
    /\ "request" \notin stops[s]
    /\ BeginStop(s, "request")

(* Variant with a fault, for RecordingModeBacked: the mode is not reset. *)
CompletesKeepsMode(s, left) ==
    /\ sessions' = [sessions EXCEPT ![s] = "complete"]
    /\ stops' = [stops EXCEPT ![s] = left]
    /\ UNCHANGED currentMode

(* What both callers do when session.stop() has returned.                  *)
Completes(s, left) ==
    /\ sessions' = [sessions EXCEPT ![s] = "complete"]
    /\ stops' = [stops EXCEPT ![s] = left]
    /\ currentMode' = "idle"

(* The close event of sox, after SIGTERM or because rtl_fm died: every     *)
(* stop that waits returns.                                                *)
SoxCloses(s) ==
    /\ recorder[s] \in {"running", "ending"}
    /\ recorder' = [recorder EXCEPT ![s] = "over"]
    /\ IF stops[s] = {} THEN UNCHANGED <<currentMode, sessions, stops>>
                        ELSE Completes(s, {})
    /\ UNCHANGED <<fftSubscribers, check, fft>>

(* Variant with a fault, for SessionsComplete: a stop called after the end *)
(* of sox waits for a close event that has been and gone.                  *)
NoStopTimeout(s, who) == FALSE /\ UNCHANGED relayVars

(* The 5 s timeout of stop(): the only end of a stop called after sox has  *)
(* closed.                                                                 *)
StopTimeout(s, who) ==
    /\ who \in stops[s]
    /\ Completes(s, stops[s] \ {who})
    /\ UNCHANGED <<fftSubscribers, recorder, check, fft>>

----------------------------------------------------------------------------
(* POST /sdr/signal/check up to the await of rtl_power; nothing keeps two  *)
(* of them apart.                                                          *)
SignalCheck ==
    /\ currentMode # "recording"
    /\ check' = check \cup {IF streamRunning THEN "fftWasOn" ELSE "fftWasOff"}
    /\ PauseFft
    /\ UNCHANGED <<currentMode, fftSubscribers, sessions, recorder, stops>>

(* The rtl_power of a check has ended: the configuration, if there is one  *)
(* now, is started again, and the answer gives one of two powers.  Others  *)
(* of its kind may still be under way.                                     *)
SignalChecked ==
    /\ \E c \in check :
         /\ check' \in {check, check \ {c}}
         /\ IF c = "fftWasOn" /\ streamConfig # None THEN StreamChanges ELSE UNCHANGED fft
    /\ UNCHANGED <<currentMode, fftSubscribers, sessions, recorder, stops>>

ApproximatePower(detected) == IF detected THEN -20 ELSE -50

----------------------------------------------------------------------------
(* The FFT stream by itself.                                               *)
FftAlone == StreamChanges /\ UNCHANGED relay

(* What anybody may ask of the relay for session s, beside starting it.    *)
SessionNext(s) ==
    \/ CaptureRecords(s) \/ CaptureStartFails(s)
    \/ DurationReached(s) \/ CaptureStop(s) \/ SoxCloses(s)
    \/ \E who \in {"auto", "request"} : StopTimeout(s, who)

RelayNext ==
    \/ \E x \in Sockets :
         \/ Subscribe(x)
         \/ Unsubscribe(x)
         \/ SocketClosed(x)
         \/ BroadcastFails(x)
    \/ SetFrequency \/ Tune
    \/ \E s \in Sessions : SessionNext(s)
    \/ FftAlone

(* startRecording, the progress interval and the stop timers end; nothing  *)
(* a client does is owed.                                                  *)
RelayFairness ==
    \A s \in Sessions :
        /\ WF_relayVars(CaptureRecords(s) \/ CaptureStartFails(s))
        /\ WF_relayVars(DurationReached(s))
        /\ \A who \in {"auto", "request"} : WF_relayVars(StopTimeout(s, who))

----------------------------------------------------------------------------
(* The relay refuses captures, subscriptions and signal checks while its   *)
(* mode is "recording": then some session really is, whatever starts,      *)
(* automatic stops and stop requests overlap.                              *)
RecordingModeBacked ==
    currentMode = "recording" => \E s \in Sessions : sessions[s] = "recording"

(* Every recording is completed, also when the client that asked for it is *)
(* gone and when sox ended before it was told to.                          *)
SessionsComplete ==
    \A s \in Sessions : sessions[s] = "recording" ~> sessions[s] = "complete"
=============================================================================
