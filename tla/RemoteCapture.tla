--------------------------- MODULE RemoteCapture ---------------------------
(***************************************************************************)
(* A pass recorded through the relay: RemoteRecorder.recordPass and        *)
(* RemoteSignalChecker.verifySignal of the SDR client                      *)
(* (backend/sdr-client/index.ts) against SdrRelay, called as capturePass   *)
(* calls their local counterparts: the signal, unless its check is         *)
(* skipped, then the recording.                                            *)
(* fetch has no timeout of its own; it may fail before or after the relay  *)
(* has handled the request.  Other users may start and stop captures on    *)
(* the relay and check signals, at any time.                               *)
(***************************************************************************)
EXTENDS SdrRelay

CONSTANTS
    OwnSessions,      \* ids of the captures recordPass starts
    SignalAttempts,   \* attempts of verifySignal
    minStrength       \* MIN_SIGNAL_STRENGTH

ASSUME OwnAssumption == OwnSessions \subseteq Sessions
ASSUME AttemptsAssumption == SignalAttempts \in Nat \ {0} /\ minStrength \in Int

VARIABLES
    job,         \* where recordPass or verifySignal is suspended
    jobSession,  \* the session its request started
    saved,       \* what it last wrote to its .wav file
    attempt, successCount    \* of verifySignal

recording == <<jobSession, saved>>
verification == <<attempt, successCount>>
client == <<job, recording, verification>>
vars == <<relayVars, client>>

TypeOK ==
    /\ RelayTypeOK
    /\ job \in {"idle", "verifying", "checking", "requesting", "polling", "settling"}
    /\ jobSession \in OwnSessions \cup {None}
    /\ saved \in {"nothing", "audio", "status"}
    /\ attempt \in 1..SignalAttempts
    /\ successCount \in 0..SignalAttempts

Init ==
    /\ RelayInit
    /\ job = "idle"
    /\ jobSession = None
    /\ saved = "nothing"
    /\ attempt = 1
    /\ successCount = 0

----------------------------------------------------------------------------
RecordPass ==
    /\ job = "idle"
    /\ \E s \in OwnSessions : sessions[s] = "none"     \* bound on captures
    /\ job' = "requesting"
    /\ UNCHANGED <<recording, verification, relayVars>>

(* The request reaches the relay, which refuses it (409) ...               *)
RequestRefused ==
    /\ job = "requesting"
    /\ jobSession = None
    /\ currentMode = "recording"
    /\ job' = "idle"
    /\ UNCHANGED <<recording, verification, relayVars>>

(* ... or begins a capture.                                                *)
RequestAccepted ==
    /\ job = "requesting"
    /\ jobSession = None
    /\ \E s \in OwnSessions : CaptureStart(s) /\ jobSession' = s
    /\ UNCHANGED <<job, saved, verification>>

(* The answer: a session id ...                                            *)
StartAnswered ==
    /\ job = "requesting"
    /\ jobSession # None
    /\ sessions[jobSession] \in {"recording", "complete"}
    /\ job' = "polling"
    /\ UNCHANGED <<recording, verification, relayVars>>

(* Variant with a fault, for RecordPassEnds: the relay's catch block does  *)
(* not answer.                                                             *)
StartErrorUnanswered == FALSE /\ UNCHANGED vars

(* ... or an error.                                                        *)
StartErrorAnswered ==
    /\ job = "requesting"
    /\ jobSession # None
    /\ sessions[jobSession] = "failed"
    /\ job' = "idle"
    /\ jobSession' = None
    /\ UNCHANGED <<saved, verification, relayVars>>

(* A fetch fails: recordPass throws; the relay goes on with what it began. *)
FetchFails ==
    /\ job \in {"requesting", "polling", "settling"}
    /\ job' = "idle"
    /\ jobSession' = None
    /\ UNCHANGED <<saved, verification, relayVars>>

(* The polling loop ends, with the session or with its own clock; the      *)
(* download follows 2 s later, whatever the session's state then.          *)
PollingEnds ==
    /\ job = "polling"
    /\ job' = "settling"
    /\ UNCHANGED <<recording, verification, relayVars>>

(* The routes of the relay under GET /sdr/capture/, in the order in which  *)
(* they are tried: the first one matches every path.                       *)
Routes == <<"status", "audio">>
Matches(route, path) == route = "status" \/ path = "audio"
Served(path) == Routes[IF Matches(Routes[1], path) THEN 1 ELSE 2]

(* GET /sdr/capture/:sessionId/audio: the response is saved as it comes.   *)
Download ==
    /\ job = "settling"
    /\ job' = "idle"
    /\ jobSession' = None
    /\ saved' = Served("audio")
    /\ UNCHANGED <<verification, relayVars>>

----------------------------------------------------------------------------
(* verifySignal                                                            *)

VerifySignal ==
    /\ job = "idle"
    /\ \E s \in OwnSessions : sessions[s] = "none"     \* bound on captures
    /\ job' = "verifying"
    /\ UNCHANGED <<recording, verification, relayVars>>

(* One attempt is over: the next one follows 2 s later; after the last one *)
(* the pass is recorded if at least half of them found a signal.           *)
AttemptOver(strong) ==
    LET found == successCount + (IF strong THEN 1 ELSE 0)
    IN  /\ IF attempt < SignalAttempts
           THEN job' = "verifying" /\ attempt' = attempt + 1 /\ successCount' = found
           ELSE /\ job' = IF 2 * found >= SignalAttempts THEN "requesting" ELSE "idle"
                /\ attempt' = 1 /\ successCount' = 0
        /\ UNCHANGED recording

(* The request reaches the relay, which begins a check or refuses (409).   *)
CheckBegins ==
    /\ job = "verifying"
    /\ SignalCheck
    /\ job' = "checking"
    /\ UNCHANGED <<recording, verification>>

CheckRefused ==
    /\ job = "verifying"
    /\ currentMode = "recording"
    /\ AttemptOver(FALSE)
    /\ UNCHANGED relayVars

CheckAnswered ==
    /\ job = "checking"
    /\ SignalChecked
    /\ \E detected \in Detections : AttemptOver(ApproximatePower(detected) > minStrength)

(* The fetch fails, which counts as no signal; the relay goes on with a    *)
(* check it has begun.                                                     *)
CheckFails ==
    /\ job \in {"verifying", "checking"}
    /\ AttemptOver(FALSE)
    /\ UNCHANGED relayVars

ClientNext ==
    \/ VerifySignal \/ CheckBegins \/ CheckRefused \/ CheckAnswered \/ CheckFails
    \/ RecordPass \/ RequestRefused \/ RequestAccepted
    \/ StartAnswered \/ StartErrorAnswered \/ FetchFails
    \/ PollingEnds \/ Download

(* Another user of the relay starts a capture, or checks a signal; also a  *)
(* check whose client has given up.  Of what is under way nothing is taken *)
(* from the check this client waits for.                                   *)
OtherCapture == \E s \in Sessions \ OwnSessions : CaptureStart(s)
OtherCheck ==
    \/ SignalCheck
    \/ SignalChecked /\ (job = "checking" => check' = check)

Next ==
    \/ ClientNext
    \/ (OtherCapture \/ OtherCheck \/ RelayNext) /\ UNCHANGED client

Spec == Init /\ [][Next]_vars

(* A request reaches the relay or fails, an answer arrives or fails,       *)
(* rtl_power ends, the client's clock runs.                                *)
Fairness ==
    /\ RelayFairness
    /\ WF_vars(jobSession = None /\ (RequestRefused \/ RequestAccepted \/ FetchFails))
    /\ WF_vars(StartAnswered) /\ WF_vars(StartErrorAnswered)
    /\ WF_vars(PollingEnds) /\ WF_vars(Download)
    /\ WF_vars(job = "verifying" /\ (CheckBegins \/ CheckRefused \/ CheckFails))
    /\ WF_vars(CheckAnswered)

FairSpec == Spec /\ Fairness

----------------------------------------------------------------------------
(* recordPass and verifySignal always return or throw, although their      *)
(* fetches have no timeout: the relay answers every request.               *)
RecordPassEnds == job # "idle" ~> job = "idle"
=============================================================================
