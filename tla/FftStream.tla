----------------------------- MODULE FftStream -----------------------------
(***************************************************************************)
(* The FFT stream of the backend (capture/fft-stream.ts): a module-level    *)
(* singleton that owns at most one rtl_sdr child process.                   *)
(*                                                                         *)
(* Node runs the code between two awaits without interruption, so a step   *)
(* here is what one call, timer or child-process event does up to its next *)
(* await.  startFFTStream and stopFFTStream are called from the scheduler, *)
(* from the state listener and from every HTTP and WebSocket handler       *)
(* without mutual exclusion: each member of Callers is one such            *)
(* asynchronous call chain.  A member of Procs is one child process; it    *)
(* goes back to "unused" when its close event has been handled, so Procs   *)
(* bounds the processes that exist at one time, not the number of spawns.  *)
(*                                                                         *)
(* Left out: gain, bandwidth and FFT size (not read by the control here),  *)
(* lastError (only reported), the notch filters, the spectrum itself.      *)
(***************************************************************************)
EXTENDS Naturals

CONSTANTS
    Callers,    \* concurrent call chains into the module
    Freqs,      \* centre frequencies
    Procs,      \* child processes that can exist at one time
    None,       \* JavaScript's null
    Faults      \* what can go wrong outside: "hang", an rtl_sdr process
                \* outlives SIGTERM by more than 2 s; "spawn", spawning fails

ASSUME NoneAssumption == None \notin Callers \cup Freqs \cup Procs
ASSUME FaultsAssumption == Faults \subseteq {"hang", "spawn"}

VARIABLES
    \* the module-level variables of fft-stream.ts
    sdrProcess, currentCallback, currentConfig, isRunning, isStarting,
    lastStopTime,     \* how long ago: see StopAges
    latestData,       \* centre frequency of the latest frame
    fftProcessor,     \* is there an FFT processor?
    averagingCount,   \* frames in the average, capped at 2
    \* the asynchronous calls
    pc,               \* where each call chain is suspended
    want,             \* the frequency a suspended start will tune to
    waitOn,           \* the process a suspended stop waits for
    restamped,        \* lastStopTime was renewed while the start slept
    \* the child processes
    procState, tuned,
    signal            \* what the module has sent to the process

stream == <<sdrProcess, currentCallback, currentConfig, isRunning, isStarting,
            lastStopTime, latestData, fftProcessor, averagingCount>>
calls  == <<pc, want, waitOn, restamped>>
procs  == <<procState, tuned, signal>>
vars   == <<stream, calls, procs>>

----------------------------------------------------------------------------
(* "fresh" and "aging" are both within MIN_RESTART_DELAY_MS of the stop;   *)
(* "fresh" is within the few milliseconds between exit and close.          *)
StopAges == {"never", "fresh", "aging", "old"}
Recent(age) == age \in {"fresh", "aging"}

(* "stopping": in stopFFTStream, "restarting": in the stopFFTStream that    *)
(* startFFTStream awaits, "sleeping": in the USB release delay.            *)
Locations == {"idle", "stopping", "restarting", "sleeping"}
Waiting(t) == pc[t] \in {"stopping", "restarting"}

(* "exited": the exit event was handled, the close event was not.          *)
ProcStates == {"unused", "alive", "exited"}

(* "ignored": SIGTERM was sent and the 500 ms escalation timer has run     *)
(* without a SIGKILL.                                                      *)
Signals == {"none", "term", "ignored", "kill"}

(* ChildProcess.killed: a signal was sent successfully, not "it is dead".  *)
Killed(p) == signal[p] # "none"

TypeOK ==
    /\ sdrProcess \in Procs \cup {None}
    /\ currentCallback \in Callers \cup {None}
    /\ currentConfig \in Freqs \cup {None}
    /\ isRunning \in BOOLEAN
    /\ isStarting \in BOOLEAN
    /\ lastStopTime \in StopAges
    /\ latestData \in Freqs \cup {None}
    /\ fftProcessor \in BOOLEAN
    /\ averagingCount \in 0..2
    /\ pc \in [Callers -> Locations]
    /\ want \in [Callers -> Freqs \cup {None}]
    /\ waitOn \in [Callers -> Procs \cup {None}]
    /\ restamped \in [Callers -> BOOLEAN]
    /\ procState \in [Procs -> ProcStates]
    /\ tuned \in [Procs -> Freqs \cup {None}]
    /\ signal \in [Procs -> Signals]

Init ==
    /\ sdrProcess = None
    /\ currentCallback = None
    /\ currentConfig = None
    /\ isRunning = FALSE
    /\ isStarting = FALSE
    /\ lastStopTime = "never"
    /\ latestData = None
    /\ fftProcessor = FALSE
    /\ averagingCount = 0
    /\ pc = [t \in Callers |-> "idle"]
    /\ want = [t \in Callers |-> None]
    /\ waitOn = [t \in Callers |-> None]
    /\ restamped = [t \in Callers |-> FALSE]
    /\ procState = [p \in Procs |-> "unused"]
    /\ tuned = [p \in Procs |-> None]
    /\ signal = [p \in Procs |-> "none"]

IsFFTStreamRunning ==
    /\ isRunning
    /\ sdrProcess # None
    /\ ~ Killed(sdrProcess)

----------------------------------------------------------------------------
(* The pieces of startFFTStream after its last await, and of stopFFTStream. *)

(* spawn() returned a process that runs.                                   *)
SpawnRuns(t, f) ==
    \E p \in Procs :
        /\ procState[p] = "unused"
        /\ procState' = [procState EXCEPT ![p] = "alive"]
        /\ tuned' = [tuned EXCEPT ![p] = f]
        /\ signal' = [signal EXCEPT ![p] = "none"]
        /\ sdrProcess' = p
        /\ currentCallback' = t
        /\ currentConfig' = f
        /\ isRunning' = TRUE
        /\ isStarting' = FALSE
        /\ fftProcessor' = TRUE

(* spawn() returned, and the error event (no rtl_sdr binary) came on the   *)
(* next tick; the close event is still to come.                            *)
SpawnErrors(t, f) ==
    \E p \in Procs :
        /\ "spawn" \in Faults
        /\ procState[p] = "unused"
        /\ procState' = [procState EXCEPT ![p] = "exited"]
        /\ tuned' = [tuned EXCEPT ![p] = f]
        /\ signal' = [signal EXCEPT ![p] = "none"]
        /\ sdrProcess' = p
        /\ currentCallback' = t
        /\ currentConfig' = f
        /\ isRunning' = FALSE
        /\ isStarting' = FALSE
        /\ fftProcessor' = TRUE

(* Variant with a fault, for LockHeldByAStart: the catch block forgets     *)
(* isStarting.                                                             *)
SpawnThrowsKeepsLock(callback, config) ==
    /\ "spawn" \in Faults
    /\ isRunning' = FALSE
    /\ fftProcessor' = TRUE
    /\ currentCallback' = callback
    /\ currentConfig' = config
    /\ UNCHANGED <<isStarting, sdrProcess, procs>>

(* spawn() threw: the catch block.  callback and config are the values     *)
(* these variables had when spawn was called.                              *)
SpawnThrows(callback, config) ==
    /\ "spawn" \in Faults
    /\ isRunning' = FALSE
    /\ isStarting' = FALSE
    /\ fftProcessor' = TRUE
    /\ currentCallback' = callback
    /\ currentConfig' = config
    /\ UNCHANGED <<sdrProcess, procs>>

(* Everything from `new FFT` to the end of startFFTStream.                 *)
Spawn(t, f, callback, config) ==
    /\ \/ SpawnRuns(t, f)
       \/ SpawnErrors(t, f)
       \/ SpawnThrows(callback, config)
    /\ UNCHANGED lastStopTime

(* The delay check of startFFTStream, the lock having been taken.          *)
SleepForUsb(t, f, callback, config) ==
    /\ pc' = [pc EXCEPT ![t] = "sleeping"]
    /\ want' = [want EXCEPT ![t] = f]
    /\ restamped' = [restamped EXCEPT ![t] = FALSE]
    /\ isStarting' = TRUE
    /\ currentCallback' = callback
    /\ currentConfig' = config
    /\ UNCHANGED <<sdrProcess, lastStopTime, waitOn, procs>>

(* The assignments after the await of stopFFTStream.                       *)
StopTail ==
    /\ currentCallback' = None
    /\ currentConfig' = None
    /\ isRunning' = FALSE
    /\ fftProcessor' = FALSE
    /\ averagingCount' = 0
    /\ latestData' = None

(* Variant with a fault, for StopOwnsItsProcess: sdrProcess is not cleared *)
(* before the await.                                                       *)
BeginStopKeepsProcess(t, loc) ==
    /\ sdrProcess # None
    /\ ~ Killed(sdrProcess)
    /\ waitOn' = [waitOn EXCEPT ![t] = sdrProcess]
    /\ signal' = [signal EXCEPT ![sdrProcess] =
                    IF procState[sdrProcess] = "alive" THEN "term" ELSE @]
    /\ pc' = [pc EXCEPT ![t] = loc]
    /\ UNCHANGED sdrProcess

(* stopFFTStream up to its await.  kill() on a process whose exit was      *)
(* handled sends nothing and leaves `killed` false.                        *)
BeginStop(t, loc) ==
    /\ sdrProcess # None
    /\ ~ Killed(sdrProcess)
    /\ waitOn' = [waitOn EXCEPT ![t] = sdrProcess]
    /\ signal' = [signal EXCEPT ![sdrProcess] =
                    IF procState[sdrProcess] = "alive" THEN "term" ELSE @]
    /\ sdrProcess' = None
    /\ pc' = [pc EXCEPT ![t] = loc]

(* lastStopTime = Date.now(): a start that sleeps since an earlier stop    *)
(* does not see the new value.                                             *)
StampStop ==
    /\ lastStopTime' = "fresh"
    /\ restamped' = [s \in Callers |->
                       \/ restamped[s]
                       \/ pc[s] = "sleeping" /\ lastStopTime \in {"aging", "old"}]

(* Variant with a fault, for Station's PassesComplete: the promise is      *)
(* never resolved.                                                         *)
ResumeStopUnresolved(t) ==
    /\ StopTail
    /\ UNCHANGED <<pc, waitOn, want>>

(* The await of stopFFTStream in t ends: StopTail, and a stop called from  *)
(* startFFTStream goes on to the delay check, which always sleeps.         *)
ResumeStop(t) ==
    /\ StopTail
    /\ pc' = [pc EXCEPT ![t] = IF pc[t] = "stopping" THEN "idle" ELSE "sleeping"]
    /\ waitOn' = [waitOn EXCEPT ![t] = None]
    /\ UNCHANGED want

----------------------------------------------------------------------------
(* startFFTStream(f, callback of t)                                        *)

StartRefused(t, f) ==
    /\ pc[t] = "idle"
    /\ isStarting
    /\ UNCHANGED vars

StartSameFrequency(t, f) ==
    /\ pc[t] = "idle"
    /\ ~ isStarting
    /\ isRunning
    /\ currentConfig = f
    /\ currentCallback' = t
    /\ UNCHANGED <<sdrProcess, currentConfig, isRunning, isStarting, lastStopTime,
                   latestData, fftProcessor, averagingCount, calls, procs>>

(* Not running: take the lock, then sleep or spawn at once.                *)
StartStopped(t, f) ==
    /\ pc[t] = "idle"
    /\ ~ isStarting
    /\ ~ isRunning
    /\ \/ /\ Recent(lastStopTime)
          /\ SleepForUsb(t, f, currentCallback, currentConfig)
          /\ UNCHANGED <<isRunning, fftProcessor>>
       \/ /\ ~ Recent(lastStopTime)
          /\ Spawn(t, f, currentCallback, currentConfig)
          /\ UNCHANGED calls
    /\ UNCHANGED <<latestData, averagingCount>>

(* Variant with a fault, for NoOrphan and ImplementsSdrDevice: the old     *)
(* process is not stopped first.                                           *)
StartRetuneWithoutStop(t, f) ==
    /\ pc[t] = "idle"
    /\ ~ isStarting
    /\ isRunning
    /\ currentConfig # f
    /\ Spawn(t, f, currentCallback, currentConfig)
    /\ UNCHANGED <<latestData, averagingCount, calls>>

(* Running at another frequency: take the lock and await stopFFTStream.    *)
StartRetune(t, f) ==
    /\ pc[t] = "idle"
    /\ ~ isStarting
    /\ isRunning
    /\ currentConfig # f
    /\ BeginStop(t, "restarting")
    /\ want' = [want EXCEPT ![t] = f]
    /\ restamped' = [restamped EXCEPT ![t] = FALSE]
    /\ isStarting' = TRUE
    /\ UNCHANGED <<currentCallback, currentConfig, isRunning, lastStopTime,
                   latestData, fftProcessor, averagingCount, procState, tuned>>

(* isRunning is still set while another call awaits the end of the process *)
(* and has cleared sdrProcess: the inner stopFFTStream has nothing to wait *)
(* for, runs its tail at once, and the start goes on.                      *)
StartDuringStop(t, f) ==
    /\ pc[t] = "idle"
    /\ ~ isStarting
    /\ isRunning
    /\ currentConfig # f
    /\ sdrProcess = None
    /\ latestData' = None
    /\ averagingCount' = 0
    /\ \/ /\ Recent(lastStopTime)
          /\ SleepForUsb(t, f, None, None)
          /\ isRunning' = FALSE
          /\ fftProcessor' = FALSE
       \/ /\ ~ Recent(lastStopTime)
          /\ Spawn(t, f, None, None)
          /\ UNCHANGED calls

(* Variant with a fault, for RestartDelay: no sleep before the spawn.      *)
WakeAtOnce(t) ==
    /\ pc[t] = "sleeping"
    /\ Spawn(t, want[t], currentCallback, currentConfig)
    /\ pc' = [pc EXCEPT ![t] = "idle"]
    /\ want' = [want EXCEPT ![t] = None]
    /\ restamped' = [restamped EXCEPT ![t] = FALSE]
    /\ UNCHANGED <<latestData, averagingCount, waitOn>>

(* The delay is over: sleep(waitTime) was computed from the lastStopTime   *)
(* read before the sleep.                                                  *)
WakeAndSpawn(t) ==
    /\ pc[t] = "sleeping"
    /\ lastStopTime = "old" \/ restamped[t]
    /\ Spawn(t, want[t], currentCallback, currentConfig)
    /\ pc' = [pc EXCEPT ![t] = "idle"]
    /\ want' = [want EXCEPT ![t] = None]
    /\ restamped' = [restamped EXCEPT ![t] = FALSE]
    /\ UNCHANGED <<latestData, averagingCount, waitOn>>

StartFFTStream(t, f) ==
    \/ StartRefused(t, f)
    \/ StartSameFrequency(t, f)
    \/ StartStopped(t, f)
    \/ StartRetune(t, f)
    \/ StartDuringStop(t, f)

(* stopFFTStream()                                                         *)
StopRunning(t) ==
    /\ pc[t] = "idle"
    /\ BeginStop(t, "stopping")
    /\ UNCHANGED <<currentCallback, currentConfig, isRunning, isStarting,
                   lastStopTime, latestData, fftProcessor, averagingCount,
                   want, restamped, procState, tuned>>

StopNothing(t) ==
    /\ pc[t] = "idle"
    /\ sdrProcess = None
    /\ StopTail
    /\ UNCHANGED <<sdrProcess, isStarting, lastStopTime, calls, procs>>

(* Variant with a fault, for CallsReturn: stopFFTStream waits for the      *)
(* process without a timeout.                                              *)
NoStopTimeout(t) == FALSE /\ UNCHANGED vars

(* The 2 s timeout of Promise.race: the process is still there.            *)
StopTimeout(t) ==
    /\ "hang" \in Faults
    /\ Waiting(t)
    /\ signal[waitOn[t]] \in {"ignored", "kill"}
    /\ StampStop
    /\ ResumeStop(t)
    /\ UNCHANGED <<sdrProcess, isStarting, procs>>

(* The 500 ms escalation timer of stopFFTStream.                           *)
EscalationTimer(p) ==
    /\ procState[p] = "alive"
    /\ signal[p] = "term"
    /\ signal' = [signal EXCEPT ![p] = IF Killed(p) THEN "ignored" ELSE "kill"]
    /\ UNCHANGED <<stream, calls, procState, tuned>>

----------------------------------------------------------------------------
(* Child-process events.                                                   *)

(* The exit event.  A stop that waits for p resumes in the same turn of    *)
(* the event loop, before the close event.                                 *)
ProcExit(p) ==
    /\ procState[p] = "alive"
    /\ procState' = [procState EXCEPT ![p] = "exited"]
    /\ \/ /\ \A t \in Callers : waitOn[t] # p
          /\ UNCHANGED <<stream, calls>>
       \/ \E t \in Callers :
            /\ waitOn[t] = p
            /\ StampStop
            /\ ResumeStop(t)
            /\ UNCHANGED <<sdrProcess, isStarting>>
    /\ UNCHANGED <<tuned, signal>>

(* Variant with a fault, for StatusTruthful: a close event without a       *)
(* waiting stop is not handled.                                            *)
ProcCloseUnnoticed(p) ==
    /\ procState[p] = "exited"
    /\ \A t \in Callers : waitOn[t] # p
    /\ procState' = [procState EXCEPT ![p] = "unused"]
    /\ tuned' = [tuned EXCEPT ![p] = None]
    /\ signal' = [signal EXCEPT ![p] = "none"]
    /\ UNCHANGED <<stream, calls>>

(* The close event.  The handler registered by startFFTStream clears the   *)
(* module's state whichever process it belongs to; a stop that was called  *)
(* after the exit event resumes.                                           *)
ProcClose(p) ==
    /\ procState[p] = "exited"
    /\ procState' = [procState EXCEPT ![p] = "unused"]
    /\ tuned' = [tuned EXCEPT ![p] = None]
    /\ signal' = [signal EXCEPT ![p] = "none"]
    /\ isStarting' = FALSE
    /\ sdrProcess' = None
    /\ StampStop
    /\ \/ /\ \A t \in Callers : waitOn[t] # p
          /\ isRunning' = FALSE
          /\ UNCHANGED <<currentCallback, currentConfig, latestData, fftProcessor,
                         averagingCount, pc, want, waitOn>>
       \/ \E t \in Callers :
            /\ waitOn[t] = p
            /\ ResumeStop(t)

(* The stdout handler: one frame within the rate limit.  The first frame   *)
(* of an average is not emitted.                                           *)
Frame(p) ==
    /\ procState[p] # "unused"
    /\ fftProcessor
    /\ averagingCount' = IF averagingCount < 2 THEN averagingCount + 1 ELSE 2
    /\ latestData' = IF averagingCount + 1 < 2 THEN latestData ELSE tuned[p]
    /\ UNCHANGED <<sdrProcess, currentCallback, currentConfig, isRunning, isStarting,
                   lastStopTime, fftProcessor, calls, procs>>

(* Seconds pass.  The close event follows the exit event within            *)
(* milliseconds (the pipes have no other holder).                          *)
Tick ==
    /\ \A p \in Procs : procState[p] # "exited"
    /\ \/ lastStopTime = "fresh" /\ lastStopTime' = "aging"
       \/ lastStopTime = "aging" /\ lastStopTime' = "old"
    /\ UNCHANGED <<sdrProcess, currentCallback, currentConfig, isRunning, isStarting,
                   latestData, fftProcessor, averagingCount, calls, procs>>

----------------------------------------------------------------------------
Next ==
    \/ \E t \in Callers, f \in Freqs : StartFFTStream(t, f)
    \/ \E t \in Callers :
         \/ WakeAndSpawn(t)
         \/ StopRunning(t)
         \/ StopNothing(t)
         \/ StopTimeout(t)
    \/ \E p \in Procs :
         \/ EscalationTimer(p)
         \/ ProcExit(p)
         \/ ProcClose(p)
         \/ Frame(p)
    \/ Tick

Spec == Init /\ [][Next]_vars

(* Timers and promise continuations run; the close event follows the exit  *)
(* event; a process that does not hang exits when it gets SIGTERM.  Calls, *)
(* frames and crashes are never owed.                                      *)
Fairness ==
    /\ WF_vars(Tick)
    /\ \A t \in Callers : WF_vars(WakeAndSpawn(t)) /\ WF_vars(StopTimeout(t))
    /\ \A p \in Procs :
         /\ WF_vars(EscalationTimer(p))
         /\ WF_vars(ProcClose(p))
         /\ WF_vars("hang" \notin Faults /\ Killed(p) /\ ProcExit(p))

FairSpec == Spec /\ Fairness

----------------------------------------------------------------------------
(* What holds for any number of concurrent callers.                        *)

(* isFFTStreamRunning() never lies, however the calls and the events of    *)
(* old and new processes interleave: when it is true there is a process    *)
(* whose close event has not come, it is tuned to the frequency that       *)
(* getFFTStreamConfig() reports, and its frames have a processor and a     *)
(* callback to go to.  (isRunning alone, or sdrProcess alone, does lie.)   *)
StatusTruthful ==
    IsFFTStreamRunning =>
        /\ procState[sdrProcess] # "unused"
        /\ currentConfig # None
        /\ tuned[sdrProcess] = currentConfig
        /\ currentCallback # None
        /\ fftProcessor

(* The isStarting flag is never left set without a start that will clear   *)
(* it: a stuck flag would make every later start return false for ever.    *)
LockHeldByAStart ==
    isStarting => \E t \in Callers : pc[t] \in {"restarting", "sleeping"}

(* No two stops wait for one process, and a process that is being stopped  *)
(* is not the current one: only its own stop resumes on its exit.          *)
StopOwnsItsProcess ==
    \A t \in Callers : Waiting(t) =>
        /\ waitOn[t] # sdrProcess
        /\ \A s \in Callers \ {t} : waitOn[s] # waitOn[t]

(* Every call of startFFTStream and stopFFTStream returns, even when the   *)
(* process ignores SIGTERM and the calls keep interrupting each other.     *)
CallsReturn == \A t \in Callers : pc[t] # "idle" ~> pc[t] = "idle"

----------------------------------------------------------------------------
(* What holds when calls do not overlap and nothing else goes wrong.       *)

(* Every process that has not been told to stop is the one the module will *)
(* stop next: none runs on after the module has lost track of it.          *)
NoOrphan ==
    \A p \in Procs : procState[p] = "alive" /\ ~ Killed(p) => sdrProcess = p

(* MIN_RESTART_DELAY_MS separates the end of a process from the next       *)
(* spawn: "Minimum delay between stop and start (ms) to allow USB device   *)
(* to be released".                                                        *)
RestartDelay ==
    [][(\E p \in Procs : procState[p] = "unused" /\ procState'[p] = "alive")
          => ~ Recent(lastStopTime)]_vars

(* The abstract device: which frequency the one receiver is tuned to.      *)
HeldFrequency ==
    IF \E p \in Procs : procState[p] = "alive"
    THEN tuned[CHOOSE p \in Procs : procState[p] = "alive"]
    ELSE None

Device == INSTANCE SdrDevice WITH Uses <- Freqs, holder <- HeldFrequency

(* The stream uses the receiver as SdrDevice prescribes: a process is      *)
(* spawned only when no other holds the device, so a retune always goes    *)
(* through a release.                                                      *)
ImplementsSdrDevice == Device!Spec

----------------------------------------------------------------------------
(* What the code's comments say and the code does not do.                  *)

(* "Set isStarting BEFORE any async operations to prevent race conditions" *)
(* : no two processes run that nobody has asked to stop.                   *)
OneProcess ==
    \A p, q \in Procs :
        /\ procState[p] = "alive" /\ ~ Killed(p)
        /\ procState[q] = "alive" /\ ~ Killed(q)
        => p = q
=============================================================================
