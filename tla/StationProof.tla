---------------------------- MODULE StationProof ----------------------------
(***************************************************************************)
(* Proofs about Station, for any number of clients, web callers, passes,   *)
(* scan frequencies and processes, and any outside faults.                 *)
(*                                                                         *)
(* The station drives the FFT stream only through its operations, so it    *)
(* implements FftStream and inherits what FftStreamProof shows of it.      *)
(***************************************************************************)
EXTENDS Station, TLAPS

FftP == INSTANCE FftStreamProof

----------------------------------------------------------------------------
(* The names of FftStreamProof's instance stand for those of Station's.    *)

LEMMA SameType == Fft!TypeOK <=> FftP!TypeOK
  BY DEF Fft!TypeOK, FftP!TypeOK, Fft!StopAges, FftP!StopAges, Fft!Locations,
     FftP!Locations, Fft!ProcStates, FftP!ProcStates, Fft!Signals, FftP!Signals

LEMMA SameInit == Fft!Init <=> FftP!Init
  BY DEF Fft!Init, FftP!Init

LEMMA SameVars == (UNCHANGED fft <=> UNCHANGED Fft!vars) /\ (UNCHANGED fft <=> UNCHANGED FftP!vars)
  BY DEF fft, Fft!vars, Fft!stream, Fft!calls, Fft!procs,
     FftP!vars, FftP!stream, FftP!calls, FftP!procs

LEMMA SameStart ==
    ASSUME NEW t, NEW f
    PROVE  Fft!StartFFTStream(t, f) <=> FftP!StartFFTStream(t, f)
  BY DEF Fft!StartFFTStream, FftP!StartFFTStream,
     Fft!StartRefused, FftP!StartRefused, Fft!StartSameFrequency, FftP!StartSameFrequency,
     Fft!StartStopped, FftP!StartStopped, Fft!StartRetune, FftP!StartRetune,
     Fft!StartDuringStop, FftP!StartDuringStop, Fft!SleepForUsb, FftP!SleepForUsb,
     Fft!BeginStop, FftP!BeginStop, Fft!Spawn, FftP!Spawn, Fft!SpawnRuns, FftP!SpawnRuns,
     Fft!SpawnErrors, FftP!SpawnErrors, Fft!SpawnThrows, FftP!SpawnThrows,
     Fft!Recent, FftP!Recent, Fft!Killed, FftP!Killed,
     Fft!vars, Fft!stream, Fft!calls, Fft!procs,
     FftP!vars, FftP!stream, FftP!calls, FftP!procs

LEMMA SameCalls ==
    ASSUME NEW t
    PROVE  /\ Fft!WakeAndSpawn(t) <=> FftP!WakeAndSpawn(t)
           /\ Fft!StopRunning(t) <=> FftP!StopRunning(t)
           /\ Fft!StopNothing(t) <=> FftP!StopNothing(t)
           /\ Fft!StopTimeout(t) <=> FftP!StopTimeout(t)
  BY DEF Fft!WakeAndSpawn, FftP!WakeAndSpawn, Fft!StopRunning, FftP!StopRunning,
     Fft!StopNothing, FftP!StopNothing, Fft!StopTimeout, FftP!StopTimeout,
     Fft!BeginStop, FftP!BeginStop, Fft!Spawn, FftP!Spawn, Fft!SpawnRuns, FftP!SpawnRuns,
     Fft!SpawnErrors, FftP!SpawnErrors, Fft!SpawnThrows, FftP!SpawnThrows,
     Fft!Killed, FftP!Killed, Fft!Waiting, FftP!Waiting, Fft!StampStop, FftP!StampStop,
     Fft!ResumeStop, FftP!ResumeStop, Fft!StopTail, FftP!StopTail,
     Fft!stream, Fft!calls, Fft!procs, FftP!stream, FftP!calls, FftP!procs

LEMMA SameEvents ==
    /\ \A p : /\ Fft!EscalationTimer(p) <=> FftP!EscalationTimer(p)
              /\ Fft!ProcExit(p) <=> FftP!ProcExit(p)
              /\ Fft!ProcClose(p) <=> FftP!ProcClose(p)
              /\ Fft!Frame(p) <=> FftP!Frame(p)
    /\ Fft!Tick <=> FftP!Tick
  BY DEF Fft!EscalationTimer, FftP!EscalationTimer, Fft!ProcExit, FftP!ProcExit,
     Fft!ProcClose, FftP!ProcClose, Fft!Frame, FftP!Frame, Fft!Tick, FftP!Tick,
     Fft!Killed, FftP!Killed, Fft!StampStop, FftP!StampStop,
     Fft!ResumeStop, FftP!ResumeStop, Fft!StopTail, FftP!StopTail,
     Fft!stream, Fft!calls, Fft!procs, FftP!stream, FftP!calls, FftP!procs

LEMMA SameNext == Fft!Next <=> FftP!Next
  BY SameStart, SameCalls, SameEvents DEF Fft!Next, FftP!Next

----------------------------------------------------------------------------
(* The inductive invariant.                                                *)

LoopType ==
    /\ sched \in SchedLocations
    /\ queue \in Seq(Passes)
    /\ scanWait \in BOOLEAN

StateType ==
    /\ status \in Statuses
    /\ currentPass \in Passes \cup {None}
    /\ upcomingPasses \in SUBSET Passes
    /\ scanningFrequency \in Freqs \cup {None}

ScannerType ==
    /\ scan \in ScanLocations
    /\ scanIndex \in 1..Len(ScanFreqs)
    /\ shouldStop \in BOOLEAN
    /\ groundSstvScanEnabled \in BOOLEAN

WebType ==
    /\ fftSubscribers \subseteq Clients
    /\ pendingFFTStart \in Freqs \cup {None}
    /\ pendingFFTStop \in BOOLEAN

(* The loop works on the head of the batch from the wait to the end of the *)
(* capture, and that is the current pass while it is captured.             *)
LoopInv ==
    /\ sched # "between" => queue # <<>>
    /\ currentPass = IF sched \in {"verifying", "recording", "decoding"}
                     THEN Head(queue) ELSE None

(* A scan that is still running when its wait is over, or another wait has *)
(* begun, is recording or decoding, and is asked to stop.                  *)
LeftOverScan ==
    IsSstvScannerRunning =>
        \/ sched = "waiting" /\ scanWait
        \/ shouldStop /\ scan \in {"recording", "decoding"}

IInv ==
    /\ LoopType
    /\ StateType
    /\ ScannerType
    /\ WebType
    /\ LoopInv
    /\ LeftOverScan
    /\ FftP!IInv

LEMMA InitIInv == Init => IInv
  <1> SUFFICES ASSUME Init PROVE IInv
    OBVIOUS
  <1>1. FftP!IInv
    BY FftP!InitIInv, SameInit, StreamAssumption DEF Init
  <1>2. scanWait \in BOOLEAN /\ shouldStop \in BOOLEAN /\ groundSstvScanEnabled \in BOOLEAN
        /\ pendingFFTStop \in BOOLEAN
    BY DEF Init
  <1>3. LoopType /\ WebType /\ LoopInv
    BY <1>2 DEF Init, LoopType, WebType, LoopInv, SchedLocations
  <1>4. StateType
    BY DEF Init, StateType, Statuses
  <1>5. ScannerType
    BY <1>2, ScanFreqsAssumption DEF Init, ScannerType, ScanLocations
  <1>6. LeftOverScan
    BY DEF Init, LeftOverScan, IsSstvScannerRunning
  <1> QED BY <1>1, <1>3, <1>4, <1>5, <1>6 DEF IInv

(* Every step of the station is one operation of the stream, or leaves it  *)
(* alone.                                                                  *)
LEMMA StepOfTheStream ==
    ASSUME WebType, [Next]_vars
    PROVE  [Fft!Next]_(Fft!vars)
  <1> SUFFICES Fft!Next \/ UNCHANGED fft
    BY SameVars
  <1>0. {"scheduler", "scanner", "listener"} \subseteq Callers /\ WebCallers \subseteq Callers
    BY DEF Callers
  <1>1. ASSUME NEW pass, StartPass(pass) PROVE Fft!Next \/ UNCHANGED fft
    BY <1>0, <1>1 DEF StartPass, Fft!Next
  <1>2. CASE Scheduler
    <2>1. CASE WaitOver
      BY <2>1, <1>0, <1>1 DEF WaitOver, Fft!Next
    <2>2. CASE BeginCapture
      BY <2>2, <1>1 DEF BeginCapture
    <2> QED BY <1>2, <2>1, <2>2
      DEF Scheduler, PredictPasses, NothingToSchedule, SkipPastPass, WaitForPass,
          WaitAndScan, StopScannerBeforePass, FftStoppedForPass, SignalVerified,
          SignalTooWeak, RecordingDone, CaptureEnds, PassEnds
  <1>3. CASE Scanner
    BY <1>3, <1>0 DEF Scanner, ScanDetects, ScanFftStopped, ScanRecords, ScanRecorded,
       ScanNextFrequency, ScanEnds, ToggleGroundScan, Fft!Next
  <1>4. CASE Server
    <2>1. ASSUME NEW w \in WebCallers, StartTimer(w) PROVE Fft!Next
      <3> pendingFFTStart \in Freqs
        BY <2>1 DEF StartTimer, WebType
      <3> QED BY <1>0, <2>1 DEF StartTimer, Fft!Next
    <2>2. ASSUME NEW w \in WebCallers, StopTimer(w) PROVE Fft!Next \/ UNCHANGED fft
      BY <1>0, <2>2 DEF StopTimer, Fft!Next
    <2>3. ASSUME NEW w \in WebCallers, ApiStop(w) PROVE Fft!Next
      BY <1>0, <2>3 DEF ApiStop, Fft!Next
    <2>4. ASSUME NEW w \in WebCallers, NEW f \in Freqs, ApiStart(w, f) PROVE Fft!Next
      BY <1>0, <2>4 DEF ApiStart, Fft!Next
    <2> QED BY <1>4, <2>1, <2>2, <2>3, <2>4
      DEF Server, Subscribe, Unsubscribe, Disconnect, SetFrequency, GainChanged
  <1>5. CASE Stream
    BY <1>5 DEF Stream, FftWake, FftTimeout, FftEscalation, FftExit, FftClose, FftFrame,
       FftTick, Fft!Next
  <1>6. CASE UNCHANGED vars
    BY <1>6 DEF vars
  <1> QED BY <1>2, <1>3, <1>4, <1>5, <1>6 DEF Next

(* The capture loop's steps.                                               *)
LEMMA SchedulerPreserves ==
    ASSUME IInv, Scheduler
    PROVE  LoopType' /\ StateType' /\ ScannerType' /\ WebType' /\ LoopInv'
  <1> USE DEF IInv, LoopType, StateType, ScannerType, WebType, LoopInv, SchedLocations,
              ScanLocations, Statuses
  <1>1. CASE PredictPasses
    BY <1>1, BatchAssumption DEF PredictPasses, UpdatePasses, scanner, web
  <1>2. CASE NothingToSchedule
    BY <1>2 DEF NothingToSchedule, SetStatus, UpdatePasses, loop, scanner, web
  <1>3. CASE SkipPastPass
    BY <1>3 DEF SkipPastPass, SetStatus, scanner, web
  <1>4. CASE WaitForPass
    BY <1>4 DEF WaitForPass, SetStatus, scanner, web
  <1>5. CASE WaitAndScan
    <2>1. scanWait' \in BOOLEAN /\ shouldStop' \in BOOLEAN
      BY <1>5 DEF WaitAndScan, BeginScan
    <2> QED BY <1>5, <2>1, ScanFreqsAssumption DEF WaitAndScan, BeginScan, SetScanningFrequency
  <1>6. CASE StopScannerBeforePass
    BY <1>6 DEF StopScannerBeforePass, loop, state, web
  <1>7. CASE WaitOver
    BY <1>7 DEF WaitOver, StartPass, state, web
  <1>8. CASE FftStoppedForPass
    BY <1>8 DEF FftStoppedForPass, state, scanner, web
  <1>9. CASE BeginCapture
    BY <1>9 DEF BeginCapture, StartPass, scanner, web
  <1>10. CASE SignalVerified
    BY <1>10 DEF SignalVerified, state, scanner, web
  <1>11. CASE RecordingDone
    BY <1>11 DEF RecordingDone, SetStatus, scanner, web
  <1>12. CASE SignalTooWeak \/ CaptureEnds
    <2>1. queue # <<>> /\ PassEnds
      BY <1>12 DEF SignalTooWeak, CaptureEnds
    <2> QED BY <2>1 DEF PassEnds, CompletePass, scanner, web
  <1> QED BY <1>1, <1>2, <1>3, <1>4, <1>5, <1>6, <1>7, <1>8, <1>9, <1>10, <1>11, <1>12
    DEF Scheduler

(* The ground scanner's steps.                                             *)
LEMMA ScannerPreserves ==
    ASSUME IInv, Scanner
    PROVE  LoopType' /\ StateType' /\ ScannerType' /\ WebType' /\ LoopInv'
  <1> USE DEF IInv, LoopType, StateType, ScannerType, WebType, LoopInv,
              ScanLocations, Statuses
  <1>1. CASE ScanDetects \/ ScanFftStopped
    BY <1>1 DEF ScanDetects, ScanFftStopped, loop, state, web
  <1>2. CASE ScanRecords \/ ScanRecorded \/ ScanEnds
    BY <1>2 DEF ScanRecords, ScanRecorded, ScanEnds, SetStatus, loop, web
  <1>3. CASE ScanNextFrequency
    <2>1. (scanIndex % Len(ScanFreqs)) + 1 \in 1..Len(ScanFreqs)
      BY ScanFreqsAssumption
    <2> QED BY <1>3, <2>1, ScanFreqsAssumption
      DEF ScanNextFrequency, SetScanningFrequency, loop
  <1>4. CASE ToggleGroundScan
    BY <1>4 DEF ToggleGroundScan, SetGroundSstvScanEnabled, loop, state, web
  <1> QED BY <1>1, <1>2, <1>3, <1>4 DEF Scanner

(* The web server's steps.                                                 *)
LEMMA ServerPreserves ==
    ASSUME IInv, Server
    PROVE  LoopType' /\ StateType' /\ ScannerType' /\ WebType' /\ LoopInv'
  <1>1. Fft!TypeOK
    BY SameType DEF IInv, FftP!IInv
  <1>2. UNCHANGED <<loop, state, scanner>>
    BY DEF Server, Subscribe, Unsubscribe, Disconnect, SetFrequency, GainChanged,
       StartTimer, StopTimer, ApiStop, ApiStart
  <1>3. LoopType' /\ StateType' /\ ScannerType' /\ LoopInv'
    BY <1>2 DEF IInv, LoopType, StateType, ScannerType, LoopInv, loop, state, scanner
  <1>4. WebType'
    BY <1>1 DEF Server, Subscribe, Unsubscribe, Disconnect, SetFrequency, GainChanged,
       StartTimer, StopTimer, ApiStop, ApiStart, IInv, StateType, WebType, web, Fft!TypeOK
  <1> QED BY <1>3, <1>4

(* A scan begins in the wait that starts it; that wait ends only when the  *)
(* scanner has heard of it, and the flag is reset only by another scan.    *)
LEMMA LeftOverPreserved ==
    ASSUME IInv, [Next]_vars
    PROVE  LeftOverScan'
  <1> USE DEF IInv, LeftOverScan, IsSstvScannerRunning
  <1>1. CASE Scheduler
    BY <1>1
    DEF Scheduler, PredictPasses, NothingToSchedule, SkipPastPass, WaitForPass,
        WaitAndScan, StopScannerBeforePass, WaitOver, FftStoppedForPass, BeginCapture,
        SignalVerified, SignalTooWeak, RecordingDone, CaptureEnds, PassEnds, loop, scanner
  <1>2. CASE Scanner
    BY <1>2 DEF Scanner, ScanDetects, ScanFftStopped, ScanRecords, ScanRecorded,
       ScanNextFrequency, ScanEnds, ToggleGroundScan, SetGroundSstvScanEnabled, loop
  <1>3. CASE UNCHANGED <<loop, scanner>>
    BY <1>3 DEF loop, scanner
  <1>4. Server \/ Stream \/ UNCHANGED vars => UNCHANGED <<loop, scanner>>
    BY DEF Server, Subscribe, Unsubscribe, Disconnect, SetFrequency, GainChanged,
       StartTimer, StopTimer, ApiStop, ApiStart, Stream, FftWake, FftTimeout,
       FftEscalation, FftExit, FftClose, FftFrame, FftTick, Alone, vars
  <1> QED BY <1>1, <1>2, <1>3, <1>4 DEF Next

LEMMA NextIInv == IInv /\ [Next]_vars => IInv'
  <1> SUFFICES ASSUME IInv, [Next]_vars PROVE IInv'
    OBVIOUS
  <1>1. FftP!IInv'
    <2>1. [Fft!Next]_(Fft!vars)
      BY StepOfTheStream DEF IInv
    <2>2. [FftP!Next]_(FftP!vars)
      BY <2>1, SameNext, SameVars
    <2> QED BY <2>2, FftP!NextIInv, StreamAssumption DEF IInv
  <1>2. LoopType' /\ StateType' /\ ScannerType' /\ WebType' /\ LoopInv'
    <2>1. CASE UNCHANGED <<loop, state, scanner, web>>
      BY <2>1 DEF IInv, LoopType, StateType, ScannerType, WebType, LoopInv,
         loop, state, scanner, web
    <2>2. Stream \/ UNCHANGED vars => UNCHANGED <<loop, state, scanner, web>>
      BY DEF Stream, FftWake, FftTimeout, FftEscalation, FftExit, FftClose, FftFrame,
         FftTick, Alone, vars
    <2> QED BY <2>1, <2>2, SchedulerPreserves, ScannerPreserves, ServerPreserves DEF Next
  <1> QED BY <1>1, <1>2, LeftOverPreserved DEF IInv

THEOREM Invariance == Spec => []IInv
  BY InitIInv, NextIInv, PTL DEF Spec

(* Type correctness of the station, its FFT stream included.               *)
THEOREM StationTypeCorrect == Spec => []TypeOK
  <1>1. IInv => TypeOK
    BY SameType DEF IInv, TypeOK, LoopType, StateType, ScannerType, WebType, FftP!IInv
  <1> QED BY <1>1, Invariance, PTL

(* The station implements the FFT stream: whatever the loop, the scanner   *)
(* and the web server do, they call startFFTStream and stopFFTStream only  *)
(* as FftStream's callers may, so what FftStreamProof shows for any set of *)
(* callers holds for the station.                                          *)
THEOREM StationImplementsStream == Spec => Fft!Spec
  <1>1. Init => Fft!Init
    BY DEF Init
  <1>2. IInv /\ [Next]_vars => [Fft!Next]_(Fft!vars)
    BY StepOfTheStream DEF IInv
  <1> QED BY <1>1, <1>2, Invariance, PTL DEF Spec, Fft!Spec

(* isFFTStreamRunning(), which the capture loop and the web handlers rely  *)
(* on, never lies in the station.                                          *)
THEOREM StreamStatusIsTruthful == Spec => []Fft!StatusTruthful
  <1>1. IInv => FftP!HeldProcess /\ FftP!RunningConfigured
    BY DEF IInv, FftP!IInv
  <1>2. IInv => Fft!StatusTruthful
    BY <1>1 DEF Fft!StatusTruthful, Fft!IsFFTStreamRunning, FftP!HeldProcess,
       FftP!RunningConfigured
  <1> QED BY <1>2, Invariance, PTL

----------------------------------------------------------------------------
(* While a pass is captured the status says so, unless the ground scanner  *)
(* writes it: the loop's own steps that leave the capture statuses are     *)
(* taken without a current pass or clear it.                               *)
THEOREM StatusDoesShowCapture == Spec => StatusShowsCapture
  <1> DEFINE Kept ==
        currentPass' # None /\ ~ InCapture(status') =>
            IsSstvScannerRunning \/ (currentPass # None /\ ~ InCapture(status))
  <1>1. ASSUME IInv, [Next]_vars PROVE [Kept]_vars
    <2>1. CASE Scheduler
      BY <1>1, <2>1
      DEF Scheduler, PredictPasses, NothingToSchedule, SkipPastPass, WaitForPass,
          WaitAndScan, StopScannerBeforePass, WaitOver, FftStoppedForPass, BeginCapture,
          SignalVerified, SignalTooWeak, RecordingDone, CaptureEnds, PassEnds,
          CompletePass, StartPass, BeginScan, SetStatus, InCapture, IInv, LoopInv, state
    <2>2. CASE Scanner
      BY <2>2 DEF Scanner, ScanDetects, ScanFftStopped, ScanRecords, ScanRecorded,
         ScanNextFrequency, ScanEnds, ToggleGroundScan, IsSstvScannerRunning, state
    <2>3. CASE UNCHANGED state
      BY <2>3 DEF state
    <2>4. Server \/ Stream \/ UNCHANGED vars => UNCHANGED state
      BY DEF Server, Subscribe, Unsubscribe, Disconnect, SetFrequency, GainChanged,
         StartTimer, StopTimer, ApiStop, ApiStart, Stream, FftWake, FftTimeout,
         FftEscalation, FftExit, FftClose, FftFrame, FftTick, Alone, vars
    <2> QED BY <1>1, <2>1, <2>2, <2>3, <2>4 DEF Next
  <1> QED BY <1>1, Invariance, PTL DEF Spec, StatusShowsCapture

(* The scanner gives way to a pass.  Outside the wait that began the scan  *)
(* it runs only to finish a recording, and is asked to stop.               *)
THEOREM ScannerDoesYield == Spec => []ScannerYields
  <1>1. IInv => ScannerYields
    BY DEF IInv, LeftOverScan, ScannerYields
  <1> QED BY <1>1, Invariance, PTL
=============================================================================
