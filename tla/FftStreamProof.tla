--------------------------- MODULE FftStreamProof ---------------------------
(***************************************************************************)
(* Proofs about FftStream, for any set of callers, frequencies and          *)
(* processes and any set of outside faults.                                *)
(***************************************************************************)
EXTENDS FftStream, TLAPS

(* The process the module holds has not closed and was sent no signal.     *)
HeldProcess ==
    sdrProcess # None => procState[sdrProcess] # "unused" /\ ~ Killed(sdrProcess)

(* What isRunning means by itself, and together with sdrProcess.           *)
RunningConfigured ==
    /\ isRunning => /\ currentConfig # None
                    /\ currentCallback # None
                    /\ fftProcessor
    /\ isRunning /\ sdrProcess # None => tuned[sdrProcess] = currentConfig

(* A suspended start knows its frequency; a suspended stop, and nobody     *)
(* else, waits for a process that has not closed.                          *)
SuspendedCalls ==
    \A t \in Callers :
        /\ pc[t] \in {"restarting", "sleeping"} => want[t] \in Freqs
        /\ Waiting(t) => waitOn[t] \in Procs /\ procState[waitOn[t]] # "unused"
        /\ ~ Waiting(t) => waitOn[t] = None

IInv ==
    /\ TypeOK
    /\ HeldProcess
    /\ RunningConfigured
    /\ LockHeldByAStart
    /\ SuspendedCalls
    /\ StopOwnsItsProcess


(* The invariant holds initially: no call, no process.                     *)
LEMMA InitIInv == Init => IInv
  <1> SUFFICES ASSUME Init PROVE IInv
    OBVIOUS
  <1>1. isRunning \in BOOLEAN /\ isStarting \in BOOLEAN /\ fftProcessor \in BOOLEAN
    BY DEF Init
  <1> QED BY <1>1, NoneAssumption
  DEF Init, IInv, TypeOK, HeldProcess, RunningConfigured, LockHeldByAStart,
      SuspendedCalls, StopOwnsItsProcess, StopAges, Locations, ProcStates, Signals,
      Waiting, Killed

(* The end of startFFTStream, reached with or without an await: spawning   *)
(* preserves the invariant when the calling chain is idle afterwards.      *)
LEMMA SpawnPreserves ==
    ASSUME IInv,
           NEW t \in Callers, NEW f \in Freqs,
           NEW callback \in Callers \cup {None}, NEW config \in Freqs \cup {None},
           Spawn(t, f, callback, config),
           pc[t] \in {"idle", "sleeping"},
           pc' = [pc EXCEPT ![t] = "idle"],
           want' \in [Callers -> Freqs \cup {None}],
           \A s \in Callers \ {t} : want'[s] = want[s],
           restamped' \in [Callers -> BOOLEAN],
           waitOn' = waitOn,
           latestData' \in Freqs \cup {None},
           averagingCount' \in 0..2
    PROVE  IInv'
  <1> USE NoneAssumption
      DEF IInv, TypeOK, HeldProcess, RunningConfigured, LockHeldByAStart,
          SuspendedCalls, StopOwnsItsProcess, StopAges, Locations, ProcStates,
          Signals, Waiting, Killed
  <1>1. CASE SpawnRuns(t, f)
    <2> PICK p \in Procs : SpawnRuns(t, f)!(p)
      BY <1>1 DEF SpawnRuns
    <2> \A s \in Callers : waitOn[s] # p
      OBVIOUS
    <2> QED BY DEF Spawn
  <1>2. CASE SpawnErrors(t, f)
    <2> PICK p \in Procs : SpawnErrors(t, f)!(p)
      BY <1>2 DEF SpawnErrors
    <2> \A s \in Callers : waitOn[s] # p
      OBVIOUS
    <2> QED BY DEF Spawn
  <1>3. CASE SpawnThrows(callback, config)
    BY <1>3 DEF Spawn, SpawnThrows, procs
  <1> QED BY <1>1, <1>2, <1>3 DEF Spawn

(* startFFTStream up to its first await preserves the invariant, whatever  *)
(* other calls are suspended.                                              *)
LEMMA StartPreserves ==
    ASSUME IInv, NEW t \in Callers, NEW f \in Freqs, StartFFTStream(t, f)
    PROVE  IInv'
  <1> USE NoneAssumption
      DEF IInv, TypeOK, HeldProcess, RunningConfigured, LockHeldByAStart,
          SuspendedCalls, StopOwnsItsProcess, StopAges, Locations, ProcStates,
          Signals, Waiting, Killed
  <1>1. CASE StartRefused(t, f)
    BY <1>1 DEF StartRefused, vars, stream, calls, procs
  <1>2. CASE StartSameFrequency(t, f)
    BY <1>2 DEF StartSameFrequency, calls, procs
  <1>3. CASE StartStopped(t, f)
    <2>1. CASE SleepForUsb(t, f, currentCallback, currentConfig)
               /\ UNCHANGED <<isRunning, fftProcessor>>
      BY <1>3, <2>1 DEF StartStopped, SleepForUsb, procs
    <2>2. CASE Spawn(t, f, currentCallback, currentConfig) /\ UNCHANGED calls
      BY <1>3, <2>2, SpawnPreserves DEF StartStopped, calls
    <2> QED BY <1>3, <2>1, <2>2 DEF StartStopped
  <1>4. CASE StartRetune(t, f)
    BY <1>4 DEF StartRetune, BeginStop
  <1>5. CASE StartDuringStop(t, f)
    <2>1. CASE SleepForUsb(t, f, None, None) /\ isRunning' = FALSE /\ fftProcessor' = FALSE
      <3>1. isRunning' \in BOOLEAN /\ fftProcessor' \in BOOLEAN
        BY <2>1
      <3> QED BY <1>5, <2>1, <3>1 DEF StartDuringStop, SleepForUsb, procs
    <2>2. CASE Spawn(t, f, None, None) /\ UNCHANGED calls
      BY <1>5, <2>2, SpawnPreserves DEF StartDuringStop, calls
    <2> QED BY <1>5, <2>1, <2>2 DEF StartDuringStop
  <1> QED BY <1>1, <1>2, <1>3, <1>4, <1>5 DEF StartFFTStream

(* The sleep of startFFTStream ends.                                       *)
LEMMA WakePreserves ==
    ASSUME IInv, NEW t \in Callers, WakeAndSpawn(t)
    PROVE  IInv'
  <1> want[t] \in Freqs
    BY DEF IInv, SuspendedCalls, WakeAndSpawn
  <1> QED BY SpawnPreserves, NoneAssumption DEF IInv, TypeOK, WakeAndSpawn

(* The await of stopFFTStream ends: what an exit, a close or the timeout   *)
(* does to the calls when it resumes the stop in t.                        *)
LEMMA ResumePreserves ==
    ASSUME IInv, NEW t \in Callers, Waiting(t),
           StampStop, ResumeStop(t),
           sdrProcess' \in {sdrProcess, None},
           isStarting' \in {isStarting, FALSE},
           procState' \in [Procs -> ProcStates],
           tuned' \in [Procs -> Freqs \cup {None}],
           signal' \in [Procs -> Signals],
           sdrProcess' # None => procState'[sdrProcess] # "unused" /\ signal'[sdrProcess] = "none",
           \A p \in Procs : p # waitOn[t] /\ procState[p] # "unused" => procState'[p] # "unused"
    PROVE  IInv'
  <1> USE NoneAssumption
      DEF IInv, TypeOK, HeldProcess, RunningConfigured, LockHeldByAStart,
          SuspendedCalls, StopOwnsItsProcess, StopAges, Locations, ProcStates,
          Signals, Waiting, Killed, StampStop, ResumeStop, StopTail
  <1>1. TypeOK'
    <2>1. isRunning' \in BOOLEAN /\ fftProcessor' \in BOOLEAN
      OBVIOUS
    <2>2. isStarting' \in BOOLEAN
      OBVIOUS
    <2> QED BY <2>1, <2>2
  <1>2. HeldProcess' /\ RunningConfigured'
    OBVIOUS
  <1>3. LockHeldByAStart'
    OBVIOUS
  <1>4. SuspendedCalls' /\ StopOwnsItsProcess'
    OBVIOUS
  <1> QED BY <1>1, <1>2, <1>3, <1>4

(* stopFFTStream, its timers, and the events of the child processes.       *)
LEMMA StopPreserves ==
    ASSUME IInv, NEW t \in Callers, StopRunning(t) \/ StopNothing(t) \/ StopTimeout(t)
    PROVE  IInv'
  <1> USE NoneAssumption
      DEF IInv, TypeOK, HeldProcess, RunningConfigured, LockHeldByAStart,
          SuspendedCalls, StopOwnsItsProcess, StopAges, Locations, ProcStates,
          Signals, Waiting, Killed
  <1>1. CASE StopRunning(t)
    BY <1>1 DEF StopRunning, BeginStop
  <1>2. CASE StopNothing(t)
    <2>1. isRunning' \in BOOLEAN /\ fftProcessor' \in BOOLEAN
      BY <1>2 DEF StopNothing, StopTail
    <2> QED BY <1>2, <2>1 DEF StopNothing, StopTail, calls, procs
  <1>3. CASE StopTimeout(t)
    BY <1>3, ResumePreserves DEF StopTimeout, procs
  <1> QED BY <1>1, <1>2, <1>3

LEMMA ProcPreserves ==
    ASSUME IInv, NEW p \in Procs,
           EscalationTimer(p) \/ ProcExit(p) \/ ProcClose(p) \/ Frame(p)
    PROVE  IInv'
  <1> USE NoneAssumption
      DEF IInv, TypeOK, HeldProcess, RunningConfigured, LockHeldByAStart,
          SuspendedCalls, StopOwnsItsProcess, StopAges, Locations, ProcStates,
          Signals, Waiting, Killed
  <1>1. CASE EscalationTimer(p)
    BY <1>1 DEF EscalationTimer, stream, calls
  <1>2. CASE ProcExit(p)
    <2>1. CASE UNCHANGED <<stream, calls>>
      BY <1>2, <2>1 DEF ProcExit, stream, calls
    <2>2. ASSUME NEW t \in Callers, waitOn[t] = p, StampStop, ResumeStop(t),
                 UNCHANGED <<sdrProcess, isStarting>>
          PROVE  IInv'
      BY <1>2, <2>2, ResumePreserves DEF ProcExit
    <2> QED BY <1>2, <2>1, <2>2 DEF ProcExit
  <1>3. CASE ProcClose(p)
    <2>1. CASE \A t \in Callers : waitOn[t] # p
      <3>1. isRunning' \in BOOLEAN /\ isStarting' \in BOOLEAN
        BY <1>3, <2>1 DEF ProcClose, ResumeStop, StopTail
      <3> QED BY <1>3, <2>1, <3>1 DEF ProcClose, StampStop
    <2>2. ASSUME NEW t \in Callers, waitOn[t] = p, ResumeStop(t)
          PROVE  IInv'
      BY <1>3, <2>2, ResumePreserves DEF ProcClose
    <2> QED BY <1>3, <2>1, <2>2 DEF ProcClose
  <1>4. CASE Frame(p)
    BY <1>4 DEF Frame, calls, procs
  <1> QED BY <1>1, <1>2, <1>3, <1>4

(* The invariant is inductive.                                             *)
LEMMA NextIInv == IInv /\ [Next]_vars => IInv'
  <1> SUFFICES ASSUME IInv, [Next]_vars PROVE IInv'
    OBVIOUS
  <1>1. CASE \E t \in Callers, f \in Freqs : StartFFTStream(t, f)
    BY <1>1, StartPreserves
  <1>2. CASE \E t \in Callers : WakeAndSpawn(t)
    BY <1>2, WakePreserves
  <1>3. CASE \E t \in Callers : StopRunning(t) \/ StopNothing(t) \/ StopTimeout(t)
    BY <1>3, StopPreserves
  <1>4. CASE \E p \in Procs : EscalationTimer(p) \/ ProcExit(p) \/ ProcClose(p) \/ Frame(p)
    BY <1>4, ProcPreserves
  <1>5. CASE Tick
    BY <1>5
    DEF Tick, calls, procs, IInv, TypeOK, HeldProcess, RunningConfigured, LockHeldByAStart,
        SuspendedCalls, StopOwnsItsProcess, StopAges, Waiting, Killed
  <1>6. CASE UNCHANGED vars
    BY <1>6
    DEF vars, stream, calls, procs, IInv, TypeOK, HeldProcess, RunningConfigured,
        LockHeldByAStart, SuspendedCalls, StopOwnsItsProcess, Waiting, Killed
  <1> QED BY <1>1, <1>2, <1>3, <1>4, <1>5, <1>6 DEF Next

(* The inductive invariant holds in every reachable state.                 *)
THEOREM Invariance == Spec => []IInv
  BY InitIInv, NextIInv, PTL DEF Spec

(* Type correctness.                                                       *)
THEOREM TypeCorrect == Spec => []TypeOK
  <1> IInv => TypeOK BY DEF IInv
  <1> QED BY Invariance, PTL

(* isFFTStreamRunning() tells the truth about the current process, however *)
(* many callers race.                                                      *)
THEOREM StatusIsTruthful == Spec => []StatusTruthful
  <1> IInv => StatusTruthful
    BY DEF IInv, HeldProcess, RunningConfigured, StatusTruthful, IsFFTStreamRunning
  <1> QED BY Invariance, PTL

(* The isStarting flag never outlives the starts that could clear it.      *)
THEOREM LockIsHeldByAStart == Spec => []LockHeldByAStart
  <1> IInv => LockHeldByAStart BY DEF IInv
  <1> QED BY Invariance, PTL

(* Each suspended stop has a process of its own.                           *)
THEOREM StopsOwnTheirProcesses == Spec => []StopOwnsItsProcess
  <1> IInv => StopOwnsItsProcess BY DEF IInv
  <1> QED BY Invariance, PTL

----------------------------------------------------------------------------
(* One call at a time and nothing that goes wrong outside: what NoOrphan,  *)
(* RestartDelay and the refinement of SdrDevice assume.                    *)
Serial == (\A s, t \in Callers : s = t) /\ Faults = {}

WaitedFor(p) == \E t \in Callers : Waiting(t) /\ waitOn[t] = p

(* At most one process exists.  One that runs is held, or is being         *)
(* stopped; one that has exited is held, or is being stopped, or its stop  *)
(* resumed just now.                                                       *)
OneProcessExists ==
    /\ \A p, q \in Procs : procState[p] # "unused" /\ procState[q] # "unused" => p = q
    /\ \A p \in Procs : procState[p] = "alive" =>
         /\ sdrProcess = p \/ (WaitedFor(p) /\ Killed(p))
         /\ tuned[p] \in Freqs
    /\ \A p \in Procs : procState[p] = "exited" =>
         sdrProcess = p \/ WaitedFor(p) \/ lastStopTime = "fresh"

(* What the call finds, or leaves behind, and that lastStopTime is not     *)
(* renewed while a start sleeps.                                           *)
CallInOrder ==
    \A t \in Callers :
        /\ pc[t] = "idle" => (isRunning <=> sdrProcess # None)
        /\ pc[t] # "idle" => sdrProcess = None
        /\ pc[t] = "sleeping" => ~ isRunning
        /\ ~ restamped[t]

SInv == IInv /\ OneProcessExists /\ CallInOrder

LEMMA InitSInv == Init => SInv
  <1> SUFFICES ASSUME Init PROVE SInv
    OBVIOUS
  <1>1. OneProcessExists
    BY DEF Init, OneProcessExists
  <1>2. CallInOrder
    BY DEF Init, CallInOrder
  <1> QED BY <1>1, <1>2, InitIInv DEF SInv

(* The only step that starts a process: nothing fails, and no process      *)
(* exists before.                                                          *)
LEMMA SerialSpawn ==
    ASSUME Serial, SInv, NEW t \in Callers, NEW f \in Freqs, NEW callback, NEW config,
           Spawn(t, f, callback, config),
           pc[t] \in {"idle", "sleeping"}, ~ isRunning, ~ Recent(lastStopTime),
           pc' = [pc EXCEPT ![t] = "idle"],
           restamped' \in {restamped, [restamped EXCEPT ![t] = FALSE]}
    PROVE  /\ SpawnRuns(t, f)
           /\ \A p \in Procs : procState[p] = "unused"
           /\ OneProcessExists' /\ CallInOrder'
  <1> USE DEF SInv, IInv, TypeOK
  <1>1. SpawnRuns(t, f) /\ lastStopTime' = lastStopTime
    BY DEF Serial, Spawn, SpawnErrors, SpawnThrows
  <1>2. PICK p \in Procs : SpawnRuns(t, f)!(p)
    BY <1>1 DEF SpawnRuns
  <1>3. \A s \in Callers : s = t
    BY DEF Serial
  <1>4. sdrProcess = None /\ \A q \in Procs : ~ WaitedFor(q)
    BY <1>3 DEF CallInOrder, WaitedFor, Waiting
  <1>5. \A q \in Procs : procState[q] = "unused"
    BY <1>4, NoneAssumption DEF OneProcessExists, ProcStates, Recent
  <1>6. /\ procState'[p] = "alive" /\ tuned'[p] = f /\ sdrProcess' = p
        /\ \A q \in Procs \ {p} : procState'[q] = "unused"
    BY <1>2, <1>5
  <1>7. OneProcessExists'
    BY <1>6 DEF OneProcessExists
  <1>8. CallInOrder'
    <2>1. isRunning' /\ sdrProcess' # None
      BY <1>2, NoneAssumption
    <2>2. pc'[t] = "idle"
      OBVIOUS
    <2>3. ~ restamped'[t]
      BY DEF CallInOrder
    <2> QED BY <1>3, <2>1, <2>2, <2>3 DEF CallInOrder
  <1> QED BY <1>1, <1>5, <1>7, <1>8

(* The part of a stop before its await.                                    *)
LEMMA SerialBeginStop ==
    ASSUME Serial, SInv, NEW t \in Callers, NEW loc \in {"stopping", "restarting"},
           pc[t] = "idle", BeginStop(t, loc),
           UNCHANGED <<procState, tuned, lastStopTime, isRunning>>,
           restamped' \in {restamped, [restamped EXCEPT ![t] = FALSE]}
    PROVE  OneProcessExists' /\ CallInOrder'
  <1> USE DEF SInv, IInv, TypeOK
  <1>0. \A s \in Callers : s = t
    BY DEF Serial
  <1>1. PICK p \in Procs : sdrProcess = p
    BY DEF BeginStop
  <1>2. /\ sdrProcess' = None
        /\ pc' = [pc EXCEPT ![t] = loc]
        /\ waitOn' = [waitOn EXCEPT ![t] = p]
        /\ procState[p] = "alive" => signal'[p] = "term"
    BY <1>1 DEF BeginStop
  <1>3. WaitedFor(p)'
    BY <1>2 DEF WaitedFor, Waiting
  <1>4. \A q : ~ WaitedFor(q)
    BY <1>0 DEF WaitedFor, Waiting
  <1>5. procState[p] = "alive" => Killed(p)'
    BY <1>2 DEF Killed
  <1>6. OneProcessExists'
    BY <1>1, <1>3, <1>4, <1>5 DEF OneProcessExists
  <1>7. CallInOrder'
    BY <1>0, <1>2 DEF CallInOrder
  <1> QED BY <1>6, <1>7

LEMMA SerialStart ==
    ASSUME Serial, SInv, NEW t \in Callers, NEW f \in Freqs, StartFFTStream(t, f)
    PROVE  OneProcessExists' /\ CallInOrder'
  <1> USE DEF SInv, IInv, TypeOK
  <1>0. \A s \in Callers : s = t
    BY DEF Serial
  <1>1. CASE StartRefused(t, f)
    BY <1>1 DEF StartRefused, vars, stream, calls, procs, OneProcessExists, CallInOrder,
                WaitedFor, Waiting, Killed
  <1>2. CASE StartSameFrequency(t, f)
    BY <1>2 DEF StartSameFrequency, calls, procs, OneProcessExists, CallInOrder,
                WaitedFor, Waiting, Killed
  <1>3. CASE StartStopped(t, f)
    <2>1. CASE SleepForUsb(t, f, currentCallback, currentConfig)
               /\ UNCHANGED <<isRunning, fftProcessor>>
      <3>1. pc[t] = "idle" /\ ~ isRunning /\ sdrProcess = None
        BY <1>3 DEF StartStopped, CallInOrder
      <3>2. \A p : ~ WaitedFor(p)
        BY <1>0, <3>1 DEF WaitedFor, Waiting
      <3>3. OneProcessExists'
        BY <2>1, <3>1, <3>2, NoneAssumption DEF SleepForUsb, procs, OneProcessExists, ProcStates
      <3>4. CallInOrder'
        BY <1>0, <2>1, <3>1 DEF SleepForUsb, CallInOrder
      <3> QED BY <3>3, <3>4
    <2>2. CASE Spawn(t, f, currentCallback, currentConfig) /\ UNCHANGED calls
               /\ ~ Recent(lastStopTime)
      <3>1. /\ pc[t] = "idle" /\ ~ isRunning /\ pc' = pc /\ restamped' = restamped
            /\ pc = [pc EXCEPT ![t] = "idle"]
        BY <1>3, <2>2 DEF StartStopped, calls
      <3> QED BY <2>2, <3>1, SerialSpawn
    <2> QED BY <1>3, <2>1, <2>2 DEF StartStopped
  <1>4. CASE StartRetune(t, f)
    BY <1>4, SerialBeginStop DEF StartRetune
  <1>5. CASE StartDuringStop(t, f)
    BY <1>5 DEF StartDuringStop, CallInOrder
  <1> QED BY <1>1, <1>2, <1>3, <1>4, <1>5 DEF StartFFTStream

LEMMA SerialWake ==
    ASSUME Serial, SInv, NEW t \in Callers, WakeAndSpawn(t)
    PROVE  /\ OneProcessExists' /\ CallInOrder'
           /\ want[t] \in Freqs /\ SpawnRuns(t, want[t]) /\ ~ Recent(lastStopTime)
           /\ \A p \in Procs : procState[p] = "unused"
  <1>1. /\ pc[t] = "sleeping" /\ ~ isRunning /\ ~ restamped[t] /\ want[t] \in Freqs
    BY DEF WakeAndSpawn, SInv, IInv, CallInOrder, SuspendedCalls
  <1>2. ~ Recent(lastStopTime)
    BY <1>1 DEF WakeAndSpawn, Recent
  <1> QED BY <1>1, <1>2, SerialSpawn DEF WakeAndSpawn

LEMMA SerialStop ==
    ASSUME Serial, SInv, NEW t \in Callers, StopRunning(t) \/ StopNothing(t) \/ StopTimeout(t)
    PROVE  OneProcessExists' /\ CallInOrder'
  <1> USE DEF SInv, IInv, TypeOK
  <1>0. \A s \in Callers : s = t
    BY DEF Serial
  <1>1. CASE StopRunning(t)
    BY <1>1, SerialBeginStop DEF StopRunning
  <1>2. CASE StopNothing(t)
    <2>1. OneProcessExists'
      BY <1>2 DEF StopNothing, calls, procs, OneProcessExists, WaitedFor, Waiting, Killed
    <2>2. CallInOrder'
      BY <1>0, <1>2 DEF StopNothing, StopTail, calls, CallInOrder
    <2> QED BY <2>1, <2>2
  <1>3. CASE StopTimeout(t)
    BY <1>3 DEF StopTimeout, Serial
  <1> QED BY <1>1, <1>2, <1>3

(* An exit or a close of p while the call waits for it.                    *)
LEMMA SerialResume ==
    ASSUME Serial, SInv, NEW p \in Procs, NEW t \in Callers, waitOn[t] = p,
           procState[p] # "unused", StampStop, ResumeStop(t),
           procState' \in {[procState EXCEPT ![p] = "exited"], [procState EXCEPT ![p] = "unused"]},
           sdrProcess' \in {sdrProcess, None}
    PROVE  OneProcessExists' /\ CallInOrder'
  <1> USE DEF SInv, IInv, TypeOK
  <1>0. \A s \in Callers : s = t
    BY DEF Serial
  <1>1. Waiting(t) /\ sdrProcess = None /\ sdrProcess' = None
    BY NoneAssumption DEF SuspendedCalls, CallInOrder, Waiting, Locations
  <1>2. lastStopTime' = "fresh" /\ ~ isRunning' /\ ~ restamped'[t]
    BY <1>1 DEF StampStop, ResumeStop, StopTail, CallInOrder, Waiting
  <1>3. \A q \in Procs : procState'[q] # "alive" /\ (procState'[q] # "unused" => q = p)
    BY DEF OneProcessExists
  <1>4. OneProcessExists'
    BY <1>2, <1>3 DEF OneProcessExists
  <1>5. CallInOrder'
    BY <1>0, <1>1, <1>2 DEF CallInOrder
  <1> QED BY <1>4, <1>5

LEMMA SerialProc ==
    ASSUME Serial, SInv, NEW p \in Procs,
           EscalationTimer(p) \/ ProcExit(p) \/ ProcClose(p) \/ Frame(p)
    PROVE  OneProcessExists' /\ CallInOrder'
  <1> USE DEF SInv, IInv, TypeOK
  <1>1. CASE EscalationTimer(p)
    <2>1. /\ UNCHANGED <<stream, calls, procState, tuned>>
          /\ \A q \in Procs : Killed(q) => Killed(q)'
      BY <1>1 DEF EscalationTimer, Killed
    <2> QED BY <2>1 DEF stream, calls, OneProcessExists, CallInOrder, WaitedFor, Waiting
  <1>2. CASE ProcExit(p)
    <2>1. CASE UNCHANGED <<stream, calls>> /\ \A t \in Callers : waitOn[t] # p
      <3>1. sdrProcess = p
        BY <1>2, <2>1 DEF ProcExit, OneProcessExists, WaitedFor
      <3>2. OneProcessExists'
        BY <1>2, <2>1, <3>1 DEF ProcExit, stream, OneProcessExists
      <3>3. CallInOrder'
        BY <2>1 DEF stream, calls, CallInOrder
      <3> QED BY <3>2, <3>3
    <2>2. ASSUME NEW t \in Callers, waitOn[t] = p, StampStop, ResumeStop(t),
                 UNCHANGED <<sdrProcess, isStarting>>
          PROVE  OneProcessExists' /\ CallInOrder'
      BY <1>2, <2>2, SerialResume DEF ProcExit
    <2> QED BY <1>2, <2>1, <2>2 DEF ProcExit
  <1>3. CASE ProcClose(p)
    <2>1. CASE \A t \in Callers : waitOn[t] # p
      <3>1. /\ procState' = [procState EXCEPT ![p] = "unused"]
            /\ sdrProcess' = None /\ StampStop
            /\ isRunning' = FALSE /\ UNCHANGED <<pc, waitOn>>
        BY <1>3, <2>1 DEF ProcClose
      <3>2. \A q \in Procs : procState'[q] = "unused"
        BY <1>3, <3>1 DEF ProcClose, OneProcessExists
      <3>3. ASSUME NEW t \in Callers, pc[t] = "sleeping" PROVE lastStopTime = "fresh"
        <4>1. ~ WaitedFor(p)
          BY <2>1 DEF WaitedFor
        <4>2. sdrProcess = None
          BY <3>3 DEF CallInOrder
        <4> QED BY <1>3, <4>1, <4>2, NoneAssumption DEF ProcClose, OneProcessExists
      <3>4. OneProcessExists'
        BY <3>2 DEF OneProcessExists
      <3>5. \A t \in Callers : ~ restamped'[t]
        BY <3>1, <3>3 DEF StampStop, CallInOrder
      <3>6. CallInOrder'
        BY <3>1, <3>5 DEF CallInOrder
      <3> QED BY <3>4, <3>6
    <2>2. ASSUME NEW t \in Callers, waitOn[t] = p, ResumeStop(t)
          PROVE  OneProcessExists' /\ CallInOrder'
      BY <1>3, <2>2, SerialResume DEF ProcClose
    <2> QED BY <1>3, <2>1, <2>2 DEF ProcClose
  <1>4. CASE Frame(p)
    BY <1>4 DEF Frame, calls, procs, OneProcessExists, CallInOrder, WaitedFor, Waiting, Killed
  <1> QED BY <1>1, <1>2, <1>3, <1>4

LEMMA SerialInvariance ==
    ASSUME Serial
    PROVE  Spec => []SInv
  <1>1. SInv /\ [Next]_vars => SInv'
    <2> SUFFICES ASSUME SInv, [Next]_vars PROVE OneProcessExists' /\ CallInOrder'
      BY NextIInv DEF SInv
    <2>1. CASE \E t \in Callers, f \in Freqs : StartFFTStream(t, f)
      BY <2>1, SerialStart
    <2>2. CASE \E t \in Callers : WakeAndSpawn(t)
      BY <2>2, SerialWake
    <2>3. CASE \E t \in Callers : StopRunning(t) \/ StopNothing(t) \/ StopTimeout(t)
      BY <2>3, SerialStop
    <2>4. CASE \E p \in Procs : EscalationTimer(p) \/ ProcExit(p) \/ ProcClose(p) \/ Frame(p)
      BY <2>4, SerialProc
    <2>5. CASE Tick
      BY <2>5 DEF Tick, calls, procs, SInv, OneProcessExists, CallInOrder, WaitedFor, Waiting, Killed
    <2>6. CASE UNCHANGED vars
      BY <2>6 DEF vars, stream, calls, procs, SInv, OneProcessExists, CallInOrder,
                  WaitedFor, Waiting, Killed
    <2> QED BY <2>1, <2>2, <2>3, <2>4, <2>5, <2>6 DEF Next
  <1> QED BY InitSInv, <1>1, PTL DEF Spec

(* With one call at a time, no process runs on after the module has lost   *)
(* track of it.                                                            *)
THEOREM NoProcessIsOrphaned ==
    ASSUME Serial
    PROVE  Spec => []NoOrphan
  <1>1. SInv => NoOrphan
    BY DEF SInv, OneProcessExists, NoOrphan
  <1> QED BY SerialInvariance, <1>1, PTL

(* A process that comes to life was spawned by a start, more than          *)
(* MIN_RESTART_DELAY_MS after the last one ended, while no other existed.  *)
LEMMA SerialBirth ==
    ASSUME Serial, SInv, [Next]_vars,
           NEW p \in Procs, procState[p] # "alive", procState'[p] = "alive"
    PROVE  /\ ~ Recent(lastStopTime)
           /\ \A q \in Procs : procState[q] = "unused"
           /\ \E t \in Callers, f \in Freqs : SpawnRuns(t, f)
  <1> USE DEF SInv, IInv, TypeOK
  <1>0. procState' # procState
    OBVIOUS
  <1>1. ASSUME NEW t \in Callers, NEW f \in Freqs, StartFFTStream(t, f)
        PROVE  /\ ~ Recent(lastStopTime)
               /\ \A q \in Procs : procState[q] = "unused"
               /\ SpawnRuns(t, f)
    <2>1. StartStopped(t, f)
      BY <1>0, <1>1 DEF StartFFTStream, StartRefused, StartSameFrequency, StartRetune,
                        StartDuringStop, CallInOrder, vars, procs
    <2>2. /\ Spawn(t, f, currentCallback, currentConfig) /\ UNCHANGED calls
          /\ ~ Recent(lastStopTime)
      BY <1>0, <2>1 DEF StartStopped, SleepForUsb, procs
    <2>3. /\ pc[t] = "idle" /\ ~ isRunning /\ pc' = pc /\ restamped' = restamped
          /\ pc = [pc EXCEPT ![t] = "idle"]
      BY <2>1, <2>2 DEF StartStopped, calls
    <2> QED BY <2>2, <2>3, SerialSpawn
  <1>2. ASSUME NEW t \in Callers, WakeAndSpawn(t)
        PROVE  /\ ~ Recent(lastStopTime)
               /\ \A q \in Procs : procState[q] = "unused"
               /\ want[t] \in Freqs /\ SpawnRuns(t, want[t])
    BY <1>2, SerialWake
  <1>3. ASSUME NEW t \in Callers, StopRunning(t) \/ StopNothing(t) \/ StopTimeout(t)
        PROVE  FALSE
    BY <1>0, <1>3 DEF StopRunning, StopNothing, StopTimeout, procs
  <1>4. ASSUME NEW q \in Procs, EscalationTimer(q) \/ ProcExit(q) \/ ProcClose(q) \/ Frame(q)
        PROVE  FALSE
    BY <1>4 DEF EscalationTimer, ProcExit, ProcClose, Frame, procs
  <1>5. ~ Tick /\ ~ UNCHANGED vars
    BY <1>0 DEF Tick, vars, procs
  <1> QED BY <1>1, <1>2, <1>3, <1>4, <1>5 DEF Next

(* With one call at a time, MIN_RESTART_DELAY_MS lies between the end of   *)
(* one process and the spawn of the next.                                  *)
THEOREM RestartIsDelayed ==
    ASSUME Serial
    PROVE  Spec => RestartDelay
  <1> DEFINE Delayed == (\E p \in Procs : procState[p] = "unused" /\ procState'[p] = "alive")
                            => ~ Recent(lastStopTime)
  <1>1. SInv /\ [Next]_vars => [Delayed]_vars
    BY SerialBirth
  <1>2. Spec => [][Delayed]_vars
    BY SerialInvariance, <1>1, PTL DEF Spec
  <1> QED BY <1>2 DEF RestartDelay

----------------------------------------------------------------------------
(* The refinement: what each step does to the receiver.                    *)

LEMMA HeldByTheLiving ==
    ASSUME SInv
    PROVE  /\ \A p \in Procs : procState[p] = "alive" =>
                HeldFrequency = tuned[p] /\ HeldFrequency \in Freqs
           /\ (\A p \in Procs : procState[p] # "alive") => HeldFrequency = None
  <1>1. ASSUME NEW p \in Procs, procState[p] = "alive"
        PROVE  HeldFrequency = tuned[p] /\ HeldFrequency \in Freqs
    <2> DEFINE c == CHOOSE q \in Procs : procState[q] = "alive"
    <2>1. c \in Procs /\ procState[c] = "alive"
      BY <1>1
    <2>2. HeldFrequency = tuned[c]
      BY <1>1 DEF HeldFrequency
    <2> HIDE DEF c
    <2>3. c = p /\ tuned[p] \in Freqs
      BY <1>1, <2>1 DEF SInv, OneProcessExists
    <2> QED BY <2>2, <2>3
  <1>2. ASSUME \A p \in Procs : procState[p] # "alive"
        PROVE  HeldFrequency = None
    BY <1>2 DEF HeldFrequency
  <1> QED BY <1>1, <1>2

(* A process that lives on stays tuned as it is.                           *)
LEMMA TuningKept ==
    ASSUME Serial, SInv, [Next]_vars,
           NEW p \in Procs, procState[p] = "alive", procState'[p] = "alive"
    PROVE  tuned'[p] = tuned[p]
  <1> USE DEF SInv, IInv, TypeOK
  <1>1. ASSUME NEW t, NEW f, NEW callback, NEW config, Spawn(t, f, callback, config)
        PROVE  tuned'[p] = tuned[p]
    BY <1>1 DEF Spawn, SpawnRuns, SpawnErrors, SpawnThrows, procs
  <1>2. ASSUME NEW t \in Callers, NEW f \in Freqs, StartFFTStream(t, f)
        PROVE  tuned'[p] = tuned[p]
    BY <1>1, <1>2 DEF StartFFTStream, StartRefused, StartSameFrequency, StartStopped,
                      StartRetune, StartDuringStop, SleepForUsb, vars, procs
  <1>3. ASSUME NEW t \in Callers,
               WakeAndSpawn(t) \/ StopRunning(t) \/ StopNothing(t) \/ StopTimeout(t)
        PROVE  tuned'[p] = tuned[p]
    BY <1>1, <1>3 DEF WakeAndSpawn, StopRunning, StopNothing, StopTimeout, procs
  <1>4. ASSUME NEW q \in Procs, EscalationTimer(q) \/ ProcExit(q) \/ ProcClose(q) \/ Frame(q)
        PROVE  tuned'[p] = tuned[p]
    BY <1>4 DEF EscalationTimer, ProcExit, ProcClose, Frame, procs
  <1>5. CASE Tick \/ UNCHANGED vars
    BY <1>5 DEF Tick, vars, procs
  <1> QED BY <1>2, <1>3, <1>4, <1>5 DEF Next

LEMMA DeviceStep ==
    ASSUME Serial, SInv, SInv', [Next]_vars
    PROVE  [Device!Next]_HeldFrequency
  <1>1. /\ \A p \in Procs : procState'[p] = "alive" =>
             HeldFrequency' = tuned'[p] /\ HeldFrequency' \in Freqs
        /\ (\A p \in Procs : procState'[p] # "alive") => HeldFrequency' = None
    <2>1. ASSUME NEW p \in Procs, procState'[p] = "alive"
          PROVE  HeldFrequency' = tuned'[p] /\ HeldFrequency' \in Freqs
      <3> DEFINE c == CHOOSE q \in Procs : procState'[q] = "alive"
      <3>1. c \in Procs /\ procState'[c] = "alive"
        BY <2>1
      <3>2. HeldFrequency' = tuned'[c]
        BY <2>1 DEF HeldFrequency
      <3> HIDE DEF c
      <3>3. c = p /\ tuned'[p] \in Freqs
        BY <2>1, <3>1 DEF SInv, OneProcessExists
      <3> QED BY <3>2, <3>3
    <2>2. ASSUME \A p \in Procs : procState'[p] # "alive"
          PROVE  HeldFrequency' = None
      BY <2>2 DEF HeldFrequency
    <2> QED BY <2>1, <2>2
  <1>2. CASE \E p \in Procs : procState[p] # "alive" /\ procState'[p] = "alive"
    <2>1. PICK p \in Procs : procState[p] # "alive" /\ procState'[p] = "alive"
      BY <1>2
    <2>2. HeldFrequency = None
      BY <2>1, SerialBirth, HeldByTheLiving
    <2>3. HeldFrequency' \in Freqs
      BY <1>1, <2>1
    <2> QED BY <2>2, <2>3 DEF Device!Next, Device!Acquire
  <1>3. CASE \A p \in Procs : procState'[p] = "alive" => procState[p] = "alive"
    <2>1. CASE \E p \in Procs : procState'[p] = "alive"
      <3>1. PICK p \in Procs : procState'[p] = "alive"
        BY <2>1
      <3>2. procState[p] = "alive" /\ tuned'[p] = tuned[p]
        BY <1>3, <3>1, TuningKept
      <3>3. HeldFrequency' = HeldFrequency
        BY <1>1, <3>1, <3>2, HeldByTheLiving
      <3> QED BY <3>3
    <2>2. CASE \A p \in Procs : procState'[p] # "alive"
      <3>1. HeldFrequency' = None
        BY <1>1, <2>2
      <3> QED BY <3>1 DEF Device!Next, Device!Release
    <2> QED BY <2>1, <2>2
  <1> QED BY <1>2, <1>3

(* With one call at a time, the stream uses the receiver as SdrDevice      *)
(* prescribes: every retune releases it before it is taken again.          *)
THEOREM StreamImplementsDevice ==
    ASSUME Serial
    PROVE  Spec => ImplementsSdrDevice
  <1>1. Init => Device!Init
    BY DEF Init, Device!Init, HeldFrequency
  <1>2. SInv /\ SInv' /\ [Next]_vars => [Device!Next]_HeldFrequency
    BY DeviceStep
  <1>3. Spec => Device!Spec
    BY <1>1, <1>2, SerialInvariance, PTL DEF Spec, Device!Spec
  <1> QED BY <1>3 DEF ImplementsSdrDevice
=============================================================================
