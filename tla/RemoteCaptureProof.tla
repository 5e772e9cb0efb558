------------------------- MODULE RemoteCaptureProof -------------------------
(***************************************************************************)
(* Proofs about RemoteCapture, for any number of sessions, sockets and     *)
(* users of the relay.                                                     *)
(***************************************************************************)
EXTENDS RemoteCapture, TLAPS

(* No more attempts of a verification have succeeded than are over.        *)
CountsAgree == successCount < attempt

IInv ==
    /\ TypeOK
    /\ RecordingModeBacked
    /\ CountsAgree

LEMMA InitIInv == Init => IInv
  <1> SUFFICES ASSUME Init PROVE IInv
    OBVIOUS
  <1>1. RelayTypeOK /\ RecordingModeBacked
    BY DEF Init, RelayInit, RelayTypeOK, RecordingModeBacked
  <1>2. attempt \in 1..SignalAttempts /\ successCount \in 0..SignalAttempts /\ CountsAgree
    BY AttemptsAssumption DEF Init, CountsAgree
  <1> QED BY <1>1, <1>2 DEF Init, IInv, TypeOK

(* The FFT stream may do what it likes: the mode is not its own.           *)
LEMMA StreamPreserves ==
    ASSUME IInv, StreamChanges, UNCHANGED <<relay, client>>
    PROVE  IInv'
  BY DEF IInv, TypeOK, RelayTypeOK, RecordingModeBacked, CountsAgree, StreamChanges, relay, client,
         recording, verification

(* Sockets enter and leave; only "fft" and "idle" are set.                 *)
LEMMA SocketPreserves ==
    ASSUME IInv, NEW x \in Sockets, UNCHANGED client,
           Subscribe(x) \/ Unsubscribe(x) \/ SocketClosed(x) \/ BroadcastFails(x)
    PROVE  IInv'
  <1> USE DEF IInv, TypeOK, RelayTypeOK, RecordingModeBacked, CountsAgree, client, recording, verification, fft
  <1>1. CASE Subscribe(x)
    BY <1>1 DEF Subscribe, StreamChanges
  <1>2. CASE Leave(x)
    BY <1>2 DEF Leave, PauseFft
  <1>3. CASE BroadcastFails(x)
    BY <1>3 DEF BroadcastFails
  <1> QED BY <1>1, <1>2, <1>3 DEF Unsubscribe, SocketClosed

(* A capture is begun, by whomever.                                        *)
LEMMA CaptureStartPreserves ==
    ASSUME IInv, NEW s \in Sessions, CaptureStart(s)
    PROVE  RelayTypeOK' /\ RecordingModeBacked'
  BY DEF IInv, TypeOK, RelayTypeOK, RecordingModeBacked, CaptureStart, PauseFft

(* A session goes on: a session leaves "recording" only in the step that   *)
(* sets the mode to "idle".                                                *)
LEMMA SessionPreserves ==
    ASSUME IInv, NEW s \in Sessions, SessionNext(s), UNCHANGED client
    PROVE  IInv'
  <1> USE DEF IInv, TypeOK, RelayTypeOK, RecordingModeBacked, CountsAgree, client, recording, verification, fft
  <1>1. CASE CaptureRecords(s)
    BY <1>1 DEF CaptureRecords
  <1>2. CASE CaptureStartFails(s)
    BY <1>2 DEF CaptureStartFails
  <1>3. CASE DurationReached(s) \/ CaptureStop(s)
    <2>1. PICK who \in {"auto", "request"} : BeginStop(s, who)
      BY <1>3 DEF DurationReached, CaptureStop
    <2>2. recorder' \in [Sessions -> {"off", "running", "ending", "over"}]
      BY <2>1 DEF BeginStop
    <2>3. stops' \in [Sessions -> SUBSET {"auto", "request"}]
      BY <2>1 DEF BeginStop
    <2> QED BY <2>1, <2>2, <2>3 DEF BeginStop
  <1>4. CASE SoxCloses(s)
    BY <1>4 DEF SoxCloses, Completes
  <1>5. CASE \E who \in {"auto", "request"} : StopTimeout(s, who)
    BY <1>5 DEF StopTimeout, Completes
  <1> QED BY <1>1, <1>2, <1>3, <1>4, <1>5 DEF SessionNext

(* A signal is checked, for whomever.                                      *)
LEMMA CheckPreserves ==
    ASSUME IInv, SignalCheck \/ SignalChecked
    PROVE  RelayTypeOK' /\ RecordingModeBacked'
  BY DEF IInv, TypeOK, RelayTypeOK, RecordingModeBacked, fft,
         SignalCheck, SignalChecked, PauseFft, StreamChanges

(* The counters of verifySignal stay within its attempts: no more attempts *)
(* can have succeeded than were made.                                      *)
LEMMA AttemptCounted ==
    ASSUME IInv, NEW strong \in BOOLEAN, AttemptOver(strong)
    PROVE  /\ attempt' \in 1..SignalAttempts
           /\ successCount' \in 0..(attempt' - 1)
           /\ job' \in {"verifying", "requesting", "idle"}
           /\ UNCHANGED <<jobSession, saved>>
  <1> DEFINE found == successCount + (IF strong THEN 1 ELSE 0)
  <1>1. found \in 0..attempt
    BY DEF IInv, TypeOK, CountsAgree
  <1>2. CASE attempt < SignalAttempts
    BY <1>1, <1>2, AttemptsAssumption DEF AttemptOver, IInv, TypeOK, recording
  <1>3. CASE ~ (attempt < SignalAttempts)
    BY <1>1, <1>3, AttemptsAssumption DEF AttemptOver, IInv, TypeOK, recording
  <1> QED BY <1>2, <1>3

LEMMA ClientPreserves ==
    ASSUME IInv, ClientNext
    PROVE  IInv'
  <1> USE OwnAssumption, AttemptsAssumption
      DEF IInv, TypeOK, CountsAgree, recording, verification
  <1>1. CASE RequestAccepted
    <2> PICK s \in OwnSessions : CaptureStart(s) /\ jobSession' = s
      BY <1>1 DEF RequestAccepted
    <2> QED BY <1>1, CaptureStartPreserves DEF RequestAccepted
  <1>2. CASE Download
    BY <1>2 DEF Download, Served, Routes, Matches, relayVars, relay, fft,
                RelayTypeOK, RecordingModeBacked
  <1>3. CASE RecordPass \/ RequestRefused \/ StartAnswered \/ StartErrorAnswered
             \/ FetchFails \/ PollingEnds \/ VerifySignal
    BY <1>3 DEF RecordPass, RequestRefused, StartAnswered, StartErrorAnswered,
                FetchFails, PollingEnds, VerifySignal, relayVars, relay, fft,
                RelayTypeOK, RecordingModeBacked
  <1>4. CASE CheckBegins
    BY <1>4, CheckPreserves DEF CheckBegins
  <1>5. ASSUME NEW strong \in BOOLEAN, AttemptOver(strong), RelayTypeOK', RecordingModeBacked'
        PROVE  IInv'
    BY <1>5, AttemptCounted
  <1>6. CASE CheckRefused \/ CheckFails
    <2>1. AttemptOver(FALSE) /\ UNCHANGED relayVars
      BY <1>6 DEF CheckRefused, CheckFails
    <2> QED BY <1>5, <2>1 DEF relayVars, relay, fft, RelayTypeOK, RecordingModeBacked
  <1>7. CASE CheckAnswered
    <2>1. PICK detected \in Detections : AttemptOver(ApproximatePower(detected) > minStrength)
      BY <1>7 DEF CheckAnswered
    <2>2. (ApproximatePower(detected) > minStrength) \in BOOLEAN
      OBVIOUS
    <2>3. RelayTypeOK' /\ RecordingModeBacked'
      BY <1>7, CheckPreserves DEF CheckAnswered
    <2> QED BY <1>5, <2>1, <2>2, <2>3
  <1> QED BY <1>1, <1>2, <1>3, <1>4, <1>6, <1>7 DEF ClientNext

LEMMA NextIInv == IInv /\ [Next]_vars => IInv'
  <1> SUFFICES ASSUME IInv, [Next]_vars PROVE IInv'
    OBVIOUS
  <1>1. CASE ClientNext
    BY <1>1, ClientPreserves
  <1>2. CASE OtherCapture /\ UNCHANGED client
    BY <1>2, CaptureStartPreserves 
    DEF OtherCapture, IInv, TypeOK, CountsAgree, client, recording, verification
  <1>3. CASE RelayNext /\ UNCHANGED client
    <2>1. CASE SetFrequency \/ Tune \/ FftAlone
      BY <1>3, <2>1, StreamPreserves DEF SetFrequency, Tune, UpdateFFTFrequency, FftAlone
    <2>2. CASE \E x \in Sockets : Subscribe(x) \/ Unsubscribe(x) \/ SocketClosed(x)
                                  \/ BroadcastFails(x)
      BY <1>3, <2>2, SocketPreserves
    <2>3. CASE \E s \in Sessions : SessionNext(s)
      BY <1>3, <2>3, SessionPreserves
    <2> QED BY <1>3, <2>1, <2>2, <2>3 DEF RelayNext
  <1>4. CASE OtherCheck /\ UNCHANGED client
    BY <1>4, CheckPreserves
    DEF OtherCheck, IInv, TypeOK, CountsAgree, client, recording, verification
  <1>5. CASE UNCHANGED vars
    BY <1>5 DEF vars, relayVars, relay, fft, client, recording, verification, IInv, TypeOK,
                CountsAgree, RelayTypeOK, RecordingModeBacked
  <1> QED BY <1>1, <1>2, <1>3, <1>4, <1>5 DEF Next

(* The inductive invariant holds in every reachable state.                 *)
THEOREM Invariance == Spec => []IInv
  BY InitIInv, NextIInv, PTL DEF Spec

(* Relay, sessions and client are type correct.                            *)
THEOREM RelayTypeCorrect == Spec => []TypeOK
  <1> IInv => TypeOK BY DEF IInv
  <1> QED BY Invariance, PTL

(* The relay says "recording", and refuses everybody, only while one of    *)
(* its sessions really records, however many users start and stop captures *)
(* at a time.                                                              *)
THEOREM ModeIsBacked == Spec => []RecordingModeBacked
  <1> IInv => RecordingModeBacked BY DEF IInv
  <1> QED BY Invariance, PTL
=============================================================================
