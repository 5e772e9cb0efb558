----------------------------- MODULE Dashboard -----------------------------
(***************************************************************************)
(* A page in a browser and the station it shows: the WebSocket of the      *)
(* React dashboard (frontend/src/hooks/useWebSocket.ts and the FFT effect  *)
(* of SatelliteTracking.tsx) or of the older page (web/static/app.js),     *)
(* the /ws side of the web server (web/server.ts), and the events of the   *)
(* state manager, which follow the capture of a pass in scheduler.ts.      *)
(*                                                                         *)
(* A connection delivers in order until it breaks; what the page sent      *)
(* before that may still reach the server, which notices the end of a      *)
(* connection later than the page.  A page that reconnects is told the     *)
(* whole state again, but nothing is sent again on its behalf.             *)
(*                                                                         *)
(* React runs the effects of a message before the next one.  Of the stream *)
(* only whether it runs is kept: its starts and stops, which take time and *)
(* may fail, are FftStream's, and the overlap of captures with the ground  *)
(* scanner is Station's.  Left out: the frequency a subscription names,    *)
(* frames and their history, fftState, progress, the list of passes, the   *)
(* globe, the SSTV switches.                                               *)
(***************************************************************************)
EXTENDS Naturals, Sequences

CONSTANTS
    Sockets,      \* connections the server may know of at one time
    None,
    LoopStatuses, \* what the capture loop and the scanner set between captures;
                  \* the recordings of the scanner are left out
    MaxAttempts,  \* maxReconnectAttempts
    MaxPasses,    \* bound: passes captured
    MaxQueue      \* bound: messages in flight in one direction

ASSUME BoundsAssumption == MaxAttempts \in Nat /\ MaxPasses \in Nat /\ MaxQueue \in Nat \ {0}
ASSUME LoopAssumption == LoopStatuses \subseteq {"idle", "waiting", "scanning"}

VARIABLES
    \* state manager and scheduler
    status, currentPass, scanningFrequency,
    sched,        \* "between" passes, "stopping" the FFT, or "capture"
    passes,       \* passes still to come
    \* web server
    clients, fftSubscribers, pendingFFTStart, pendingFFTStop, stream,
    held,         \* the listener of pass_start awaits stopFFTStream
    \* connections
    down,         \* to the page, on its present connection
    up,           \* from the page, on each connection
    \* page
    page,         \* "react" or "legacy"
    ws, conn, attempts, timer,
    systemState, waterfallMode,
    frequency,    \* currentFrequency of the last rendering
    asked         \* was fft_subscribe sent on this connection?

station == <<status, currentPass, scanningFrequency, sched, passes>>
server  == <<clients, fftSubscribers, pendingFFTStart, pendingFFTStop, stream, held>>
link    == <<ws, conn, attempts, timer>>
view    == <<systemState, waterfallMode, frequency>>
vars    == <<station, server, down, up, page, link, view, asked>>

Statuses == {"idle", "waiting", "scanning", "capturing", "decoding"}
Freqs == {"default", "pass", "scan", "manual"}
States == [status : Statuses, pass : BOOLEAN, scan : BOOLEAN]
Views == [status : Statuses \cup {"recording"}, pass : BOOLEAN, scan : BOOLEAN]
ASSUME NoneAssumption == None \notin Sockets /\ None \notin Views

Events ==
    [type : {"init"}, state : States]
    \cup [type : {"status_change"}, status : Statuses]
    \cup [type : {"pass_start", "pass_complete", "scanning_frequency"}]
Requests == {"fft_subscribe", "fft_unsubscribe"}

TypeOK ==
    /\ status \in Statuses
    /\ currentPass \in BOOLEAN
    /\ scanningFrequency \in BOOLEAN
    /\ sched \in {"between", "stopping", "capture"}
    /\ passes \in 0..MaxPasses
    /\ clients \subseteq Sockets
    /\ fftSubscribers \subseteq Sockets
    /\ pendingFFTStart \in BOOLEAN
    /\ pendingFFTStop \in BOOLEAN
    /\ stream \in BOOLEAN
    /\ held \in BOOLEAN
    /\ down \in Seq(Events) /\ Len(down) <= MaxQueue
    /\ up \in [Sockets -> Seq(Requests)]
    /\ page \in {"react", "legacy"}
    /\ ws \in Sockets \cup {None}
    /\ conn \in {"none", "connecting", "open"}
    /\ attempts \in 0..MaxAttempts
    /\ timer \in BOOLEAN
    /\ systemState \in Views \cup {None}
    /\ waterfallMode \in {"satellite", "sstv-2m"}
    /\ frequency \in Freqs
    /\ asked \in BOOLEAN

(* getCurrentFrequency: what the page wants to watch.                      *)
GetCurrentFrequency(v, mode) ==
    IF mode = "satellite"
    THEN IF v # None /\ v.pass THEN "pass" ELSE "default"
    ELSE IF v # None /\ v.status = "scanning" /\ v.scan THEN "scan" ELSE "manual"

(* A page has been loaded: its effects have run, the one that subscribes   *)
(* before the one that connects.                                           *)
Init ==
    /\ status = "idle" /\ currentPass = FALSE /\ scanningFrequency = FALSE
    /\ sched = "between" /\ passes = MaxPasses
    /\ clients = {} /\ fftSubscribers = {}
    /\ pendingFFTStart = FALSE /\ pendingFFTStop = FALSE
    /\ stream = FALSE /\ held = FALSE
    /\ down = <<>> /\ up = [x \in Sockets |-> <<>>]
    /\ page \in {"react", "legacy"}
    /\ ws = None /\ conn = "none" /\ attempts = 0 /\ timer = TRUE
    /\ systemState = None
    /\ waterfallMode \in {"satellite", "sstv-2m"}
    /\ page = "legacy" => waterfallMode = "satellite"
    /\ frequency = GetCurrentFrequency(None, waterfallMode)
    /\ asked = FALSE

----------------------------------------------------------------------------
(* State manager.  Its listener in the server sends each event to every    *)
(* client; what is sent on a connection the page has given up is lost.     *)

Room == Len(down) < MaxQueue

Broadcast(event) ==
    /\ Room
    /\ down' = IF ws \in clients THEN Append(down, event) ELSE down

(* setStatus, from the capture loop, waitForPass and the scanner.          *)
SetStatus(st) ==
    /\ status' = st
    /\ scanningFrequency' = (scanningFrequency /\ st = "scanning")
    /\ Broadcast([type |-> "status_change", status |-> st])

StatusChanges(st) ==
    /\ ~ currentPass
    /\ st # status
    /\ SetStatus(st)
    /\ UNCHANGED <<currentPass, sched, passes, server, up, page, link, view, asked>>

(* setScanningFrequency: the listener retunes if somebody watches.         *)
SetScanningFrequency ==
    /\ status = "scanning"
    /\ scanningFrequency' = TRUE
    /\ pendingFFTStart' = (pendingFFTStart \/ fftSubscribers # {})
    /\ Broadcast([type |-> "scanning_frequency"])
    /\ UNCHANGED <<status, currentPass, sched, passes, clients, fftSubscribers,
                   pendingFFTStop, stream, held, up, page, link, view, asked>>

(* capturePass stops a stream that runs and waits ...                      *)
StopStreamForPass ==
    /\ sched = "between"
    /\ passes > 0
    /\ stream
    /\ sched' = "stopping"
    /\ stream' = FALSE
    /\ UNCHANGED <<status, currentPass, scanningFrequency, passes, clients,
                   fftSubscribers, pendingFFTStart, pendingFFTStop, held, down, up,
                   page, link, view, asked>>

(* ... before startPass.  If a timer has started it again meanwhile, the   *)
(* listener stops it once more, and sends pass_start after that.           *)
StartPass ==
    /\ passes > 0
    /\ sched = "stopping" \/ (sched = "between" /\ ~ stream)
    /\ sched' = "capture"
    /\ passes' = passes - 1
    /\ currentPass' = TRUE
    /\ status' = "capturing"
    /\ IF stream
       THEN stream' = FALSE /\ held' = TRUE /\ UNCHANGED down
       ELSE Broadcast([type |-> "pass_start"]) /\ UNCHANGED <<stream, held>>
    /\ UNCHANGED <<scanningFrequency, clients, fftSubscribers, pendingFFTStart,
                   pendingFFTStop, up, page, link, view, asked>>

PassStartSent ==
    /\ held
    /\ held' = FALSE
    /\ Broadcast([type |-> "pass_start"])
    /\ UNCHANGED <<station, clients, fftSubscribers, pendingFFTStart, pendingFFTStop,
                   stream, up, page, link, view, asked>>

(* Recording and signal check take longer than the stop of the stream.     *)
DecodingBegins ==
    /\ sched = "capture"
    /\ status = "capturing"
    /\ ~ held
    /\ SetStatus("decoding")
    /\ UNCHANGED <<currentPass, sched, passes, server, up, page, link, view, asked>>

(* Variant with a fault, for ViewIsCurrent: no event.                      *)
CompletePassSilently ==
    /\ sched = "capture"
    /\ ~ held
    /\ sched' = "between"
    /\ currentPass' = FALSE
    /\ status' = "idle"
    /\ UNCHANGED <<scanningFrequency, passes, server, down, up, page, link, view, asked>>

(* completePass, after a capture that succeeded or failed.                 *)
CompletePass ==
    /\ sched = "capture"
    /\ ~ held
    /\ sched' = "between"
    /\ currentPass' = FALSE
    /\ status' = "idle"
    /\ Broadcast([type |-> "pass_complete"])
    /\ UNCHANGED <<scanningFrequency, passes, server, up, page, link, view, asked>>

----------------------------------------------------------------------------
(* The server's side of a connection.                                      *)

(* The handler of "connection": the whole state is sent first.             *)
ServerAccepts ==
    /\ conn = "connecting"
    /\ ws \notin clients
    /\ clients' = clients \cup {ws}
    /\ down' = <<[type |-> "init",
                  state |-> [status |-> status, pass |-> currentPass,
                             scan |-> scanningFrequency]]>>
    /\ UNCHANGED <<station, fftSubscribers, pendingFFTStart, pendingFFTStop, stream,
                   held, up, page, link, view, asked>>

(* The handler of "close", some time after the page has lost the           *)
(* connection.                                                             *)
ServerSeesClose(x) ==
    /\ x \in clients
    /\ x # ws
    /\ clients' = clients \ {x}
    /\ fftSubscribers' = fftSubscribers \ {x}
    /\ up' = [up EXCEPT ![x] = <<>>]
    /\ UNCHANGED <<station, pendingFFTStart, pendingFFTStop, stream, held, down,
                   page, link, view, asked>>

(* The next message of the page on connection x, also on one it has lost.  *)
Requested(x, type) ==
    /\ x \in clients
    /\ up[x] # <<>>
    /\ Head(up[x]) = type
    /\ up' = [up EXCEPT ![x] = Tail(@)]

(* Variant with a fault, for WatchedAgain: only a scan needs the stream.   *)
ServerSubscribesInScan(x) ==
    /\ Requested(x, "fft_subscribe")
    /\ fftSubscribers' = fftSubscribers \cup {x}
    /\ pendingFFTStop' = FALSE
    /\ pendingFFTStart' = (pendingFFTStart \/ (~ stream /\ status = "scanning"))
    /\ UNCHANGED <<station, clients, stream, held, down, page, link, view, asked>>

(* fft_subscribe: a stream that runs is left as it is, and none is started *)
(* during a capture.                                                       *)
ServerSubscribes(x) ==
    /\ Requested(x, "fft_subscribe")
    /\ fftSubscribers' = fftSubscribers \cup {x}
    /\ pendingFFTStop' = FALSE
    /\ pendingFFTStart' =
         (pendingFFTStart \/ (~ stream /\ status \notin {"capturing", "decoding"}))
    /\ UNCHANGED <<station, clients, stream, held, down, page, link, view, asked>>

(* fft_unsubscribe                                                         *)
ServerUnsubscribes(x) ==
    /\ Requested(x, "fft_unsubscribe")
    /\ fftSubscribers' = fftSubscribers \ {x}
    /\ pendingFFTStop' = TRUE
    /\ UNCHANGED <<station, clients, pendingFFTStart, stream, held, down, page, link,
                   view, asked>>

(* debouncedFFTStart's timer.                                              *)
StartTimer ==
    /\ pendingFFTStart
    /\ stream' = TRUE
    /\ pendingFFTStart' = FALSE
    /\ UNCHANGED <<station, clients, fftSubscribers, pendingFFTStop, held, down, up,
                   page, link, view, asked>>

(* The deferred stop.                                                      *)
StopTimer ==
    /\ pendingFFTStop
    /\ pendingFFTStop' = FALSE
    /\ stream' = (stream /\ fftSubscribers # {})
    /\ UNCHANGED <<station, clients, fftSubscribers, pendingFFTStart, held, down, up,
                   page, link, view, asked>>

----------------------------------------------------------------------------
(* The page.                                                               *)

(* connect, by the effect of the first rendering or by the timer.          *)
Connect ==
    /\ conn = "none"
    /\ timer
    /\ \E x \in Sockets \ clients :
         /\ ws' = x
         /\ up' = [up EXCEPT ![x] = <<>>]
    /\ conn' = "connecting"
    /\ timer' = FALSE
    /\ down' = <<>>
    /\ asked' = FALSE
    /\ UNCHANGED <<station, server, page, attempts, view>>

OnOpen ==
    /\ conn = "connecting"
    /\ ws \in clients
    /\ conn' = "open"
    /\ attempts' = 0
    /\ UNCHANGED <<station, server, down, up, page, ws, timer, view, asked>>

(* Variant with a fault, for Reconnects: the first failure is the last.    *)
AttemptNothing == timer' = FALSE /\ UNCHANGED attempts

(* Variant with a fault, for TypeOK: no limit of the attempts.             *)
AttemptForEver == timer' = TRUE /\ attempts' = attempts + 1

AttemptReconnect ==
    /\ timer' = (attempts < MaxAttempts)
    /\ attempts' = IF attempts < MaxAttempts THEN attempts + 1 ELSE attempts

(* onclose: the connection could not be made, or broke.                    *)
OnClose ==
    /\ conn # "none"
    /\ conn' = "none"
    /\ ws' = None
    /\ down' = <<>>
    /\ AttemptReconnect
    /\ UNCHANGED <<station, server, up, page, view, asked>>

(* Variant with a fault, for SubscriptionsAgree: the cleanup of the old    *)
(* effect runs after the new one.                                          *)
SubscribeFirst == <<"fft_subscribe", "fft_unsubscribe">>

(* unsubscribeFFT of the old effect and subscribeFFT of the new one.       *)
Resubscribe == <<"fft_unsubscribe", "fft_subscribe">>

(* A rendering; the effect runs if the frequency changed, and sends only   *)
(* on an open connection.                                                  *)
Render(v, mode) ==
    /\ systemState' = v
    /\ waterfallMode' = mode
    /\ frequency' = GetCurrentFrequency(v, mode)
    /\ IF page = "react" /\ frequency' # frequency /\ conn = "open"
       THEN up' = [up EXCEPT ![ws] = @ \o Resubscribe] /\ asked' = TRUE
       ELSE UNCHANGED <<up, asked>>

(* What a message makes of systemState in the React page, which calls a    *)
(* capture "recording" ...                                                 *)
Handled(v, m) ==
    CASE m.type = "init" -> m.state
      [] m.type = "status_change" -> [v EXCEPT !.status = m.status]
      [] m.type = "pass_start" -> [v EXCEPT !.status = "recording", !.pass = TRUE]
      [] m.type = "pass_complete" -> [v EXCEPT !.status = "idle", !.pass = FALSE]
      [] m.type = "scanning_frequency" -> [v EXCEPT !.scan = TRUE]

(* ... and in the older one, where the status decides whether the current  *)
(* pass is shown.                                                          *)
UpdateStatus(v, st) ==
    [v EXCEPT !.status = st, !.pass = st \in {"capturing", "decoding"}]

HandlePassComplete(v) == UpdateStatus(v, "idle")

HandleMessage(v, m) ==
    CASE m.type = "init" -> UpdateStatus(m.state, m.state.status)
      [] m.type = "status_change" -> UpdateStatus(v, m.status)
      [] m.type = "pass_start" -> UpdateStatus(v, "capturing")
      [] m.type = "pass_complete" -> HandlePassComplete(v)
      [] m.type = "scanning_frequency" -> v

OnMessage ==
    /\ conn = "open"
    /\ down # <<>>
    /\ Len(up[ws]) + 2 <= MaxQueue
    /\ down' = Tail(down)
    /\ Render(IF page = "react" THEN Handled(systemState, Head(down))
                                ELSE HandleMessage(systemState, Head(down)),
              waterfallMode)
    /\ UNCHANGED <<station, server, page, link>>

(* The user selects the other tab.                                         *)
SetWaterfallMode ==
    /\ page = "react"
    /\ conn = "open" => Len(up[ws]) + 2 <= MaxQueue
    /\ Render(systemState, IF waterfallMode = "satellite" THEN "sstv-2m" ELSE "satellite")
    /\ UNCHANGED <<station, server, down, page, link>>

----------------------------------------------------------------------------
StationNext ==
    \/ \E st \in LoopStatuses : StatusChanges(st)
    \/ SetScanningFrequency \/ StopStreamForPass \/ StartPass \/ PassStartSent
    \/ DecodingBegins \/ CompletePass

ServerNext ==
    \/ ServerAccepts \/ StartTimer \/ StopTimer
    \/ \E x \in Sockets : ServerSeesClose(x) \/ ServerSubscribes(x) \/ ServerUnsubscribes(x)

PageNext == Connect \/ OnOpen \/ OnClose \/ OnMessage \/ SetWaterfallMode

Next == StationNext \/ ServerNext \/ PageNext

Spec == Init /\ [][Next]_vars

(* Timers fire, messages arrive or the connection breaks, a capture ends.  *)
(* Connections need not break, users need do nothing, and no pass is owed. *)
Fairness ==
    /\ WF_vars(sched = "stopping" /\ StartPass) /\ WF_vars(PassStartSent) /\ WF_vars(CompletePass)
    /\ WF_vars(ServerAccepts) /\ WF_vars(StartTimer) /\ WF_vars(StopTimer)
    /\ \A x \in Sockets :
         /\ WF_vars(ServerSeesClose(x))
         /\ WF_vars(ServerSubscribes(x)) /\ WF_vars(ServerUnsubscribes(x))
    /\ WF_vars(Connect) /\ WF_vars(OnOpen) /\ WF_vars(OnMessage)

FairSpec == Spec /\ Fairness

----------------------------------------------------------------------------
(* A page that has received everything shows the state the station is in,  *)
(* through lost connections, events emitted while it was away or while it  *)
(* connected, and a pass_start that waited for the stream to stop.         *)
ViewIsCurrent ==
    conn = "open" /\ down = <<>> /\ ~ held =>
        /\ systemState # None
        /\ systemState.pass = currentPass
        /\ \/ systemState.status = status
           \/ systemState.status = "recording" /\ status = "capturing"

(* Page and server agree on who watches: the server has exactly the live   *)
(* connection subscribed if the page asked on it, and no connection that   *)
(* it knows to be closed, whatever old connections still deliver.          *)
SubscriptionsAgree ==
    /\ conn = "open" /\ up[ws] = <<>> => (ws \in fftSubscribers <=> asked)
    /\ fftSubscribers \subseteq clients

(* A page that lost its connection, or whose connection could not be made, *)
(* gets a new one or gives up after exactly maxReconnectAttempts.          *)
Reconnects ==
    conn # "open" ~>
        \/ conn = "open"
        \/ conn = "none" /\ ~ timer /\ attempts = MaxAttempts

(* A page on the satellite tab that shows a pass gets the stream back when *)
(* the pass is over: the frequency of the pass is not the default one, so  *)
(* the page subscribes again, although the server itself restarts nothing. *)
WatchedAgain ==
    (page = "react" /\ conn = "open" /\ waterfallMode = "satellite" /\ frequency = "pass")
        ~> \/ stream /\ ~ currentPass
           \/ conn # "open"
           \/ waterfallMode # "satellite"
=============================================================================
