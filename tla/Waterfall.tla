----------------------------- MODULE Waterfall -----------------------------
(***************************************************************************)
(* The frames of the FFT stream on their way to the eye: the history that  *)
(* web/server.ts buffers, the messages to a subscribed page, and the       *)
(* waterfall the React page paints of them (useWebSocket.ts, App.tsx,      *)
(* SatelliteTracking.tsx, WaterfallView.tsx).                              *)
(*                                                                         *)
(* A frame is the number of its emission: timestamps grow, as the stream   *)
(* emits at most one frame every 33 ms.  React paints when messages leave  *)
(* it time: several may be handled before one rendering, and a handler     *)
(* that sets a state many times sets it once.                              *)
(*                                                                         *)
(* Of the stream its phase is kept; whether a start finds it at the wanted *)
(* frequency is a free choice, and overlapping starts and stops are        *)
(* FftStream's.  The connection holds, or the page is loaded again;        *)
(* Dashboard has the reconnections.                                        *)
(***************************************************************************)
EXTENDS Integers, Sequences, SequencesExt, FiniteSetsExt

CONSTANTS
    FFT_HISTORY_MAX,
    MAX_HISTORY_ROWS,
    Unit,               \* power levels are counted in 1/Unit dB
    MinPower, MaxPower, \* of each frame
    MaxFrames,          \* bound: frames emitted
    MaxPasses,          \* bound: passes captured
    MaxQueue            \* bound: messages on their way to the page

Frames == 1..MaxFrames

ASSUME SizesAssumption ==
    /\ FFT_HISTORY_MAX \in Nat \ {0} /\ MAX_HISTORY_ROWS \in Nat \ {0}
    /\ MaxFrames \in Nat /\ MaxPasses \in Nat /\ MaxQueue \in Nat

(* computePowerSpectrum takes the logarithm of no power below 1e-15.  A    *)
(* windowed signal of 8 bits has less than 0 dB, and as its samples are    *)
(* offset by half a step none is silent: its strongest bin has some -80 dB *)
(* at least.                                                               *)
ASSUME PowersAssumption ==
    /\ Unit \in Nat \ {0}
    /\ MinPower \in [Frames -> Int] /\ MaxPower \in [Frames -> Int]
    /\ \A t \in Frames :
         /\ -150 * Unit < MinPower[t] /\ MinPower[t] <= MaxPower[t]
         /\ -120 * Unit <= MaxPower[t] /\ MaxPower[t] < 0

VARIABLES
    \* FFT stream
    phase,            \* "off", "on", "stopping", "retuning" (stopping, to start
                      \* again), "sleeping" (before rtl_sdr is spawned)
    lastError,
    clock,            \* frames emitted so far
    \* web server
    fftHistoryBuffer, subscribed, pendingFFTStart, pendingFFTStop,
    check,            \* a timer that looks for an error after a start is armed
    capturing, passes,
    \* connection
    down, up,
    \* page: states that are set, and what has been rendered of them
    latest,           \* latestFFTData; 0 for null
    running, error,   \* fftState; an error is the time of its report, or None
    active,           \* currentPass
    mode,
    dirty,            \* a rendering is due
    rows,             \* fftHistory of the waterfall, oldest first
    frequency         \* currentFrequency of the last rendering

fft    == <<phase, lastError, clock>>
server == <<fftHistoryBuffer, subscribed, pendingFFTStart, pendingFFTStop, check>>
state  == <<capturing, passes>>
view   == <<latest, running, error, active, mode, dirty, rows, frequency>>
vars   == <<fft, server, state, down, up, view>>

None == -1
Phases == {"off", "on", "stopping", "retuning", "sleeping"}
Errors == 0..MaxFrames \cup {None}
Events ==
    [type : {"init"}, running : BOOLEAN, error : Errors, pass : BOOLEAN]
    \cup [type : {"fft_data"}, t : Frames]
    \cup [type : {"fft_history"}, data : Seq(Frames) \ {<<>>}]
    \cup [type : {"fft_subscribed"}, running : BOOLEAN, error : Errors]
    \cup [type : {"fft_error"}, error : Errors]
    \cup [type : {"fft_unsubscribed", "pass_start", "pass_complete"}]

TypeOK ==
    /\ phase \in Phases
    /\ lastError \in BOOLEAN
    /\ clock \in 0..MaxFrames
    /\ fftHistoryBuffer \in Seq(Frames) /\ Len(fftHistoryBuffer) <= FFT_HISTORY_MAX
    /\ {subscribed, pendingFFTStart, pendingFFTStop, check, capturing} \subseteq BOOLEAN
    /\ passes \in 0..MaxPasses
    /\ down \in Seq(Events)
    /\ up \in Seq({"fft_subscribe", "fft_unsubscribe"})
    /\ latest \in 0..MaxFrames
    /\ {running, active, dirty} \subseteq BOOLEAN
    /\ error \in Errors
    /\ mode \in {"satellite", "sstv-2m"}
    /\ rows \in Seq(Frames) /\ Len(rows) <= MAX_HISTORY_ROWS
    /\ frequency \in {"default", "pass", "manual"}

(* getCurrentFrequency, without a scanner at work.                         *)
GetCurrentFrequency(m, pass) ==
    IF m = "sstv-2m" THEN "manual" ELSE IF pass THEN "pass" ELSE "default"

(* A page that has just been loaded, with the tab its store remembers: it  *)
(* wanted to subscribe before it was connected, which does nothing.        *)
LoadPage(init) ==
    /\ down' = <<init>> /\ up' = <<>>
    /\ latest' = 0 /\ running' = FALSE /\ error' = None /\ active' = FALSE
    /\ dirty' = FALSE /\ rows' = <<>>
    /\ frequency' = GetCurrentFrequency(mode, FALSE)
    /\ UNCHANGED mode

IsFFTStreamRunning == phase = "on"

(* getFFTStreamError                                                       *)
StreamError == IF lastError THEN clock ELSE None

InitMessage == [type |-> "init", running |-> IsFFTStreamRunning,
                error |-> StreamError, pass |-> capturing]

Init ==
    /\ phase = "off" /\ lastError = FALSE /\ clock = 0
    /\ fftHistoryBuffer = <<>> /\ subscribed = FALSE
    /\ pendingFFTStart = FALSE /\ pendingFFTStop = FALSE /\ check = FALSE
    /\ capturing = FALSE /\ passes = MaxPasses
    /\ down = <<InitMessage>> /\ up = <<>>
    /\ latest = 0 /\ running = FALSE /\ error = None /\ active = FALSE
    /\ mode \in {"satellite", "sstv-2m"}
    /\ dirty = FALSE /\ rows = <<>>
    /\ frequency = GetCurrentFrequency(mode, FALSE)

(* What is left of a bounded history: its last n elements.                 *)
Newest(s, n) == IF Len(s) > n THEN SubSeq(s, Len(s) - n + 1, Len(s)) ELSE s

Room(n) == Len(down) + n <= MaxQueue

(* send to the page, of whichever handler; the server has no limit, the    *)
(* model's queue has.                                                      *)
Send(events) == Room(Len(events)) /\ down' = down \o events

ToSubscriber(event) == IF subscribed THEN Send(<<event>>) ELSE UNCHANGED down

----------------------------------------------------------------------------
(* FFT stream.                                                             *)

(* Variant with a fault, for HistoryIsTail: frames nobody watches are not  *)
(* buffered.                                                               *)
BroadcastToSome(t) ==
    /\ fftHistoryBuffer' =
         IF subscribed THEN Newest(Append(fftHistoryBuffer, t), FFT_HISTORY_MAX)
         ELSE fftHistoryBuffer
    /\ ToSubscriber([type |-> "fft_data", t |-> t])

(* broadcastFFTData; auto-gain is GainControl's.                           *)
BroadcastFFTData(t) ==
    /\ fftHistoryBuffer' = Newest(Append(fftHistoryBuffer, t), FFT_HISTORY_MAX)
    /\ ToSubscriber([type |-> "fft_data", t |-> t])

(* A frame.  The callback stays until a stop is complete.                  *)
Frame ==
    /\ phase \in {"on", "stopping", "retuning"}
    /\ clock < MaxFrames
    /\ clock' = clock + 1
    /\ BroadcastFFTData(clock + 1)
    /\ UNCHANGED <<phase, lastError, subscribed, pendingFFTStart, pendingFFTStop, check,
                   state, up, view>>

(* rtl_sdr complains but goes on: "usb_..." on its stderr.                 *)
Complaint ==
    /\ phase = "on"
    /\ ~ lastError
    /\ lastError' = TRUE
    /\ UNCHANGED <<phase, clock, server, state, down, up, view>>

(* The process of a running stream ends, with an error or without.         *)
StreamEnds ==
    /\ phase = "on"
    /\ phase' = "off"
    /\ lastError' \in {lastError, TRUE}
    /\ UNCHANGED <<clock, server, state, down, up, view>>

(* stopFFTStream, from its await on.  The close event may follow, with an  *)
(* exit code that is an error again.                                       *)
StopComplete ==
    /\ phase \in {"stopping", "retuning"}
    /\ phase' = IF phase = "stopping" THEN "off" ELSE "sleeping"
    /\ lastError' \in BOOLEAN
    /\ UNCHANGED <<clock, server, state, down, up, view>>

(* The page has rendered that no pass is captured any more.                *)
PassOver ==
    /\ ~ active
    /\ frequency # "pass"
    /\ \A i \in DOMAIN down :
         down[i].type # "pass_start" /\ (down[i].type = "init" => ~ down[i].pass)

(* The spawn, after the wait for the USB device, or its failure.  The      *)
(* error listener comes later, as the end of the process.  No start is     *)
(* armed during a capture, so that FFT_START_DEBOUNCE_MS at least have     *)
(* passed since the last one ended: time enough to render it.              *)
Spawn ==
    /\ phase = "sleeping"
    /\ PassOver
    /\ \/ phase' = "on" /\ lastError' = FALSE
       \/ phase' = "off" /\ UNCHANGED lastError
    /\ check' = TRUE
    /\ UNCHANGED <<clock, fftHistoryBuffer, subscribed, pendingFFTStart, pendingFFTStop,
                   state, down, up, view>>

----------------------------------------------------------------------------
(* Web server.                                                             *)

(* The scanner, or another page, asks for a frequency.  fft_set_frequency, *)
(* which does so during a capture too but no page sends, is in Station.    *)
SomebodyTunes ==
    /\ ~ capturing
    /\ ~ pendingFFTStart
    /\ pendingFFTStart' = TRUE
    /\ UNCHANGED <<fft, fftHistoryBuffer, subscribed, pendingFFTStop, check, state, down,
                   up, view>>

(* The timer of debouncedFFTStart: the history is cleared whatever comes   *)
(* of the start.  A stream that runs has the wanted frequency or not; a    *)
(* start in progress makes this one return.                                *)
StartTimer ==
    /\ pendingFFTStart
    /\ pendingFFTStart' = FALSE
    /\ fftHistoryBuffer' = <<>>
    /\ \/ phase \in {"on", "retuning", "sleeping", "stopping"}
          /\ check' = TRUE /\ UNCHANGED phase
       \/ phase = "off" /\ phase' = "sleeping" /\ UNCHANGED check
       \/ phase \in {"on", "stopping"} /\ phase' = "retuning" /\ UNCHANGED check
    /\ UNCHANGED <<lastError, clock, subscribed, pendingFFTStop, state, down, up, view>>

(* 1.5 s after a start: broadcastFFTError.  More than one may be due.      *)
CheckForError ==
    /\ check
    /\ check' \in BOOLEAN
    /\ IF lastError
       THEN ToSubscriber([type |-> "fft_error", error |-> clock])
       ELSE UNCHANGED down
    /\ UNCHANGED <<fft, fftHistoryBuffer, subscribed, pendingFFTStart, pendingFFTStop,
                   state, up, view>>

Requested(type) == up # <<>> /\ Head(up) = type /\ up' = Tail(up)

History ==
    IF fftHistoryBuffer = <<>> THEN <<>>
    ELSE <<[type |-> "fft_history", data |-> fftHistoryBuffer]>>

(* The answer is made after a start may have been armed, which does not    *)
(* run yet.                                                                *)
Subscribed ==
    <<[type |-> "fft_subscribed", running |-> IsFFTStreamRunning, error |-> StreamError]>>

(* Variant with a fault, for NewestShown: no history.                      *)
SubscribeOnly ==
    /\ Requested("fft_subscribe")
    /\ subscribed' = TRUE
    /\ pendingFFTStop' = FALSE
    /\ pendingFFTStart' = (pendingFFTStart \/ (~ IsFFTStreamRunning /\ ~ capturing))
    /\ Send(Subscribed)
    /\ UNCHANGED <<fft, fftHistoryBuffer, check, state, view>>

(* fft_subscribe: the history first, then the answer.                      *)
Subscribe ==
    /\ Requested("fft_subscribe")
    /\ subscribed' = TRUE
    /\ pendingFFTStop' = FALSE
    /\ pendingFFTStart' = (pendingFFTStart \/ (~ IsFFTStreamRunning /\ ~ capturing))
    /\ Send(History \o Subscribed)
    /\ UNCHANGED <<fft, fftHistoryBuffer, check, state, view>>

Unsubscribe ==
    /\ Requested("fft_unsubscribe")
    /\ subscribed' = FALSE
    /\ pendingFFTStop' = TRUE
    /\ Send(<<[type |-> "fft_unsubscribed"]>>)
    /\ UNCHANGED <<fft, fftHistoryBuffer, pendingFFTStart, check, state, view>>

StopTimer ==
    /\ pendingFFTStop
    /\ pendingFFTStop' = FALSE
    /\ phase' = IF ~ subscribed /\ IsFFTStreamRunning THEN "stopping" ELSE phase
    /\ UNCHANGED <<lastError, clock, fftHistoryBuffer, subscribed, pendingFFTStart, check,
                   state, down, up, view>>

(* capturePass stops a running stream, waits, and starts the pass.  That   *)
(* no start is pending then is not guaranteed by the code: what happens    *)
(* otherwise is in Station.                                                *)
StopForPass ==
    /\ ~ capturing /\ passes > 0
    /\ phase = "on"
    /\ phase' = "stopping"
    /\ UNCHANGED <<lastError, clock, server, state, down, up, view>>

StartPass ==
    /\ ~ capturing /\ passes > 0
    /\ phase = "off" /\ ~ pendingFFTStart
    /\ capturing' = TRUE
    /\ passes' = passes - 1
    /\ Send(<<[type |-> "pass_start"]>>)
    /\ UNCHANGED <<fft, server, up, view>>

CompletePass ==
    /\ capturing
    /\ capturing' = FALSE
    /\ Send(<<[type |-> "pass_complete"]>>)
    /\ UNCHANGED <<fft, server, passes, up, view>>

----------------------------------------------------------------------------
(* The page.                                                               *)

(* Variant with a fault, for FramesEndErrors: frames leave the error.      *)
KeepFftState == UNCHANGED <<running, error>>

(* fft_data: frames show that an error is over.                            *)
ClearStaleError ==
    /\ running' = (running \/ error # None)
    /\ error' = None

(* Variant with a fault, for CaptureExplained: the stream is believed to   *)
(* run once it has answered.                                               *)
AssumeRunning(m) == running' = TRUE /\ error' = m.error

SetFftState(m) == running' = m.running /\ error' = m.error

(* handleFFTData of App                                                    *)
SetLatestFFTData(t) == latest' = t

(* onmessage.  Every frame of a history is passed to setLatestFFTData; the *)
(* last call wins.                                                         *)
Handled(m) ==
    \/ /\ m.type = "init"
       /\ SetFftState(m) /\ active' = m.pass
       /\ UNCHANGED latest
    \/ /\ m.type = "fft_data"
       /\ SetLatestFFTData(m.t)
       /\ ClearStaleError
       /\ UNCHANGED active
    \/ /\ m.type = "fft_history"
       /\ SetLatestFFTData(Last(m.data))
       /\ UNCHANGED <<running, error, active>>
    \/ /\ m.type = "fft_subscribed"
       /\ SetFftState(m)
       /\ UNCHANGED <<latest, active>>
    \/ /\ m.type = "fft_unsubscribed"
       /\ running' = FALSE /\ error' = None
       /\ UNCHANGED <<latest, active>>
    \/ /\ m.type = "fft_error"
       /\ running' = FALSE /\ error' = m.error
       /\ UNCHANGED <<latest, active>>
    \/ /\ m.type \in {"pass_start", "pass_complete"}
       /\ active' = (m.type = "pass_start")
       /\ UNCHANGED <<latest, running, error>>

OnMessage ==
    /\ down # <<>>
    /\ down' = Tail(down)
    /\ Handled(Head(down))
    /\ dirty' = TRUE
    /\ UNCHANGED <<fft, server, state, up, mode, rows, frequency>>

LastProcessed == IF rows = <<>> THEN 0 ELSE Last(rows)

(* Variant with a fault, for RowsInOrder: no look at the timestamp.        *)
AddAnyRow == IF latest = 0 THEN rows ELSE Newest(Append(rows, latest), MAX_HISTORY_ROWS)

(* The effect of a new latestFFTData.                                      *)
AddRow ==
    IF latest \in {0, LastProcessed} THEN rows
    ELSE Newest(Append(rows, latest), MAX_HISTORY_ROWS)

(* The effect of a new frequency.                                          *)
Resubscribe(f) ==
    /\ frequency' = f
    /\ up' = IF f = frequency THEN up ELSE up \o <<"fft_unsubscribe", "fft_subscribe">>
    /\ Len(up') <= 2

Render ==
    /\ dirty
    /\ dirty' = FALSE
    /\ rows' = AddRow
    /\ Resubscribe(GetCurrentFrequency(mode, active))
    /\ UNCHANGED <<fft, server, state, down, latest, running, error, active, mode>>

(* A click on the other tab: rendered at once, with another waterfall that *)
(* starts from the frame rendered last.                                    *)
SwitchTab ==
    /\ mode' = IF mode = "satellite" THEN "sstv-2m" ELSE "satellite"
    /\ rows' = IF rows = <<>> THEN <<>> ELSE <<Last(rows)>>
    /\ Resubscribe(GetCurrentFrequency(mode', active))
    /\ UNCHANGED <<fft, server, state, down, latest, running, error, active, dirty>>

(* The page is loaded again; the server has seen the old connection close, *)
(* which schedules no stop.                                                *)
Reload ==
    /\ LoadPage(InitMessage)
    /\ subscribed' = FALSE
    /\ UNCHANGED <<fft, fftHistoryBuffer, pendingFFTStart, pendingFFTStop, check, state>>

Next ==
    \/ Frame \/ Complaint \/ StreamEnds \/ StopComplete \/ Spawn
    \/ SomebodyTunes \/ StartTimer \/ CheckForError
    \/ Subscribe \/ Unsubscribe \/ StopTimer
    \/ StopForPass \/ StartPass \/ CompletePass
    \/ OnMessage \/ Render \/ SwitchTab \/ Reload

Spec == Init /\ [][Next]_vars

----------------------------------------------------------------------------
(* What the canvas shows.                                                  *)

(* The levels of the rows that count for the scale of WaterfallView.       *)
Measured(levels) == {x \in levels : -150 * Unit < x /\ x < 0}

Larger(a, b) == IF a > b THEN a ELSE b
Smaller(a, b) == IF a < b THEN a ELSE b

(* Variant with a fault, for ScaleIsProper: the margins are taken off.     *)
AutoScaleCut(measuredMin, measuredMax) ==
    LET measured == measuredMin < -10 * Unit /\ measuredMax < 0
        min == IF measured THEN measuredMin + 5 * Unit ELSE -80 * Unit
        max == IF measured THEN measuredMax - 10 * Unit ELSE -40 * Unit
    IN  [min |-> Larger(2 * min, -240 * Unit), max |-> Smaller(2 * max, -20 * Unit)]

(* Ends of the colour scale of WaterfallView, from the smallest and the    *)
(* largest level measured; twice the value, as it halves a sum.            *)
AutoScale(measuredMin, measuredMax) ==
    LET measured == measuredMin < -10 * Unit /\ measuredMax < 0
        min == IF measured THEN measuredMin - 5 * Unit ELSE -80 * Unit
        max == IF measured THEN measuredMax + 10 * Unit ELSE -40 * Unit
        narrow == max - min < 30 * Unit
        lo == IF narrow THEN (min + max) - 40 * Unit ELSE 2 * min
        hi == IF narrow THEN (min + max) + 30 * Unit ELSE 2 * max
    IN  [min |-> Larger(lo, -240 * Unit), max |-> Smaller(hi, -20 * Unit)]

(* The code takes the last 30 of the rows, and the last 20 on the other    *)
(* tab; the scale is proper for any set of rows, which covers both.        *)
WaterfallScale(shown) ==
    AutoScale(Min({0} \cup Measured({MinPower[t] : t \in shown})),
              Max({-150 * Unit} \cup Measured({MaxPower[t] : t \in shown})))

(* The same of SpectrumWaterfall, on the other tab.                        *)
SpectrumAutoScale(refMin, refMax) ==
    LET min == Larger(refMin - 5 * Unit, -110 * Unit)
        max == Smaller(refMax + 5 * Unit, 0)
    IN  IF max - min < 20 * Unit
        THEN [min |-> (min + max) - 30 * Unit, max |-> (min + max) + 30 * Unit]
        ELSE [min |-> 2 * min, max |-> 2 * max]

SpectrumScale(shown) ==
    SpectrumAutoScale(
        Min({-100 * Unit} \cup {x \in {MinPower[t] : t \in shown} : x > -120 * Unit}),
        Max({-20 * Unit} \cup {MaxPower[t] : t \in shown}))

(* drawWaterfall: an error hides everything; a capture is explained when   *)
(* the stream does not run, over the rows if there are any.                *)
Screen ==
    CASE error # None -> "error"
      [] error = None /\ active /\ ~ running -> "capturing"
      [] error = None /\ ~ (active /\ ~ running) ->
           IF rows # <<>> THEN "rows" ELSE IF running THEN "waiting" ELSE "not running"

----------------------------------------------------------------------------
(* Properties.                                                             *)

Rendered == down = <<>> /\ ~ dirty

(* The buffer of the server holds the newest frames of the stream without  *)
(* a gap, also those nobody was subscribed to ("so late joiners get        *)
(* history").                                                              *)
HistoryIsTail ==
    \A i \in DOMAIN fftHistoryBuffer :
        fftHistoryBuffer[i] = clock - Len(fftHistoryBuffer) + i

(* The waterfall never runs backwards nor shows a frame twice, although    *)
(* every subscription sends frames again that the page may have.           *)
RowsInOrder == \A i, j \in DOMAIN rows : i < j => rows[i] < rows[j]

(* When a subscribed page has handled and rendered all that was sent to    *)
(* it, the last row is the newest frame of the server's buffer.            *)
NewestShown ==
    subscribed /\ Rendered /\ fftHistoryBuffer # <<>> =>
        rows # <<>> /\ Last(rows) = Last(fftHistoryBuffer)

(* An error the page shows is not older than the last frame: an error that *)
(* frames have followed was cleared by them, by an answer to a             *)
(* subscription or by the start of the page.                               *)
FramesEndErrors == subscribed /\ Rendered /\ error # None => error = clock

(* During a capture the satellite tab explains why the waterfall stands    *)
(* still, once the page has caught up: what was said of the stream before  *)
(* the pass is not believed any longer.                                    *)
CaptureExplained ==
    capturing /\ Rendered /\ up = <<>> /\ mode = "satellite" =>
        Screen \in {"capturing", "error"}

(* The colour scale has a positive length, for whatever rows: the position *)
(* of a level on it divides by that length.                                *)
ScaleIsProper ==
    LET shown == {rows[i] : i \in DOMAIN rows}
    IN  /\ WaterfallScale(shown).min < WaterfallScale(shown).max
        /\ SpectrumScale(shown).min < SpectrumScale(shown).max
=============================================================================
