# Night Watch: a TLA+ model of the capture station

Night Watch predicts satellite passes, records them with one RTL-SDR receiver,
decodes the recordings and shows all of it on a web dashboard. Almost everything
runs on one Node.js event loop, around external processes (`rtl_sdr`, `rtl_fm`,
`sox`, `rtl_power`, the decoders) and one USB device that only one of them can
hold. The hard part is not any single function but what happens between two
`await`s: an HTTP handler, a timer, a WebSocket message or the close event of an
old process gets in between.

Paths below are relative to `src/src/`.

## The system's parts

| Part | State | Operations | Talks to | Correct when |
|---|---|---|---|---|
| FFT stream `backend/capture/fft-stream.ts` | module-level singleton: process, config, callback, running/starting flags, last stop, latest frame | `startFFTStream`, `stopFFTStream`, frame/exit/close/error events, USB delay, stop timeout, escalation timer | called by scheduler, scanner, server and relay, without mutual exclusion | the status it reports is true, no lock is left set, no process is lost, every call returns |
| Capture loop and scheduler `backend/cli/commands/run.ts`, `backend/scheduler/scheduler.ts` | batch of passes, where the loop waits | predict, wait, stop the FFT, check the signal, record, decode, save | FFT stream, scanner, state manager, database | every pass started is completed; the loop is never stuck |
| State manager `backend/state/state-manager.ts` | status, current pass, upcoming passes, scanning frequency | setters that emit events synchronously | server's listener | the status tells the handlers that a capture is under way |
| Ground SSTV scanner `backend/capture/sstv-scanner.ts`, `backend/satellites/events.ts` | running flag, stop flag, frequency index | dwell, detect, record, stop | state manager, FFT stream | it yields to a pass: a stop request is kept and obeyed |
| Web server `middleware/web/server.ts` | subscribers, debounce and idle-stop timers, gain and band, history of frames | WebSocket messages, `/api/fft/*`, `/api/fft/notch*`, `/api/config/gain`, `/api/sstv/*`, state listener | FFT stream, gain control, pages | it does not use the receiver during a capture; the history has no gap |
| Gain control `middleware/web/auto-gain.ts` | calibration state, gain per band | feed, set, look up | server | no gain leaves the range by itself; final gains are kept |
| SDR relay `sdr-relay/server.ts`, recorder `backend/capture/recorder.ts` | mode, sessions, subscribers | capture start/stop/status/audio, tune, signal check, WebSocket | its own FFT stream; remote clients | it refuses only while something records, and every session completes |
| SDR client `backend/sdr-client/index.ts` | where `recordPass` or `verifySignal` is suspended, attempts and successes | check a signal, start, poll, download | relay, over HTTP | it returns, with audio |
| Capture database `backend/db/database.ts`, maintenance `backend/cli/commands/maintenance.ts` | rows, images, files on disk | save a result, scan, decode again, clean up | two processes on one database and directory | images once and with the right capture; nothing good is deleted |
| TLE cache `backend/satellites/tle.ts` | `cache.json` and its age | `getTles` | CelesTrak; other processes write the same file | a failure never leaves it empty |
| Prediction `backend/prediction/orbit.ts`, `passes.ts` | none | `findPasses`, `refinePassTiming`, `predictPasses`, the filter | TLE cache, capture loop | the passes are those of the elements in use, each once |
| Dashboard `frontend/src/hooks/useWebSocket.ts`, `frontend/src/components/SatelliteTracking.tsx`, `WaterfallView.tsx`, older page `middleware/web/static/app.js` | connection, attempts, what the page shows, selected tab, latest frame, rows of the waterfall, error of the stream | connect, reconnect, handle an event, subscribe to the FFT, render, scale the colours | server, over a WebSocket | it shows the state of the station, also after a reconnection; the waterfall never runs backwards and explains why it stands still |
| Spectrum and notch filters `backend/capture/fft-stream.ts` | list of filters | add, merge, switch, remove, clear; reorder a spectrum, fill the notches | server's requests, every frame | every filter can be addressed; a carrier under a filter is gone |
| Decoders `backend/capture/decoders/*`, signal check `backend/capture/signal.ts`, programs `backend/utils/shell.ts` | none | run a program, read its result | scheduler, maintenance, relay | a failure is not taken for a success |
| Doppler, ground track, configuration, command line | | | | not modelled, see below |

## Modules

| Module | Models |
|---|---|
| `SdrDevice` | the abstract receiver: one holder at a time, released before it is taken again |
| `FftStream` | the FFT stream with any number of concurrent callers and its child processes |
| `Station` | capture loop, scheduler, state manager, scanner and FFT handlers of the web server, composed with `FftStream` (`Fft == INSTANCE FftStream`) |
| `Spectrum` | one frame (order of the bins, notch filters) and the list of filters with its requests |
| `Waterfall` | frames on their way to the eye: the server's history, the messages of a subscribed page, errors of the stream, and the waterfall with its colour scale |
| `GainControl` | auto-gain, the per-band store and the server paths that drive them |
| `SdrRelay`, `RemoteCapture` | the relay, and a remote `verifySignal` and `recordPass` against it (`RemoteCapture` extends `SdrRelay`) |
| `RunCommand`, `Decoders`, `SignalCheck` | pure: what `runCommand` makes of the end of a program, and what the decoders and the signal check make of that; used by `CaptureStore`, `Station` and the instance of `RemoteCapture` |
| `CaptureStore` | recordings, database rows and images, written by the station and by the maintenance process |
| `Prediction` | TLE cache, pass prediction, the filter of passes and the SSTV switch |
| `Dashboard` | a page in a browser, its connections to the server, and the events and FFT subscriptions that travel on them |
| `FftStreamProof`, `StationProof`, `StreamSettingsProof` (of `Spectrum` and `GainControl`), `RemoteCaptureProof`, `CaptureStoreProof`, `PredictionProof`, `DashboardProof`, `WaterfallProof` | theorems and their proofs |
| `MC*` | instances for TLC |

A step is what one call, timer or event does up to its next `await`. A variable
has the name of the program's variable where there is one; `pc`, `sched`, `scan`,
`job`, `stage` and `station` say where an asynchronous function is suspended.
`PROJECT.json` maps every definition to its source lines. Definitions called
"Variant with a fault" belong to no specification: each is a plausible mistake in
the definition after it, and names the property that notices it.

What is abstracted, and why it is enough:

- **Time.** No clock: a timer may fire at any moment after it was armed, subject
  to the order the code enforces. `FftStream` keeps the age of the last stop as
  never/fresh/aging/old, the distinctions `MIN_RESTART_DELAY_MS` makes. `Prediction` has
  real (integer) time, in units of one second with a shorter minute.
- **Processes.** alive, exited, closed; the close event follows the exit event
  but other steps can come between, which is where the races are.
- **Listeners.** `stateManager` emits synchronously, so the server's listener is
  part of the action that emits (`StartPass`, `SetScanningFrequency`).
- **FFT stream in the relay.** Reduced to what the relay reads, changing
  arbitrarily as long as a running stream has a configuration: exactly
  `StatusTruthful` of `FftStream`, which is proved.
- **Rendering.** React renders when messages leave it time, so `Waterfall` handles any
  number of messages before one `Render`; `Dashboard` renders after each, as it looks only
  at states that every message sets anew.
- **Programs.** `rtl_power`, `satdump` and `sstv` are the set of ways they may end
  (`Exits`); what `runCommand`, `checkInstalled` and the callers conclude is computed.
- **Lists of TLEs.** `fetchAllTles` keeps the order of the list it is given and drops what
  could not be fetched, so every list is `SATELLITES` with some elements left out: `Prediction`
  keeps the set, and takes "the first that matches" by the position in `SATELLITES`.
- **Orbits.** An orbit is its windows above the minimum elevation, each with a peak of at most
  90 degrees. `SkiesAssumption` says that two windows of one satellite are more than two
  samples (two minutes) apart. The satellites of `constants.ts` need more than 80 minutes for
  a revolution, so between two passes they are below the horizon for much longer.
- **Data.** Spectra, gains in dB, file contents, elevations: a few values that
  take every branch.

## Runs

Passing runs:

| Run | Instance | Shows |
|---|---|---|
| `fft_concurrent` | 2 callers, 2 frequencies, 2 processes, hung processes and failing spawns | `StatusTruthful`, `LockHeldByAStart`, `StopOwnsItsProcess` in every interleaving; `CallsReturn` under fairness |
| `fft_serial` | 1 caller, nothing fails | `NoOrphan`, `RestartDelay`, and the stream implements `SdrDevice` (`ImplementsSdrDevice`) |
| `station` | 1 pass, ground scans, 1 client with every request, the API, a process that may hang | `StatusShowsCapture`, `ScannerYields`, `ScannerStops`, `PassesComplete` |
| `spectrum` | 8 bins of two levels, 2 centres, lists of up to 2 filters, requests on, beside and outside the bins | `FindsOwn`, `CarrierRemoved` |
| `gain_control` | 2 bands, 3 frequencies, gains 0..2 in steps of 2; `SDR_GAIN` not set, unusable, within and outside the range | `GainInRange`, `NeverRecalibratesFinalGain`, `FinalGainKept` |
| `remote_capture` | own capture with 3 signal checks, another user's capture and any number of others' signal checks, 1 subscriber, failing fetches | `RecordingModeBacked`, `SessionsComplete`, `RecordPassEnds` |
| `capture_store` | 2 passes, a list of 1 recent capture, crashes of both processes | `ImagesBelongToCaptures`, `NoDuplicateImages`, `OnlyFailedDeleted`, `UndecodedIsDecoded` |
| `prediction` | 3 satellites, 17 skies, partial and failing fetches, the SSTV switch | `WindowCovered`, `PassIsReal`, `OwnPassesDisjoint`, `ServesSomething` |
| `dashboard` | 2 connections, 1 further attempt, 1 pass, queues of 2 messages, both kinds of page and both tabs | `ViewIsCurrent`, `SubscriptionsAgree`, `Reconnects`, `WatchedAgain` |
| `waterfall` | 3 frames, history and waterfall of 2 rows, 2 passes, a queue of 2 messages, both tabs, reloads | `HistoryIsTail`, `RowsInOrder`, `NewestShown`, `FramesEndErrors`, `CaptureExplained`, `ScaleIsProper` |

Runs that show a disagreement between the code and what it says of itself:

| Run | Property | What happens |
|---|---|---|
| `fft_race` | `OneProcess` | the close event of the old process clears `isStarting` while a retune sleeps; a second start passes, both spawn, and one `rtl_sdr` is forgotten |
| `station_sharing` | `NoFftDuringRecording` | a debounce timer armed just before `pass_start` starts `rtl_sdr` during the recording |

### Bounds

Two concurrent calls suffice for every race in the FFT stream that involves a
suspended start and a second call; two processes for an old one that ends beside
a new one. (A start that finds every process slot taken is not explored: the
third process of a race needs a second one already forgotten.) `FftStreamProof` removes these
bounds for the safety properties. `Station` has three callers of its own beside
the web's. `RemoteCapture` bounds the number of captures, not their length.
`CaptureStore` has `Limit = 1`, so that the second capture already pushes the first
off the list of recent ones, which takes a thousand in the code. `Prediction` uses a
minute of 4 seconds and sampling at 2, with windows at every offset from a sample,
across the start of the horizon (by less than a sample, by less than the search of
`refineTime` reaches, and by more) and across its end, too short, too long, and two in a row;
`PredictionProof` removes these bounds.
`Dashboard` has two connections, the page's present one and one the server
has not seen the end of, and a queue of two, which one change of frequency fills.
`Waterfall` emits three frames into a history and a waterfall of two rows, so that both
shift, and has two passes, so that what the page believed during the first can be wrong in
the second; it gives each frame the levels that are hardest for the colour scale; a queue of two
holds a history and the answer that follows it. `Spectrum` has eight bins, the fewest
that leave two neighbours on both sides of a notch of several bins, and a merging distance
that is not a multiple of the bin width. `RemoteCapture` checks the signal three times,
as the code does, against scans that are empty, weak and strong.
Symmetry is used only in `fft_race`, a safety run.

### Fairness

Weak fairness is assumed of what Node and the operating system do by themselves:
timers fire, promise continuations run, the close event follows the exit event, a
process that does not hang exits after SIGTERM. In `Station` also that recordings
and decoders end (both have timeouts in the code) and that the time of the pass
comes; in `RemoteCapture` that a request is answered or fails. `CaptureStore`
assumes strong fairness of the steps of `--decode`: the operator runs it again and
again, and neither the unawaited database nor the decoder is always unlucky, also when
the scan found recordings to decode (`FoundLarge`).
In `Dashboard` messages arrive or the connection breaks, the server accepts or the
attempt fails, and a capture that was started ends.
Nothing a client, a user or the operator may do otherwise is ever owed.

### Restrictions a result depends on

- `StatusShowsCapture` says that during a pass only a running scanner can take the
  status away, since the scanner writes the same status; that it does is listed
  below (`SetStatus`).
- `ScannerYields` limits what the scanner does during a pass to the recording it had
  begun; that this recording can overlap the pass's own is listed below (`ScanRecords`).
- `GainInRange` is relative to `SDR_GAIN`, which the server does not check: no gain is
  further outside the range than that. Requests carry numbers, as their types say; the
  gain of `POST /api/fft/start` is not checked and reaches `rtl_sdr` only. A null or a
  text in the other requests is listed below (`PostGain`).
- `RecordingModeBacked` says that the mode "recording" is never left over. The converse
  does not hold and is listed below (`CaptureStart`, `Leave`).
- `CarrierRemoved` is about a single enabled filter whose notch does not reach the first
  or the last bin. Overlapping and adjacent filters leak, since each is filled with the mean
  of bins before any filter was applied, and a notch at the edge has a neighbour on one
  side only (`fft-stream.ts:125`).
- `CaptureExplained` is about a pass that starts with no start of the stream pending
  (`StartPass` of `Waterfall`; the other case is `station_sharing`), and assumes that a page
  has rendered the end of a pass before the stream is spawned again (`PassOver`): the
  debounce of the start and the USB delay leave it more than a second. Without that a page could
  take the frames of the new stream for those of the pass and keep believing that it runs.
- `ScaleIsProper` rests on `PowersAssumption`: the strongest bin of a frame has -120 dB or
  more, as an 8-bit signal has. The scale of `WaterfallView` turns over only if every level
  is below some -130 dB.
- `WindowCovered` and `PassIsReal` speak of the windows of the elements that are in use for
  a satellite. These may be a namesake's (`Matches`, below), and then the passes are the
  namesake's too.
- `WindowCovered`, `PassIsReal` and `OwnPassesDisjoint` rest on `SkiesAssumption` (windows of
  one satellite more than two samples apart) and on a minimum duration of whole samples
  (`DurationAssumption`; 240 s are four). `Catchable` leaves out windows that are within two
  samples of the longest duration or end within one of the horizon: whether those are found
  depends on where the samples fall.
- `LockHeldByAStart` assumes FFT sizes that are powers of two, see below.
- `RecordPassEnds` lets the client ask for less than the relay answers (`minStrength` of
  -25); with the default of -20 no remote signal check succeeds, see below.
- `ViewIsCurrent` and `WatchedAgain` leave out the recordings of the ground scanner
  (`LoopStatuses`): they set `capturing` without a pass, and the older page then shows
  the last pass as the current one. `ViewIsCurrent` also assumes that a capture lasts
  longer than the stop of a stream (2 s at most), or `pass_complete` would overtake
  `pass_start`. `WatchedAgain` is about the satellite tab; see below for the other.
- `NoDuplicateImages` excepts the passes that the maintenance read between the INSERT of
  the row and those of the images (`overlapped`), and `OnlyFailedDeleted` the one recording
  that was in its first 10 KB when the directory was scanned (`underway`). The model has both
  races, and both do harm in it; they are listed below (`FindUndecoded`, `Unlink`).
- `UndecodedIsDecoded` promises nothing for a capture that is no longer among the newest
  `Limit`, nor for images of which a crash saved some (`images` counts how often adding
  began, not how many there are).
- `RestartDelay`, `NoOrphan` and `ImplementsSdrDevice` hold for one call at a time and
  processes that obey SIGTERM. With overlapping calls `fft_race` shows the
  contrary; with a process that ends late, or never, the sleeping start does not see it
  (it computed its delay before) and spawns too early, or beside it.

## Divergences seen while modelling, not kept as runs

Each was confirmed as a counterexample or follows from one action:

- `EscalationTimer`: the escalation tests `!proc.killed`, which is false as soon as
  SIGTERM was sent, so SIGKILL is never sent (`fft-stream.ts:396`).
- `ProcClose` leaves `latestData`, so after a crash of `rtl_sdr` the last frame is
  still served, although the accessor promises null (`fft-stream.ts:363`, `:498`).
- `ScanRecords`: a ground recording does not look at the stop flag, and can go on
  when the pass is captured (`sstv-scanner.ts:162`): two `rtl_fm` are started.
- `SetStatus`: scanner and scheduler write one status. A scan that ends during a pass sets it
  to `idle` or `scanning` (`sstv-scanner.ts:159` on), and the handlers that look at it
  then start the stream beside the recording.
- `StopTail`: a start that spawns at once while another call awaits its stop loses
  `isRunning`, configuration and callback to the end of that stop (`fft-stream.ts:407`): its
  process runs, `isFFTStreamRunning` says no, and the next pass does not stop it.
- `ScanDetects`: a frame of the previous frequency counts for the scanned one
  (`sstv-scanner.ts:90`).
- `CompletePass`: a completed pass is looked up by the start of the recording, not
  by its aos, and stays listed (`state-manager.ts:78`).
- `Disconnect`: only `fft_unsubscribe` schedules the idle stop (`server.ts:482`).
- `Start` of `GainControl`: a new gain never reaches a running receiver, because a
  restart at the same frequency returns at once (`fft-stream.ts:166`).
- `defaultGain`: `SDR_GAIN` is taken as it is (`server.ts:38`). `config.ts:18`,
  `docs/DEPLOYMENT.md:120` and `docker/README.md:74` allow 0 to 50, while the range ends at
  49; `0` or `auto` gives 20 with the calibration off; the default is 20 here, 45 in
  `config.ts`.
- `PostGain`, `FftSetGain`: the checks of a request's gain let null pass (`server.ts:331`,
  `:562`), and the first one text.
- `NeedsCalibration`: the restart after the first adjustment switches calibration
  off (`auto-gain.ts:60`); `FeedWaits`: frames of the old band count for the new one.
- `CaptureStart`: two requests can both pass the check of the mode, and the end of the first
  sets the mode to idle while the second records; `CaptureStop` of a complete session and
  `Leave` of the last subscriber do so too (`sdr-relay/server.ts:337`). `SignalChecked`: the
  FFT is usually not restarted after a signal check, its configuration being gone.
- `LoadCached`: the stale fallback of `getTles` is only reached with a cache that is
  not stale, since `loadCachedTles` returns null for an expired one.
- `Init` and `Render` of `Dashboard`: a page subscribes when it is first rendered, before
  it is connected, and the request is dropped with a warning; it asks again only when
  its frequency changes. Nor does a page that reconnected. The README promises a
  waterfall that survives page refreshes (`README.md:19`).
- `ServerSubscribes`: a subscription for another frequency does not retune a stream that
  runs (`server.ts:509`), so changing the tab leaves the receiver where it was;
  `setFFTFrequency`, which would retune it, is never called.
- `CompletePass`: the server does not restart the stream after a pass, although
  `README.md:114` says so; the page's change of frequency does, on the satellite tab only.
- `Handled`: the React page calls a capture `recording`, the server `capturing`
  (`frontend/src/types/index.ts:1`), so a page that connects during a capture has a
  status its own type does not know.
- `Download`: `GET /sdr/capture/:id` of the relay (`sdr-relay/server.ts:348`) also matches
  `/audio`, and is tried first, so the client saves a JSON status as `.wav`
  (`sdr-client/index.ts:235`).
- `CheckAnswered`: the relay answers -20 or -50 dB by a threshold of its own, and the client
  wants more than `MIN_SIGNAL_STRENGTH`, -20 by default: a remote check never succeeds.
- `SignalChecked`: a check that ends after a capture began starts the FFT during the
  recording, if the configuration is still there.
- `Matches`: the elements of METEOR-M N2-3 are taken for N2-4, by the first eight characters
  of the name, when they come first (`passes.ts:45`), although line 40 calls the NORAD
  number "most reliable".
- `IsSstvActive`: `addEvent` is called by tests only, so events never enable SSTV.
- `ExitCode`: a program that was killed counts as successful (`shell.ts:43`); the images
  of a decoding that was cut short are saved, and it is never repeated.
- `DecodeRecording` from the maintenance does not ask `checkInstalled` first.
- `new FFT(size)` throws for a size that is not a power of two, with `isStarting` set and
  outside the `try` (`fft-stream.ts:191`): a `POST /api/fft/start` with such a size blocks
  every later start.
- `Handled` of `Waterfall`: React sets a state once for all calls within one handler, so of
  an `fft_history` only the last frame reaches the waterfall.
- `StartTimer` of `Waterfall` clears the history before the old process has stopped, which
  may still add frames of the old frequency (`server.ts:628`); `POST /api/fft/start` does not clear it.
- `ClearStaleError`: frames set `running` only if an error was shown; after an answer that
  said the stream was off, the badge says "Offline" while frames arrive.
- `Neighbours`: `width` is half the width of a notch, and a negative one has no effect.
- The status line of the React page knows `recording`, not `capturing` (`App.tsx:131`): a
  page that connects during a capture shows "???" and no progress.
- `HandleMessage`: the older page calls `renderAll` for every `init`, which adds another
  listener to the SSTV switch and another version timer after each reconnection
  (`app.js:100`); `updatePassesList` keeps the next pass when the list is empty.
- The answer to a switch (`POST`) and its broadcast travel apart, and a page applies
  whichever comes last.
- `Unlink`: a recording in its first 10 KB at the scan is deleted at the end of the run,
  however large it is then, although `maintenance.ts:179` calls such a file "definitely failed".
- `FindUndecoded`: what is read between the INSERT of a row and those of its images counts as
  undecoded, and its images are added twice (`maintenance.ts:112`).
- `SaveImages`: a crash between the INSERTs of one `saveImages` leaves some of the images, and
  nothing repairs that: the maintenance looks for captures that have none.
- `findMissingRecordings` is only logged: a recording without a row is never added.

## Proofs

All are checked by TLAPS for every value of the constants that the modules' assumptions
allow. Each inductive invariant was first checked by TLC on the instance of its run.

- **`FftStreamProof`**, any number of callers, processes and frequencies: `TypeCorrect`,
  `StatusIsTruthful`, `LockIsHeldByAStart`, `StopsOwnTheirProcesses`. The invariant
  `IInv` adds to those properties that a current process which was not signalled is
  tuned to the configured frequency with callback and processor (`HeldProcess`),
  that `isRunning` implies a configuration (`RunningConfigured`), and what a
  suspended call has stored (`SuspendedCalls`). `StatusTruthful` alone is not
  inductive: a spawn must know that no stop waits for the new process, and a stop
  that resumes must know that the process it clears is not a new one.
  Assumption: `None` is none of the other values.
  Under `Serial` (one caller, nothing fails) also `NoProcessIsOrphaned`, `RestartIsDelayed`
  and the refinement `StreamImplementsDevice`. They need that at most one process exists
  (`OneProcessExists`), and what each place where the call may be suspended says of that
  process and of the age of the last stop (`CallInOrder`): a start that sleeps has seen its
  old process exit, so nothing renews the stop while it sleeps, and it wakes when the delay
  is over. For the refinement, the frequency of the one living process is the holder of the
  device (`HeldByTheLiving`), and only a spawn and an exit change it.
- **`StationProof`**, any passes, scan frequencies, clients, callers, processes and faults:
  `StationImplementsStream`, the composition theorem: scheduler, scanner, state listener and web
  handlers call the stream only as `FftStream` allows its callers to, so every theorem of
  `FftStreamProof` for any number of callers carries over (`StreamStatusIsTruthful` is one
  such). The step needs an invariant, as the frequency of a debounced start must be one of
  the frequencies when the timer fires, and that of a gain change comes from the
  stream's own state; `StationTypeCorrect` and the refinement are therefore one induction.
  `LoopInv` says that the loop works on the head of the batch and that this is the current
  pass exactly while it is captured; `StatusDoesShowCapture` follows, since every step of
  the loop to another status is taken without a current pass. `ScannerDoesYield` needs
  `LeftOverScan`: a scan that runs beside the loop belongs to the wait the loop is in, or is
  recording or decoding with the request to stop set. `ScannerYields` alone is not inductive,
  since what a wait leaves behind it must also hold between two passes and in the next wait.
- **`StreamSettingsProof`**, the settings of the stream that clients change. Notch filters,
  any merging distance, widths, requests and length of the list: `SpectrumTypeCorrect` and
  `FiltersFindThemselves`. `FindsOwn` is not inductive: that a filter is found first by its
  own frequency does not say what a removal or an addition leaves. The invariant is that any
  two filters are `MergeDistance` apart (`Apart`), which adding, merging, switching and
  removing keep; near one frequency there are then at most two filters, so that the first of
  them exists without an induction over the list. `CarriersAreRemoved`, for any even number
  of bins, any bin width and any levels, is a fact about every state: the reordering puts
  each output of the transform at the bin of its frequency (`BinFrequency`), and the two
  bins a notch is filled from lie outside it, the rounding of both divisions included
  (`NeighboursOutside`).
  Gain, any range, step, number of samples and set of frequencies: `GainStaysInRange`,
  `FinalGainNotRecalibrated`, `FinalGainIsKept`, for any `SDR_GAIN`. The invariant is the
  conjunction of the type, the range (widened to `SDR_GAIN` if that is outside, `Allowed`) and "enabled means the band's gain is not final"; the action property
  follows from the last one.
- **`RemoteCaptureProof`**, any number of sessions, sockets, users and attempts:
  `ModeIsBacked` and `RelayTypeCorrect`; the successes of a verification are fewer than the number of its
  attempt (`CountsAgree`), without which their type is not inductive.
- **`CaptureStoreProof`**, any set of passes and any limit: `ImagesHaveCaptures`,
  `ImagesAreNotDuplicated` and `OnlyFailuresAreDeleted`. The invariant relates the two
  processes: what the station is about to save has a row but no images and is not in the
  hands of the maintenance, and what the maintenance holds has a successful row and no
  images yet, but for the passes it read between the INSERTs (`overlapped`, in `OneAdder`). The
  third theorem adds that a file the maintenance has listed as small is still small and is
  not the one being recorded, unless it was in its first 10 KB at the scan (`SmallStays`). The history variables only record; no action depends on them.
- **`PredictionProof`**, any satellites, horizon, steps, thresholds and orbits that satisfy
  `SkiesAssumption`, and any minimum duration that is a whole number of samples (240 s of 60
  s): `PredictionTypeCorrect`, `WindowsAreCovered`, `PassesAreReal`, `OwnPassesAreDisjoint`,
  `CacheServesSomething`. The state's part is short: `IInv` says that the list of passes is
  always that of the elements last returned, and that neither the cache, nor a call's copy
  of it, nor what is about to be saved is empty. The rest is about what `findPasses` and
  `refineTime` compute. The recursion of the scan is first shown to define a function, for
  any number of samples (`ScanExists`, `FindPassesScans`); then `ScanInv` is shown to hold
  after every sample: while a pass is open its start is the first sample in the window that
  holds the current one (`Begins`), every pass found runs from the first sample in a window
  to the first after it (`Finishes`), and every window that has ended and fits the durations
  has been found. Both are inductions over the number of samples, made without an induction
  rule: the set of counterexamples, if not empty, has a least member, by a well-founded
  order (`LeastNumber`). That windows are two samples apart makes the search of `refineTime`
  stop at its first second (`RefineLos`, `RefineAos`), except before a pass that is under
  way, where it finds the rise or gives up at the time of the prediction; it keeps other
  windows out of the pass when the maximum elevation is taken (`OnlyItsWindow`); and it
  leaves two samples between passes, one of which each may be widened by (`PassesApart`).
- **`DashboardProof`**, any number of connections, attempts and passes and any length of the
  queues: `DashboardTypeCorrect`, `PagesAreCurrent`, `SubscriptionsDoAgree`. `ViewIsCurrent`
  speaks of an empty queue only; the invariant says of every queue that its last message
  about the status tells the right one, or that there is none and the page shows it
  already (`Told`, for the status in `StatusTold` and for the pass in `PassTold`), which a
  pass start that waits for the stream interrupts until it is sent. The older page derives
  the pass from the status (`LegacyView`). `AskedInv` says the same of subscriptions and the
  queue to the server: what is on its way on the open connection ends in what the page asked.
- **`WaterfallProof`**, any sizes of history, waterfall and queues, any number of frames,
  passes, restarts and reloads: `HistoryHasNoGap` (inductive with the type),
  `WaterfallRunsForward`, `NewestIsShown`, `ErrorsAreCleared`, `CaptureIsExplained`,
  `ScalesAreProper`. The properties hold of a page that has caught up; the invariants say what
  the queue holds for one that has not: its frames are in order and not older than the
  latest one shown (`FramesInOrder`), the newest of them is on its way (`NewestComes`), every
  old error is followed by a message that replaces it (`ErrorsEnd`), and so for the start
  and the end of a pass (`PassIsTold`) and for "the stream is off" (`PassExplained`). The
  extremes of a colour scale exist because the levels of the rows are finitely many integers,
  bounded on both sides, so that a well-founded order gives them without an induction over the rows.

Only model-checked: liveness (`CallsReturn`, `ScannerStops`, `PassesComplete`,
`SessionsComplete`, `RecordPassEnds`, `UndecodedIsDecoded`, `Reconnects`, `WatchedAgain`), which
needs fairness and ENABLED. Every invariant and every action property of the passing runs, and
the refinement, is a theorem.

## Not modelled

- `RemoteFFTStream` of the SDR client with its reconnection, and `getSDRProvider`: nothing
  imports `sdr-provider.ts` at this commit. Seen while reading: a late `onclose` of a stream
  that was stopped and started again opens a second socket, and a subscription the relay
  refuses during a recording is only logged and never repeated.
- `startSignalMonitor`, `predictPassesWithDoppler` and `calculateDopplerShift`: called by
  nothing but tests.
- SGP4, ground tracks and the globe's positions, the FFT and its window, the conversion to dB:
  floating-point arithmetic without control. The globe service fetches its elements once,
  at its start, and finds them by the exact name.
- The read-only HTTP endpoints of server and relay, static files, CORS headers,
  configuration, logging, the commands `predict`, `status` and `serve`.
- The presentation of the dashboard: gallery, timeline, diagnostics, countdowns, progress.
- A missing `rtl_fm` or `sox`: spawned without an error listener (`recorder.ts:30`), it ends
  the process.

## Plan

1. Done: FFT stream, station, spectrum and notch filters, gain control, relay with remote
   capture and signal checks, capture store with decoders, prediction, dashboard connection
   and waterfall; their runs; the proofs above.
2. Next: that the relay's stream, as `RemoteCapture` reduces it, is implemented by
   `FftStream` step by step; so far the one fact it rests on, `StatusTruthful`, is proved.
3. Later: a timed schedule of overlapping passes (the scheduler takes them one after another,
   with a 60 s buffer on each side); the remote FFT stream, when something uses it.
