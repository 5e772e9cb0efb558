---------------------------- MODULE CaptureStore ----------------------------
(***************************************************************************)
(* What the station leaves behind: recordings on disk and rows in the      *)
(* SQLite database (db/database.ts), written by the capture of each pass   *)
(* (scheduler/scheduler.ts), and repaired and cleaned up by the maintenance *)
(* command (cli/commands/maintenance.ts), a process of its own that an     *)
(* operator runs while the station goes on.                                *)
(*                                                                         *)
(* A pass stands for its recording file, whose name has the satellite and  *)
(* the second in it, and for its pass_id.  Sizes are "small" (at most      *)
(* 10 KB), "medium" and "large" (at least 1 MB).  Every successful decoding *)
(* of a recording yields the same image paths, so images counts how often  *)
(* adding them began: whoever reads between the INSERTs of one saveImages, *)
(* or after a crash there, finds images.                                   *)
(***************************************************************************)
EXTENDS Decoders, Naturals, Sequences

CONSTANTS
    Passes,
    SignalType,\* of the satellite of each pass
    Limit,     \* getRecentCaptures(1000)
    None

ASSUME LimitAssumption == Limit \in Nat \ {0}
ASSUME SignalAssumption == SignalType \in [Passes -> SignalTypes]
ASSUME NoneAssumption == None \notin Passes

VARIABLES
    file,       \* size of the recording of each pass
    captures,   \* rows of the table captures, in the order of created_at
    images,     \* how often the images of a pass were added, capped at 2
    station,    \* where capturePass is
    current,    \* the pass it captures
    maintenance,\* where runMaintenance is
    database,   \* databaseInstance of the maintenance process
    options,    \* --decode, --cleanup
    scanned,    \* sizes that scanRecordings found
    undecoded,  \* recordings still to decode
    decoding,   \* the one whose images are to be added
    \* history that no action reads
    underway,   \* the recording that was in its first 10 KB at the last scan
    overlapped  \* passes found without images while the station had saved the
                \* row and not yet the images

history == <<underway, overlapped>>
disk == <<file, captures, images>>
capture == <<station, current>>
maint == <<maintenance, database, options, scanned, undecoded, decoding, history>>
vars == <<disk, capture, maint>>

Sizes == {"none", "small", "medium", "large"}
Rows == [pass : Passes, success : BOOLEAN]

TypeOK ==
    /\ file \in [Passes -> Sizes]
    /\ captures \in Seq(Rows)
    /\ images \in [Passes -> 0..2]
    /\ station \in {"idle", "recording", "decoding", "saving"}
    /\ current \in Passes \cup {None}
    /\ maintenance \in {"off", "scanned", "decoding", "adding", "cleaning"}
    /\ database \in {"closed", "open"}
    /\ options \subseteq {"decode", "cleanup"}
    /\ scanned \in [Passes -> Sizes]
    /\ undecoded \subseteq Passes
    /\ decoding \in Passes \cup {None}
    /\ underway \in Passes \cup {None}
    /\ overlapped \subseteq Passes

Init ==
    /\ file = [p \in Passes |-> "none"]
    /\ captures = <<>>
    /\ images = [p \in Passes |-> 0]
    /\ station = "idle"
    /\ current = None
    /\ maintenance = "off"
    /\ database = "closed"
    /\ options = {}
    /\ scanned = [p \in Passes |-> "none"]
    /\ undecoded = {}
    /\ decoding = None
    /\ underway = None
    /\ overlapped = {}

----------------------------------------------------------------------------
(* Queries.                                                                *)

Saved(p) == \E i \in DOMAIN captures : captures[i].pass = p

(* getRecentCaptures(Limit): the newest rows.                              *)
Recent == {captures[i] : i \in {j \in DOMAIN captures : j + Limit > Len(captures)}}

(* Variant with a fault, for ImagesBelongToCaptures: a failed capture is   *)
(* found by its recording, too.                                            *)
ListedThoughFailed(p) == \E row \in Recent : row.pass = p

(* The capture whose recordingPath includes the name of p's recording; a   *)
(* failed capture has no recordingPath.                                    *)
Listed(p) == [pass |-> p, success |-> TRUE] \in Recent

AddImage(p) == images' = [images EXCEPT ![p] = IF @ < 2 THEN @ + 1 ELSE 2]

----------------------------------------------------------------------------
(* The station: capturePass and saveResultToDatabase.                      *)

(* saveCapture; pass_id is UNIQUE.                                         *)
SaveCapture(p, success) ==
    /\ ~ Saved(p)
    /\ captures' = Append(captures, [pass |-> p, success |-> success])

(* The signal is too weak: a row without a recording.                      *)
SignalTooWeak(p) ==
    /\ station = "idle"
    /\ file[p] = "none"
    /\ SaveCapture(p, FALSE)
    /\ UNCHANGED <<file, images, capture, maint>>

(* sox opens the file.                                                     *)
StartRecording(p) ==
    /\ station = "idle"
    /\ file[p] = "none"
    /\ ~ Saved(p)
    /\ station' = "recording"
    /\ current' = p
    /\ file' = [file EXCEPT ![p] = "small"]
    /\ UNCHANGED <<captures, images, maint>>

(* A file that was deleted meanwhile stays deleted.                        *)
RecordingGrows ==
    /\ station = "recording"
    /\ file[current] \in {"small", "medium"}
    /\ file' = [file EXCEPT ![current] = IF @ = "small" THEN "medium" ELSE "large"]
    /\ UNCHANGED <<captures, images, capture, maint>>

RecordingEnds ==
    /\ station = "recording"
    /\ station' = "decoding"
    /\ UNCHANGED <<disk, current, maint>>

(* What is saved when the recording or the decoder has thrown.             *)
CaptureFails ==
    /\ station \in {"recording", "decoding"}
    /\ SaveCapture(current, FALSE)
    /\ station' = "idle"
    /\ current' = None
    /\ UNCHANGED <<file, images, maint>>

(* The decoder has returned; without images the capture is a success too.  *)
CaptureSucceeds(hasImages) ==
    /\ station = "decoding"
    /\ SaveCapture(current, TRUE)
    /\ station' = IF hasImages THEN "saving" ELSE "idle"
    /\ current' = IF hasImages THEN current ELSE None
    /\ UNCHANGED <<file, images, maint>>

(* recordPass threw.                                                       *)
RecordingFails == station = "recording" /\ CaptureFails

(* What may become of a decoding of p's recording: only a large one, that  *)
(* was not deleted meanwhile, has an image in it.                          *)
AttemptsOn(p) == {a \in Attempts : a.image => file[p] = "large"}
Found(p) == file[p] # "none"

(* decodeRecording                                                         *)
DecodingEnds ==
    /\ station = "decoding"
    /\ \E a \in AttemptsOn(current) :
         LET outcome == DecodeRecording(SignalType[current], Found(current), a)
         IN  \/ outcome = "throws" /\ CaptureFails
             \/ outcome # "throws" /\ CaptureSucceeds(outcome = "images")

(* saveImages                                                              *)
SaveImages ==
    /\ station = "saving"
    /\ AddImage(current)
    /\ station' = "idle"
    /\ current' = None
    /\ UNCHANGED <<file, captures, maint>>

(* The process dies, or an INSERT throws, which saveResultToDatabase only  *)
(* logs: the rest of the result is lost.                                   *)
ResultLost ==
    /\ station # "idle"
    /\ station' = "idle"
    /\ current' = None
    /\ UNCHANGED <<disk, maint>>

----------------------------------------------------------------------------
(* The maintenance command.                                                *)

(* --decode, --cleanup or, both, --all; without any it only tells how it   *)
(* is used.                                                                *)
Options == (SUBSET {"decode", "cleanup"}) \ {{}}

(* runMaintenance calls initializeDatabase, which it does not await, and   *)
(* scanRecordings; the sizes are not looked at again.                      *)
ScanRecordings(opts) ==
    /\ maintenance = "off"
    /\ maintenance' = "scanned"
    /\ options' = opts
    /\ scanned' = file
    /\ underway' = IF station = "recording" /\ file[current] = "small" THEN current ELSE None
    /\ UNCHANGED <<disk, capture, database, undecoded, decoding, overlapped>>

(* The directory or a file of it cannot be read: no recording is found.    *)
ScanFails(opts) ==
    /\ maintenance = "off"
    /\ maintenance' = "scanned"
    /\ options' = opts
    /\ scanned' = [p \in Passes |-> "none"]
    /\ underway' = None
    /\ UNCHANGED <<disk, capture, database, undecoded, decoding, overlapped>>

(* initializeDatabase has made the directory.                              *)
InitializeDatabase ==
    /\ maintenance # "off"
    /\ database = "closed"
    /\ database' = "open"
    /\ UNCHANGED <<disk, capture, maintenance, options, scanned, undecoded, decoding, history>>

(* getDatabase throws, which ends the process: nothing is done.            *)
DatabaseNotReady ==
    /\ maintenance = "scanned"
    /\ "decode" \in options
    /\ database = "closed"
    /\ maintenance' = "off"
    /\ UNCHANGED <<disk, capture, database, options, scanned, undecoded, decoding, history>>

(* Variant with a fault, for NoDuplicateImages: whether there are images   *)
(* is not looked at.                                                       *)
AnyListed(p) == scanned[p] = "large" /\ Listed(p)

(* Variant with a fault, for UndecodedIsDecoded: the recordings that are   *)
(* not in the database are decoded instead.                                *)
Missing(p) == scanned[p] = "large" /\ ~ Listed(p)

(* findUndecodedRecordings                                                 *)
Undecoded(p) == scanned[p] = "large" /\ Listed(p) /\ images[p] = 0

FindUndecoded ==
    /\ maintenance = "scanned"
    /\ "decode" \in options
    /\ database = "open"
    /\ undecoded' = {p \in Passes : Undecoded(p)}
    /\ overlapped' = overlapped \cup {p \in undecoded' : station = "saving" /\ p = current}
    /\ maintenance' = "decoding"
    /\ UNCHANGED <<disk, capture, database, options, scanned, decoding, underway>>

(* The loop over the undecoded recordings, in the order of readdir.        *)
NextRecording(p) ==
    /\ maintenance = "decoding"
    /\ p \in undecoded
    /\ undecoded' = undecoded \ {p}

(* decodeRecording of the maintenance, which does not ask whether the      *)
(* decoder is installed ...                                                *)
DecodeSucceeds(p) ==
    /\ NextRecording(p)
    /\ \E a \in AttemptsOn(p) : Decode(SignalType[p], Found(p), a) = "images"
    /\ decoding' = p
    /\ maintenance' = "adding"
    /\ UNCHANGED <<disk, capture, database, options, scanned, history>>

(* (an exception is caught)                                                *)
DecodeFails(p) ==
    /\ NextRecording(p)
    /\ \E a \in AttemptsOn(p) : Decode(SignalType[p], Found(p), a) # "images"
    /\ UNCHANGED <<disk, capture, database, maintenance, options, scanned, decoding,
                   history>>

(* ... and addImagesToDatabase, which looks the capture up again.          *)
AddImagesToDatabase ==
    /\ maintenance = "adding"
    /\ IF Listed(decoding) THEN AddImage(decoding) ELSE UNCHANGED images
    /\ decoding' = None
    /\ maintenance' = "decoding"
    /\ UNCHANGED <<file, captures, capture, database, options, scanned, undecoded, history>>

(* The decoding is over or was not asked for.                              *)
BeginCleanup ==
    /\ "cleanup" \in options
    /\ \/ maintenance = "scanned" /\ "decode" \notin options
       \/ maintenance = "decoding" /\ undecoded = {}
    /\ maintenance' = "cleaning"
    /\ UNCHANGED <<disk, capture, database, options, scanned, undecoded, decoding, history>>

(* Variant with a fault, for OnlyFailedDeleted: everything too small to    *)
(* decode is deleted.                                                      *)
TooSmall(size) == size \in {"small", "medium"}

FailedRecording(size) == size = "small"

(* cleanupFailedRecordings: unlink one of them; it may fail.               *)
Unlink(p) ==
    /\ maintenance = "cleaning"
    /\ FailedRecording(scanned[p])
    /\ scanned' = [scanned EXCEPT ![p] = "none"]
    /\ file' \in {file, [file EXCEPT ![p] = "none"]}
    /\ UNCHANGED <<captures, images, capture, maintenance, database, options, undecoded,
                   decoding, history>>

MaintenanceEnds ==
    /\ \/ /\ maintenance = "decoding"
          /\ undecoded = {}
          /\ "cleanup" \notin options
       \/ /\ maintenance = "cleaning"
          /\ \A p \in Passes : ~ FailedRecording(scanned[p])
    /\ maintenance' = "off"
    /\ database' = "closed"
    /\ UNCHANGED <<disk, capture, options, scanned, undecoded, decoding, history>>

(* The operator or a crash ends the maintenance process.                   *)
MaintenanceKilled ==
    /\ maintenance # "off"
    /\ maintenance' = "off"
    /\ database' = "closed"
    /\ undecoded' = {}
    /\ decoding' = None
    /\ UNCHANGED <<disk, capture, options, scanned, history>>

----------------------------------------------------------------------------
Station ==
    \/ \E p \in Passes : SignalTooWeak(p) \/ StartRecording(p)
    \/ RecordingGrows \/ RecordingEnds \/ RecordingFails \/ DecodingEnds
    \/ SaveImages \/ ResultLost

Maintenance ==
    \/ \E opts \in Options : ScanRecordings(opts) \/ ScanFails(opts)
    \/ InitializeDatabase \/ DatabaseNotReady \/ FindUndecoded
    \/ \E p \in Passes : DecodeSucceeds(p) \/ DecodeFails(p)
    \/ AddImagesToDatabase \/ BeginCleanup \/ MaintenanceEnds \/ MaintenanceKilled
    \/ \E p \in Passes : Unlink(p)

Next == Station \/ Maintenance

Spec == Init /\ [][Next]_vars

(* The present run of the maintenance has found something to decode.       *)
FoundLarge == "decode" \in options /\ \E p \in Passes : scanned[p] = "large"

(* Recordings end, and the maintenance goes on.  The operator runs --decode *)
(* again and again, is not always unlucky with the scan and the database,  *)
(* and the decoder succeeds on a good recording in the end.                *)
Fairness ==
    /\ WF_vars(RecordingEnds) /\ WF_vars(SaveImages)
    /\ WF_vars(FindUndecoded \/ DatabaseNotReady)
    /\ WF_vars(BeginCleanup) /\ WF_vars(MaintenanceEnds)
    /\ \A p \in Passes : WF_vars(Unlink(p)) /\ WF_vars(DecodeFails(p))
    /\ SF_vars(ScanRecordings({"decode"}))
    /\ SF_vars(FoundLarge /\ InitializeDatabase) /\ SF_vars(FoundLarge /\ FindUndecoded)
    /\ SF_vars(AddImagesToDatabase)
    /\ \A p \in Passes : SF_vars(DecodeSucceeds(p))

FairSpec == Spec /\ Fairness

----------------------------------------------------------------------------
(* Images are attached only to a capture that succeeded, although the      *)
(* maintenance works from sizes and rows it read long before.              *)
ImagesBelongToCaptures ==
    \A p \in Passes : images[p] > 0 =>
        \E i \in DOMAIN captures : captures[i] = [pass |-> p, success |-> TRUE]

(* The images of a recording are never added twice, through crashes        *)
(* between the two INSERTs and repeated maintenance, except for a pass     *)
(* that the maintenance found without images while the station was between *)
(* those INSERTs.                                                          *)
NoDuplicateImages == \A p \in Passes : images[p] <= 1 \/ p \in overlapped

(* The cleanup goes by sizes from before the decoding, while the station   *)
(* records, crashes and starts again.  It deletes only what is at most     *)
(* 10 KB when it is deleted, with one exception: the recording that was in *)
(* its first 10 KB at the scan, of which there is at most one, and which   *)
(* it deletes however large it has become.                                 *)
OnlyFailedDeleted ==
    [][\A p \in Passes :
         file'[p] = "none" => file[p] \in {"none", "small"} \/ p = underway]_vars

(* Maintenance repairs what a crash left: a recording that has a row but   *)
(* no images gets them, as long as its row is among the newest Limit and   *)
(* a cleanup that saw its first 10 KB does not delete it.                  *)
UndecodedIsDecoded ==
    \A p \in Passes :
        Listed(p) /\ file[p] = "large" /\ images[p] = 0
            ~> images[p] > 0 \/ ~ Listed(p) \/ (file[p] = "none" /\ p = underway)
=============================================================================
