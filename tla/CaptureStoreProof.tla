------------------------- MODULE CaptureStoreProof -------------------------
(***************************************************************************)
(* Proofs about CaptureStore, for any set of passes and any limit of the   *)
(* query for recent captures.                                              *)
(***************************************************************************)
EXTENDS CaptureStore, TLAPS

(* The row of a successful capture.                                        *)
HasCapture(p) == \E i \in DOMAIN captures : captures[i] = [pass |-> p, success |-> TRUE]

(* What the station has under way: a pass it still captures has no row and *)
(* no images, one whose images it saves next has a row.                    *)
StationInv ==
    /\ station # "idle" => current \in Passes
    /\ station \in {"recording", "decoding"} => ~ Saved(current)
    /\ station = "saving" => HasCapture(current)

(* What the maintenance has under way: recordings with a row; one at a     *)
(* time.                                                                   *)
MaintenanceInv ==
    /\ \A p \in undecoded : HasCapture(p)
    /\ maintenance = "adding" => decoding \in Passes \ undecoded /\ HasCapture(decoding)

CInv ==
    /\ TypeOK
    /\ StationInv
    /\ MaintenanceInv
    /\ ImagesBelongToCaptures

----------------------------------------------------------------------------
(* A pass that is listed has a row.                                        *)
LEMMA ListedHasCapture ==
    ASSUME NEW p, Listed(p)
    PROVE  HasCapture(p)
  BY DEF Listed, Recent, HasCapture

LEMMA CaptureIsSaved ==
    ASSUME NEW p \in Passes, HasCapture(p)
    PROVE  Saved(p)
  BY DEF HasCapture, Saved

(* saveCapture adds a row, the one it was called for, and keeps the others. *)
LEMMA SaveCaptureAdds ==
    ASSUME TypeOK, NEW p \in Passes, NEW success \in BOOLEAN, SaveCapture(p, success)
    PROVE  /\ captures' \in Seq(Rows)
           /\ \A q : HasCapture(q) => HasCapture(q)'
           /\ \A q \in Passes : Saved(q)' => Saved(q) \/ q = p
           /\ success => HasCapture(p)'
  <1> DEFINE row == [pass |-> p, success |-> success]
  <1>1. row \in Rows
    BY DEF Rows
  <1>2. /\ captures' = Append(captures, row)
        /\ captures \in Seq(Rows)
    BY DEF TypeOK, SaveCapture
  <1> HIDE DEF row
  <1>3. /\ captures' \in Seq(Rows)
        /\ Len(captures) \in Nat
        /\ DOMAIN captures = 1..Len(captures)
        /\ DOMAIN captures' = 1..(Len(captures) + 1)
        /\ \A i \in 1..Len(captures) : captures'[i] = captures[i]
        /\ captures'[Len(captures) + 1] = row
    BY <1>1, <1>2
  <1>4. \A q : HasCapture(q) => HasCapture(q)'
    <2> SUFFICES ASSUME NEW q, NEW i \in DOMAIN captures,
                        captures[i] = [pass |-> q, success |-> TRUE]
                 PROVE  \E j \in DOMAIN captures' : captures'[j] = [pass |-> q, success |-> TRUE]
      BY DEF HasCapture
    <2>1. i \in 1..Len(captures)
      BY <1>3
    <2>2. captures'[i] = captures[i]
      BY <1>3, <2>1
    <2>3. i \in 1..(Len(captures) + 1)
      <3>1. Len(captures) \in Nat
        BY <1>3
      <3> QED BY <2>1, <3>1
    <2> QED BY <1>3, <2>2, <2>3
  <1>5. \A q \in Passes : Saved(q)' => Saved(q) \/ q = p
    <2> SUFFICES ASSUME NEW q \in Passes, NEW i \in DOMAIN captures', captures'[i].pass = q
                 PROVE  Saved(q) \/ q = p
      BY DEF Saved
    <2>1. CASE i \in 1..Len(captures)
      BY <1>3, <2>1 DEF Saved
    <2>2. CASE i = Len(captures) + 1
      BY <1>3, <2>2 DEF row
    <2> QED BY <1>3, <2>1, <2>2
  <1>6. ASSUME success PROVE HasCapture(p)'
    <2>1. row = [pass |-> p, success |-> TRUE]
      BY <1>6 DEF row
    <2>2. Len(captures) + 1 \in DOMAIN captures'
      BY <1>3
    <2> QED BY <1>3, <2>1, <2>2 DEF HasCapture
  <1> QED BY <1>3, <1>4, <1>5, <1>6

(* Images are added for one pass.                                          *)
LEMMA AddImageAdds ==
    ASSUME TypeOK, NEW p \in Passes, AddImage(p)
    PROVE  /\ images' \in [Passes -> 0..2]
           /\ \A q \in Passes \ {p} : images'[q] = images[q]
           /\ images[p] = 0 => images'[p] = 1
  BY DEF TypeOK, AddImage

----------------------------------------------------------------------------
LEMMA InitCInv == Init => CInv
  <1> SUFFICES ASSUME Init PROVE CInv
    OBVIOUS
  <1>1. TypeOK
    BY DEF Init, TypeOK, Sizes
  <1>2. StationInv /\ MaintenanceInv /\ ImagesBelongToCaptures
    BY DEF Init, StationInv, MaintenanceInv, ImagesBelongToCaptures
  <1> QED BY <1>1, <1>2 DEF CInv

(* A step that leaves the rows alone leaves every fact about them alone.   *)
LEMMA SameRows ==
    ASSUME UNCHANGED captures
    PROVE  \A q : (HasCapture(q)' <=> HasCapture(q)) /\ (Saved(q)' <=> Saved(q))
  BY DEF HasCapture, Saved

(* A step that saves a row for p breaks nothing the maintenance relies on. *)
LEMMA SaveCapturePreserves ==
    ASSUME CInv, NEW p \in Passes, NEW success \in BOOLEAN, SaveCapture(p, success),
           UNCHANGED <<images, maint>>
    PROVE  MaintenanceInv' /\ ImagesBelongToCaptures'
  <1>1. \A q : HasCapture(q) => HasCapture(q)'
    BY SaveCaptureAdds DEF CInv
  <1>2. MaintenanceInv'
    BY <1>1 DEF CInv, MaintenanceInv, maint
  <1>3. \A q \in Passes : images[q] > 0 => HasCapture(q)
    BY DEF CInv, ImagesBelongToCaptures, HasCapture
  <1>4. \A q \in Passes : images'[q] > 0 => HasCapture(q)'
    BY <1>1, <1>3
  <1>5. ImagesBelongToCaptures'
    BY <1>4 DEF ImagesBelongToCaptures, HasCapture
  <1> QED BY <1>2, <1>5

(* Whatever the decoder does, a decoding ends as a failure or a success.   *)
LEMMA DecodingEndsEither ==
    ASSUME RecordingFails \/ DecodingEnds
    PROVE  CaptureFails \/ \E b \in BOOLEAN : CaptureSucceeds(b)
  <1>1. CASE RecordingFails
    BY <1>1 DEF RecordingFails
  <1>2. CASE DecodingEnds
    <2>1. PICK o : CaptureFails \/ CaptureSucceeds(o = "images")
      BY <1>2 DEF DecodingEnds
    <2> QED BY <2>1
  <1> QED BY <1>1, <1>2

LEMMA StationPreservesCInv ==
    ASSUME CInv, Station
    PROVE  CInv'
  <1> USE DEF CInv
  <1>0. \A q \in Passes : images[q] > 0 => HasCapture(q)
    BY DEF ImagesBelongToCaptures, HasCapture
  <1>1. ASSUME NEW p \in Passes, SignalTooWeak(p)
        PROVE  CInv'
    <2>1. SaveCapture(p, FALSE) /\ UNCHANGED <<images, maint>>
      BY <1>1 DEF SignalTooWeak
    <2>2. MaintenanceInv' /\ ImagesBelongToCaptures'
      BY <2>1, SaveCapturePreserves
    <2>3. TypeOK'
      BY <1>1, <2>1, SaveCaptureAdds DEF SignalTooWeak, TypeOK, capture, maint, history
    <2>4. StationInv'
      BY <1>1 DEF SignalTooWeak, StationInv, capture
    <2> QED BY <2>2, <2>3, <2>4
  <1>2. ASSUME NEW p \in Passes, StartRecording(p)
        PROVE  CInv'
    <2>1. TypeOK'
      BY <1>2 DEF StartRecording, TypeOK, Sizes, maint, history
    <2>2. StationInv'
      BY <1>2, SameRows DEF StartRecording, StationInv
    <2>3. MaintenanceInv' /\ ImagesBelongToCaptures'
      BY <1>2, SameRows DEF StartRecording, MaintenanceInv, ImagesBelongToCaptures, maint
    <2> QED BY <2>1, <2>2, <2>3
  <1>3. ASSUME RecordingGrows
        PROVE  CInv'
    <2>1. TypeOK'
      BY <1>3 DEF RecordingGrows, TypeOK, Sizes, capture, maint, history
    <2>2. StationInv' /\ MaintenanceInv' /\ ImagesBelongToCaptures'
      BY <1>3, SameRows
      DEF RecordingGrows, StationInv, MaintenanceInv, ImagesBelongToCaptures, capture, maint
    <2> QED BY <2>1, <2>2
  <1>4. ASSUME RecordingEnds
        PROVE  CInv'
    <2>1. TypeOK'
      BY <1>4 DEF RecordingEnds, TypeOK, disk, maint, history
    <2>2. StationInv' /\ MaintenanceInv' /\ ImagesBelongToCaptures'
      BY <1>4, SameRows
      DEF RecordingEnds, StationInv, MaintenanceInv, ImagesBelongToCaptures, disk, maint
    <2> QED BY <2>1, <2>2
  <1>5. ASSUME CaptureFails
        PROVE  CInv'
    <2>1. current \in Passes
      BY <1>5 DEF CaptureFails, StationInv
    <2>2. SaveCapture(current, FALSE) /\ UNCHANGED <<images, maint>>
      BY <1>5 DEF CaptureFails
    <2>3. MaintenanceInv' /\ ImagesBelongToCaptures'
      BY <2>1, <2>2, SaveCapturePreserves
    <2>4. TypeOK'
      BY <1>5, <2>1, <2>2, SaveCaptureAdds DEF CaptureFails, TypeOK, maint, history
    <2>5. StationInv'
      BY <1>5 DEF CaptureFails, StationInv
    <2> QED BY <2>3, <2>4, <2>5
  <1>6. ASSUME NEW b \in BOOLEAN, CaptureSucceeds(b)
        PROVE  CInv'
    <2>1. current \in Passes
      BY <1>6 DEF CaptureSucceeds, StationInv
    <2>2. SaveCapture(current, TRUE) /\ UNCHANGED <<images, maint>>
      BY <1>6 DEF CaptureSucceeds
    <2>3. MaintenanceInv' /\ ImagesBelongToCaptures'
      BY <2>1, <2>2, SaveCapturePreserves
    <2>4. TypeOK'
      BY <1>6, <2>1, <2>2, SaveCaptureAdds DEF CaptureSucceeds, TypeOK, maint, history
    <2>5. \E i \in DOMAIN captures' : captures'[i] = [pass |-> current, success |-> TRUE]
      BY <2>1, <2>2, SaveCaptureAdds DEF HasCapture
    <2>6. StationInv'
      <3>1. CASE b
        BY <1>6, <2>1, <2>5, <3>1 DEF CaptureSucceeds, StationInv, HasCapture
      <3>2. CASE ~ b
        BY <1>6, <3>2 DEF CaptureSucceeds, StationInv
      <3> QED BY <3>1, <3>2
    <2> QED BY <2>3, <2>4, <2>6
  <1>7. ASSUME SaveImages
        PROVE  CInv'
    <2>1. current \in Passes /\ HasCapture(current)
      BY <1>7 DEF SaveImages, StationInv
    <2>2. /\ images' \in [Passes -> 0..2]
          /\ \A q \in Passes \ {current} : images'[q] = images[q]
      BY <1>7, <2>1, AddImageAdds DEF SaveImages
    <2>3. TypeOK'
      BY <1>7, <2>2 DEF SaveImages, TypeOK, maint, history
    <2>4. StationInv' /\ MaintenanceInv'
      BY <1>7, SameRows DEF SaveImages, StationInv, MaintenanceInv, maint
    <2>5. \A q \in Passes : images'[q] > 0 => HasCapture(q)
      BY <1>0, <2>1, <2>2
    <2>6. ImagesBelongToCaptures'
      BY <1>7, <2>5 DEF SaveImages, ImagesBelongToCaptures, HasCapture
    <2> QED BY <2>3, <2>4, <2>6
  <1>8. ASSUME ResultLost
        PROVE  CInv'
    <2>1. TypeOK'
      BY <1>8 DEF ResultLost, TypeOK, disk, maint, history
    <2>2. StationInv' /\ MaintenanceInv' /\ ImagesBelongToCaptures'
      BY <1>8, SameRows
      DEF ResultLost, StationInv, MaintenanceInv, ImagesBelongToCaptures, disk, maint
    <2> QED BY <2>1, <2>2
  <1> QED BY <1>1, <1>2, <1>3, <1>4, <1>5, <1>6, <1>7, <1>8, DecodingEndsEither DEF Station

LEMMA MaintenancePreservesCInv ==
    ASSUME CInv, Maintenance
    PROVE  CInv'
  <1> USE DEF CInv
  <1>0. \A q \in Passes : images[q] > 0 => HasCapture(q)
    BY DEF ImagesBelongToCaptures, HasCapture
  <1>1. ASSUME NEW opts \in Options, ScanRecordings(opts) \/ ScanFails(opts)
        PROVE  CInv'
    <2>1. scanned' \in [Passes -> Sizes]
      BY <1>1 DEF ScanRecordings, ScanFails, TypeOK, Sizes
    <2>2. underway' \in Passes \cup {None}
      BY <1>1 DEF ScanRecordings, ScanFails, StationInv
    <2>3. TypeOK'
      BY <1>1, <2>1, <2>2 DEF ScanRecordings, ScanFails, Options, TypeOK, disk, capture
    <2>4. StationInv' /\ MaintenanceInv' /\ ImagesBelongToCaptures'
      BY <1>1, SameRows
      DEF ScanRecordings, ScanFails, StationInv, MaintenanceInv, ImagesBelongToCaptures,
          disk, capture
    <2> QED BY <2>3, <2>4
  <1>2. ASSUME DatabaseNotReady \/ BeginCleanup \/ MaintenanceEnds \/ MaintenanceKilled
        PROVE  CInv'
    <2>1. TypeOK'
      BY <1>2 DEF DatabaseNotReady, BeginCleanup, MaintenanceEnds, MaintenanceKilled,
                  TypeOK, disk, capture, history
    <2>2. /\ UNCHANGED <<disk, capture>>
          /\ maintenance' # "adding"
          /\ undecoded' \subseteq undecoded
      BY <1>2 DEF DatabaseNotReady, BeginCleanup, MaintenanceEnds, MaintenanceKilled
    <2>3. StationInv' /\ MaintenanceInv' /\ ImagesBelongToCaptures'
      BY <2>2, SameRows
      DEF StationInv, MaintenanceInv, ImagesBelongToCaptures, disk, capture
    <2> QED BY <2>1, <2>3
  <1>3. ASSUME FindUndecoded
        PROVE  CInv'
    <2>1. undecoded' = {q \in Passes : Undecoded(q)}
      BY <1>3 DEF FindUndecoded
    <2>2. \A q \in undecoded' : q \in Passes /\ HasCapture(q)
      BY <2>1, ListedHasCapture DEF Undecoded
    <2>3. TypeOK'
      BY <1>3, <2>2 DEF FindUndecoded, TypeOK, disk, capture
    <2>4. MaintenanceInv'
      BY <1>3, <2>2, SameRows DEF FindUndecoded, MaintenanceInv, disk
    <2>5. StationInv' /\ ImagesBelongToCaptures'
      BY <1>3, SameRows DEF FindUndecoded, StationInv, ImagesBelongToCaptures, disk, capture
    <2> QED BY <2>3, <2>4, <2>5
  <1>4. ASSUME NEW p \in Passes, DecodeSucceeds(p) \/ DecodeFails(p)
        PROVE  CInv'
    <2>1. TypeOK'
      BY <1>4 DEF DecodeSucceeds, DecodeFails, NextRecording, TypeOK, disk, capture, history
    <2>2. MaintenanceInv'
      BY <1>4, SameRows DEF DecodeSucceeds, DecodeFails, NextRecording, MaintenanceInv, disk
    <2>3. StationInv' /\ ImagesBelongToCaptures'
      BY <1>4, SameRows
      DEF DecodeSucceeds, DecodeFails, NextRecording, StationInv, ImagesBelongToCaptures, disk, capture
    <2> QED BY <2>1, <2>2, <2>3
  <1>5. ASSUME AddImagesToDatabase
        PROVE  CInv'
    <2>1. decoding \in Passes /\ HasCapture(decoding)
      BY <1>5 DEF AddImagesToDatabase, MaintenanceInv
    <2>2. /\ images' \in [Passes -> 0..2]
          /\ \A q \in Passes \ {decoding} : images'[q] = images[q]
      BY <1>5, <2>1, AddImageAdds DEF AddImagesToDatabase, TypeOK
    <2>3. TypeOK'
      BY <1>5, <2>2 DEF AddImagesToDatabase, TypeOK, capture, history
    <2>4. StationInv' /\ MaintenanceInv'
      BY <1>5, SameRows DEF AddImagesToDatabase, StationInv, MaintenanceInv, capture
    <2>5. \A q \in Passes : images'[q] > 0 => HasCapture(q)
      BY <1>0, <2>1, <2>2
    <2>6. ImagesBelongToCaptures'
      BY <1>5, <2>5 DEF AddImagesToDatabase, ImagesBelongToCaptures, HasCapture
    <2> QED BY <2>3, <2>4, <2>6
  <1>6. ASSUME NEW p \in Passes, Unlink(p)
        PROVE  CInv'
    <2>1. TypeOK'
      BY <1>6 DEF Unlink, TypeOK, Sizes, capture, history
    <2>2. StationInv' /\ MaintenanceInv' /\ ImagesBelongToCaptures'
      BY <1>6, SameRows DEF Unlink, StationInv, MaintenanceInv, ImagesBelongToCaptures, capture
    <2> QED BY <2>1, <2>2
  <1>7. ASSUME InitializeDatabase
        PROVE  CInv'
    <2>1. TypeOK'
      BY <1>7 DEF InitializeDatabase, TypeOK, disk, capture, history
    <2>2. StationInv' /\ MaintenanceInv' /\ ImagesBelongToCaptures'
      BY <1>7, SameRows
      DEF InitializeDatabase, StationInv, MaintenanceInv, ImagesBelongToCaptures, disk, capture
    <2> QED BY <2>1, <2>2
  <1> QED BY <1>1, <1>2, <1>3, <1>4, <1>5, <1>6, <1>7 DEF Maintenance

LEMMA StutterPreservesCInv ==
    ASSUME CInv, UNCHANGED vars
    PROVE  CInv'
  BY DEF CInv, TypeOK, StationInv, MaintenanceInv, ImagesBelongToCaptures,
         HasCapture, Saved, vars, disk, capture, maint, history

LEMMA AlwaysCInv == Spec => []CInv
  <1>1. CInv /\ [Next]_vars => CInv'
    BY StationPreservesCInv, MaintenancePreservesCInv, StutterPreservesCInv DEF Next
  <1> QED BY InitCInv, <1>1, PTL DEF Spec

(* Images are attached only to captures that succeeded, whatever the       *)
(* maintenance reads at whatever moment, and with crashes of either        *)
(* process anywhere.                                                       *)
THEOREM ImagesHaveCaptures == Spec => []ImagesBelongToCaptures
  <1>1. CInv => ImagesBelongToCaptures
    BY DEF CInv
  <1> QED BY AlwaysCInv, <1>1, PTL

(* Type correctness.                                                       *)
THEOREM StoreTypeCorrect == Spec => []TypeOK
  <1>1. CInv => TypeOK
    BY DEF CInv
  <1> QED BY AlwaysCInv, <1>1, PTL

----------------------------------------------------------------------------
(* The passes for which the maintenance may still add images.              *)
ToAdd(p) == p \in undecoded \/ (maintenance = "adding" /\ p = decoding)

(* Whoever is about to add the images of a pass is the first and the only  *)
(* one, unless the maintenance read between the two INSERTs of its result. *)
OneAdder ==
    /\ \A p \in Passes : ToAdd(p) => images[p] = 0 \/ p \in overlapped
    /\ station = "saving" =>
          \/ current \in overlapped
          \/ images[current] = 0 /\ ~ ToAdd(current)

DInv == CInv /\ OneAdder /\ NoDuplicateImages

LEMMA StationPreservesOneAdder ==
    ASSUME DInv, Station
    PROVE  (OneAdder /\ NoDuplicateImages)'
  <1> USE DEF DInv
  <1>1. ASSUME UNCHANGED <<images, maint>>, station' # "saving"
        PROVE  (OneAdder /\ NoDuplicateImages)'
    BY <1>1 DEF OneAdder, NoDuplicateImages, ToAdd, maint, history
  <1>2. ASSUME NEW p \in Passes, SignalTooWeak(p) \/ StartRecording(p)
        PROVE  UNCHANGED <<images, maint>> /\ station' # "saving"
    BY <1>2 DEF SignalTooWeak, StartRecording, capture
  <1>3. ASSUME RecordingGrows \/ RecordingEnds \/ CaptureFails \/ ResultLost
        PROVE  UNCHANGED <<images, maint>> /\ station' # "saving"
    BY <1>3 DEF RecordingGrows, RecordingEnds, CaptureFails, ResultLost, capture, disk
  <1>4. ASSUME NEW b \in BOOLEAN, CaptureSucceeds(b)
        PROVE  (OneAdder /\ NoDuplicateImages)'
    <2>1. CASE ~ b
      BY <1>1, <1>4, <2>1 DEF CaptureSucceeds
    <2>2. CASE b
      <3>1. current \in Passes /\ ~ Saved(current)
        BY <1>4 DEF CaptureSucceeds, SaveCapture, CInv, StationInv
      <3>2. ~ HasCapture(current)
        BY <3>1, CaptureIsSaved
      <3>3. images[current] = 0
        BY <3>1, <3>2 DEF CInv, TypeOK, ImagesBelongToCaptures, HasCapture
      <3>4. ~ ToAdd(current)
        BY <3>2 DEF CInv, MaintenanceInv, ToAdd
      <3> QED BY <1>4, <2>2, <3>3, <3>4
              DEF CaptureSucceeds, OneAdder, NoDuplicateImages, ToAdd, maint, history
    <2> QED BY <2>1, <2>2
  <1>5. ASSUME SaveImages
        PROVE  (OneAdder /\ NoDuplicateImages)'
    <2>1. current \in Passes
      BY <1>5 DEF SaveImages, CInv, StationInv
    <2>2. /\ images[current] = 0 => images'[current] = 1
          /\ \A q \in Passes \ {current} : images'[q] = images[q]
      BY <1>5, <2>1, AddImageAdds DEF SaveImages, CInv
    <2>3. CASE current \in overlapped
      BY <1>5, <2>2, <2>3
      DEF SaveImages, OneAdder, NoDuplicateImages, ToAdd, maint, history
    <2>4. CASE images[current] = 0 /\ ~ ToAdd(current)
      BY <1>5, <2>2, <2>4
      DEF SaveImages, OneAdder, NoDuplicateImages, ToAdd, maint, history
    <2> QED BY <1>5, <2>3, <2>4 DEF SaveImages, OneAdder
  <1> QED BY <1>1, <1>2, <1>3, <1>4, <1>5, DecodingEndsEither DEF Station

LEMMA MaintenancePreservesOneAdder ==
    ASSUME DInv, Maintenance
    PROVE  (OneAdder /\ NoDuplicateImages)'
  <1> USE DEF DInv
  <1>1. ASSUME UNCHANGED <<images, capture, overlapped>>,
               \A q \in Passes : ToAdd(q)' => ToAdd(q)
        PROVE  (OneAdder /\ NoDuplicateImages)'
    <2>1. station = "saving" => current \in Passes
      BY DEF CInv, StationInv
    <2> QED BY <1>1, <2>1 DEF OneAdder, NoDuplicateImages, ToAdd, capture
  <1>2. ASSUME NEW opts \in Options, ScanRecordings(opts) \/ ScanFails(opts)
        PROVE  (OneAdder /\ NoDuplicateImages)'
    BY <1>1, <1>2 DEF ScanRecordings, ScanFails, ToAdd, disk
  <1>3. ASSUME DatabaseNotReady \/ BeginCleanup \/ MaintenanceEnds \/ MaintenanceKilled
        PROVE  (OneAdder /\ NoDuplicateImages)'
    BY <1>1, <1>3
    DEF DatabaseNotReady, BeginCleanup, MaintenanceEnds, MaintenanceKilled, ToAdd, disk, history
  <1>4. ASSUME FindUndecoded
        PROVE  (OneAdder /\ NoDuplicateImages)'
    <2>1. /\ maintenance' = "decoding"
          /\ UNCHANGED <<images, station, current>>
          /\ overlapped \subseteq overlapped'
      BY <1>4 DEF FindUndecoded, capture, disk
    <2>2. \A q \in undecoded' : images[q] = 0
      BY <1>4 DEF FindUndecoded, Undecoded
    <2>3. station = "saving" => current \in overlapped' \/ current \notin undecoded'
      BY <1>4 DEF FindUndecoded
    <2>4. station = "saving" => current \in overlapped \/ images[current] = 0
      BY DEF OneAdder
    <2> QED BY <2>1, <2>2, <2>3, <2>4 DEF OneAdder, NoDuplicateImages, ToAdd
  <1>5. ASSUME NEW p \in Passes, DecodeSucceeds(p) \/ DecodeFails(p)
        PROVE  (OneAdder /\ NoDuplicateImages)'
    BY <1>1, <1>5 DEF DecodeSucceeds, DecodeFails, NextRecording, ToAdd, disk, history
  <1>6. ASSUME AddImagesToDatabase
        PROVE  (OneAdder /\ NoDuplicateImages)'
    <2>1. /\ decoding \in Passes \ undecoded
          /\ images[decoding] = 0 \/ decoding \in overlapped
      BY <1>6 DEF AddImagesToDatabase, CInv, MaintenanceInv, OneAdder, ToAdd
    <2>2. /\ images[decoding] = 0 => images'[decoding] \in {0, 1}
          /\ \A q \in Passes \ {decoding} : images'[q] = images[q]
      BY <1>6, <2>1, AddImageAdds DEF AddImagesToDatabase, CInv
    <2>3. station = "saving" => current \in overlapped \/ current \in Passes \ {decoding}
      BY <1>6 DEF AddImagesToDatabase, CInv, StationInv, OneAdder, ToAdd
    <2>4. /\ UNCHANGED <<station, current, overlapped, undecoded>>
          /\ maintenance' = "decoding"
      BY <1>6 DEF AddImagesToDatabase, capture, history
    <2>5. NoDuplicateImages'
      BY <2>1, <2>2, <2>4 DEF NoDuplicateImages
    <2>6. OneAdder'
      BY <2>1, <2>2, <2>3, <2>4 DEF OneAdder, ToAdd
    <2> QED BY <2>5, <2>6
  <1>7. ASSUME NEW p \in Passes, Unlink(p)
        PROVE  (OneAdder /\ NoDuplicateImages)'
    BY <1>1, <1>7 DEF Unlink, ToAdd, history
  <1>8. ASSUME InitializeDatabase
        PROVE  (OneAdder /\ NoDuplicateImages)'
    BY <1>1, <1>8 DEF InitializeDatabase, ToAdd, disk, history
  <1> QED BY <1>2, <1>3, <1>4, <1>5, <1>6, <1>7, <1>8 DEF Maintenance

(* The images of a recording are added at most once, by the station or by  *)
(* the maintenance, through crashes of either, except those of a pass that *)
(* the maintenance read between the two INSERTs of its result.             *)
THEOREM ImagesAreNotDuplicated == Spec => []NoDuplicateImages
  <1>1. Init => DInv
    BY InitCInv DEF Init, DInv, OneAdder, NoDuplicateImages, ToAdd
  <1>2. DInv /\ [Next]_vars => DInv'
    <2> SUFFICES ASSUME DInv, [Next]_vars PROVE DInv'
      OBVIOUS
    <2>1. CInv'
      BY StationPreservesCInv, MaintenancePreservesCInv, StutterPreservesCInv DEF Next, DInv
    <2>2. CASE Station
      BY <2>1, <2>2, StationPreservesOneAdder DEF DInv
    <2>3. CASE Maintenance
      BY <2>1, <2>3, MaintenancePreservesOneAdder DEF DInv
    <2>4. CASE UNCHANGED vars
      BY <2>1, <2>4
      DEF DInv, OneAdder, NoDuplicateImages, ToAdd, vars, disk, capture, maint, history
    <2> QED BY <2>2, <2>3, <2>4 DEF Next
  <1>3. DInv => NoDuplicateImages
    BY DEF DInv
  <1> QED BY <1>1, <1>2, <1>3, PTL DEF Spec

----------------------------------------------------------------------------
(* A recording that the maintenance saw small, but for the one in its      *)
(* first 10 KB then, is as small as ever, and nobody records into it: it   *)
(* was left by a recording that broke off.                                 *)
SmallStays ==
    \A p \in Passes : scanned[p] = "small" /\ p # underway =>
        /\ file[p] = "small"
        /\ station = "recording" => current # p

LEMMA StationPreservesSmallStays ==
    ASSUME CInv, SmallStays, Station
    PROVE  SmallStays'
  <1> USE DEF CInv, TypeOK
  <1>1. ASSUME UNCHANGED <<file, maint>>, station' # "recording"
        PROVE  SmallStays'
    BY <1>1 DEF SmallStays, maint, history
  <1>2. ASSUME NEW p \in Passes, SignalTooWeak(p)
        PROVE  SmallStays'
    BY <1>2 DEF SignalTooWeak, SmallStays, capture, maint, history
  <1>3. ASSUME NEW p \in Passes, StartRecording(p)
        PROVE  SmallStays'
    BY <1>3 DEF StartRecording, SmallStays, maint, history
  <1>4. ASSUME RecordingGrows
        PROVE  SmallStays'
    <2>1. current \in Passes
      BY <1>4 DEF RecordingGrows, StationInv
    <2> QED BY <1>4, <2>1 DEF RecordingGrows, SmallStays, capture, maint, history
  <1>5. ASSUME RecordingEnds \/ CaptureFails \/ SaveImages \/ ResultLost
        PROVE  SmallStays'
    BY <1>1, <1>5 DEF RecordingEnds, CaptureFails, SaveImages, ResultLost, disk
  <1>6. ASSUME NEW b \in BOOLEAN, CaptureSucceeds(b)
        PROVE  SmallStays'
    BY <1>1, <1>6 DEF CaptureSucceeds
  <1> QED BY <1>2, <1>3, <1>4, <1>5, <1>6, DecodingEndsEither DEF Station

LEMMA MaintenancePreservesSmallStays ==
    ASSUME CInv, SmallStays, Maintenance
    PROVE  SmallStays'
  <1> USE DEF CInv, TypeOK
  <1>1. ASSUME UNCHANGED <<file, capture, scanned, underway>>
        PROVE  SmallStays'
    BY <1>1 DEF SmallStays, capture
  <1>2. ASSUME NEW opts \in Options, ScanRecordings(opts)
        PROVE  SmallStays'
    <2>1. station = "recording" /\ file[current] = "small" => underway' = current
      BY <1>2 DEF ScanRecordings
    <2>2. scanned' = file /\ file' = file /\ station' = station /\ current' = current
      BY <1>2 DEF ScanRecordings, disk, capture
    <2> QED BY <2>1, <2>2 DEF SmallStays
  <1>6. ASSUME NEW opts \in Options, ScanFails(opts)
        PROVE  SmallStays'
    BY <1>6 DEF ScanFails, SmallStays
  <1>3. ASSUME NEW p \in Passes, Unlink(p)
        PROVE  SmallStays'
    BY <1>3 DEF Unlink, SmallStays, capture, history
  <1>4. ASSUME NEW p \in Passes, DecodeSucceeds(p) \/ DecodeFails(p)
        PROVE  SmallStays'
    BY <1>1, <1>4 DEF DecodeSucceeds, DecodeFails, disk, history
  <1>5. ASSUME \/ InitializeDatabase \/ DatabaseNotReady \/ FindUndecoded
               \/ AddImagesToDatabase \/ BeginCleanup \/ MaintenanceEnds \/ MaintenanceKilled
        PROVE  SmallStays'
    BY <1>1, <1>5
    DEF InitializeDatabase, DatabaseNotReady, FindUndecoded, AddImagesToDatabase,
        BeginCleanup, MaintenanceEnds, MaintenanceKilled, disk, history
  <1> QED BY <1>2, <1>3, <1>4, <1>5, <1>6 DEF Maintenance

(* A file disappears only by an unlink.                                    *)
LEMMA OnlyUnlinkDeletes ==
    ASSUME CInv, [Next]_vars, NEW p \in Passes, file[p] # "none", file'[p] = "none"
    PROVE  Unlink(p)
  <1> USE DEF CInv, TypeOK
  <1>1. file' # file
    OBVIOUS
  <1>2. ASSUME NEW q \in Passes, StartRecording(q)
        PROVE  FALSE
    BY <1>2 DEF StartRecording
  <1>3. ASSUME RecordingGrows
        PROVE  FALSE
    <2>1. current \in Passes
      BY <1>3 DEF RecordingGrows, StationInv
    <2> QED BY <1>3, <2>1 DEF RecordingGrows
  <1>4. ASSUME NEW q \in Passes, Unlink(q)
        PROVE  Unlink(p)
    <2>1. q = p
      BY <1>1, <1>4 DEF Unlink
    <2> QED BY <1>4, <2>1
  <1>5. ASSUME NEW q \in Passes, SignalTooWeak(q) \/ DecodeSucceeds(q) \/ DecodeFails(q)
        PROVE  FALSE
    BY <1>1, <1>5 DEF SignalTooWeak, DecodeSucceeds, DecodeFails, disk
  <1>6. ASSUME \/ RecordingEnds \/ CaptureFails \/ SaveImages \/ ResultLost
               \/ \E b \in BOOLEAN : CaptureSucceeds(b)
        PROVE  FALSE
    BY <1>1, <1>6
    DEF RecordingEnds, CaptureFails, CaptureSucceeds, SaveImages, ResultLost, disk
  <1>7. ASSUME \/ \E opts \in Options : ScanRecordings(opts) \/ ScanFails(opts)
               \/ InitializeDatabase \/ DatabaseNotReady \/ FindUndecoded
               \/ AddImagesToDatabase \/ BeginCleanup \/ MaintenanceEnds \/ MaintenanceKilled
        PROVE  FALSE
    BY <1>1, <1>7
    DEF ScanRecordings, ScanFails, InitializeDatabase, DatabaseNotReady, FindUndecoded,
        AddImagesToDatabase, BeginCleanup, MaintenanceEnds, MaintenanceKilled, disk
  <1>8. ~ UNCHANGED vars
    BY <1>1 DEF vars, disk
  <1> QED BY <1>2, <1>3, <1>4, <1>5, <1>6, <1>7, <1>8, DecodingEndsEither
          DEF Next, Station, Maintenance

(* The cleanup goes by sizes it read before the decoding, and yet deletes  *)
(* no recording that has more than 10 KB when it is deleted, but for the   *)
(* one that was in its first 10 KB when the directory was scanned.         *)
THEOREM OnlyFailuresAreDeleted == Spec => OnlyFailedDeleted
  <1> DEFINE EInv == CInv /\ SmallStays
             Deletes == \A p \in Passes :
                          file'[p] = "none" => file[p] \in {"none", "small"} \/ p = underway
  <1>1. Init => EInv
    BY InitCInv DEF Init, SmallStays
  <1>2. EInv /\ [Next]_vars => EInv'
    <2> SUFFICES ASSUME EInv, [Next]_vars PROVE EInv'
      OBVIOUS
    <2>1. CInv'
      BY StationPreservesCInv, MaintenancePreservesCInv, StutterPreservesCInv DEF Next
    <2>2. SmallStays'
      <3>1. CASE UNCHANGED vars
        BY <3>1 DEF SmallStays, vars, disk, capture, maint, history
      <3> QED BY <3>1, StationPreservesSmallStays, MaintenancePreservesSmallStays DEF Next
    <2> QED BY <2>1, <2>2
  <1>3. EInv /\ [Next]_vars => [Deletes]_vars
    <2> SUFFICES ASSUME EInv, [Next]_vars,
                        NEW p \in Passes, file'[p] = "none", file[p] # "none", p # underway
                 PROVE  file[p] = "small"
      OBVIOUS
    <2>1. Unlink(p)
      BY OnlyUnlinkDeletes
    <2> QED BY <2>1 DEF Unlink, FailedRecording, SmallStays
  <1>4. Spec => [][Deletes]_vars
    BY <1>1, <1>2, <1>3, PTL DEF Spec
  <1> QED BY <1>4 DEF OnlyFailedDeleted
=============================================================================
