------------------------------ MODULE Spectrum ------------------------------
(***************************************************************************)
(* What fft-stream.ts makes of one spectrum: the output of the transform   *)
(* put in the order of frequency, the notch filters applied, the extremes  *)
(* taken again; and the list of notch filters, changed by the requests of  *)
(* web/server.ts while frames are emitted.                                 *)
(*                                                                         *)
(* Frequencies are integers in a unit of which BinWidth make a bin.        *)
(* Levels are integers; a level of a frame is twice the level, as a notch  *)
(* is filled with the mean of two.  The average over time, which comes     *)
(* between the order and the filters, is taken bin by bin and left out.    *)
(***************************************************************************)
EXTENDS Integers, Sequences, SequencesExt, FiniteSetsExt

CONSTANTS
    fftSize,        \* bins of a spectrum
    BinWidth,       \* SAMPLE_RATE / fftSize
    Levels,
    Centres,        \* frequencies the stream may be tuned to
    Requests,       \* frequencies in requests; 0: none given
    Widths,         \* widths in requests; 0: none given
    DefaultWidth,   \* 5 kHz
    KnownFrequency, KnownWidth, \* defaultNotchFilters: 144.42 MHz, 10 kHz
    MergeDistance,  \* 1 kHz
    MaxFilters      \* bound: length of the list

ASSUME SizeAssumption ==
    /\ fftSize \in Nat \ {0} /\ fftSize % 2 = 0
    /\ BinWidth \in Nat \ {0}
ASSUME LevelsAssumption == Levels \subseteq Int
ASSUME FiltersAssumption ==
    /\ Centres \subseteq Int /\ Requests \subseteq Int /\ Widths \subseteq Int
    /\ {DefaultWidth, KnownFrequency, KnownWidth} \subseteq Int
    /\ MergeDistance \in Nat \ {0} /\ MaxFilters \in Nat \ {0}

VARIABLES
    centre,         \* currentConfig.frequency
    notchFilters

vars == <<centre, notchFilters>>

Bins == 0..(fftSize - 1)
Spectra == [Bins -> Levels]
NotchFilter == [frequency : Int, width : Int, enabled : BOOLEAN]

TypeOK ==
    /\ centre \in Centres
    /\ notchFilters \in Seq(NotchFilter)
    /\ Len(notchFilters) <= MaxFilters

----------------------------------------------------------------------------
(* The list of filters.                                                    *)

Distance(a, b) == IF a >= b THEN a - b ELSE b - a

Near(list, f) == {i \in DOMAIN list : Distance(list[i].frequency, f) < MergeDistance}

(* find: the first filter near a frequency.                                *)
Find(list, f) == CHOOSE i \in Near(list, f) : \A j \in Near(list, f) : i <= j

(* Variant with a fault, for FindsOwn: only the very frequency is known.   *)
AddNotchFilterExact(list, f, w) ==
    IF \E i \in DOMAIN list : list[i].frequency = f THEN list
    ELSE Append(list, [frequency |-> f, width |-> w, enabled |-> TRUE])

(* addNotchFilter: a filter that is near is changed, but stays where it is.*)
AddNotchFilter(list, f, w) ==
    IF Near(list, f) # {}
    THEN [list EXCEPT ![Find(list, f)].width = w, ![Find(list, f)].enabled = TRUE]
    ELSE Append(list, [frequency |-> f, width |-> w, enabled |-> TRUE])

(* removeNotchFilter and setNotchFilterEnabled; without a filter that is   *)
(* near they return false.                                                 *)
RemoveNotchFilter(list, f) ==
    IF Near(list, f) # {} THEN RemoveAt(list, Find(list, f)) ELSE list

SetNotchFilterEnabled(list, f, e) ==
    IF Near(list, f) # {} THEN [list EXCEPT ![Find(list, f)].enabled = e] ELSE list

(* startWebServer has added the filter for known interference.             *)
Init ==
    /\ centre \in Centres
    /\ notchFilters = AddNotchFilter(<<>>, KnownFrequency, KnownWidth)

----------------------------------------------------------------------------
(* Requests; one without a frequency is refused.                           *)

(* POST /api/fft/notch                                                     *)
PostNotch(f, w) ==
    /\ f # 0
    /\ notchFilters' = AddNotchFilter(notchFilters, f, IF w = 0 THEN DefaultWidth ELSE w)
    /\ Len(notchFilters') <= MaxFilters
    /\ UNCHANGED centre

(* DELETE /api/fft/notch                                                   *)
DeleteNotch(f) ==
    /\ f # 0
    /\ notchFilters' = RemoveNotchFilter(notchFilters, f)
    /\ UNCHANGED centre

(* POST /api/fft/notch/toggle                                              *)
ToggleNotch(f, e) ==
    /\ f # 0
    /\ notchFilters' = SetNotchFilterEnabled(notchFilters, f, e)
    /\ UNCHANGED centre

ClearNotchFilters == <<>>

(* POST /api/fft/notch/clear                                               *)
ClearNotch ==
    /\ notchFilters' = ClearNotchFilters
    /\ UNCHANGED centre

(* The stream is started at another frequency; the filters stay.           *)
Retune(f) ==
    /\ centre' = f
    /\ UNCHANGED notchFilters

Next ==
    \/ \E f \in Requests :
         \/ \E w \in Widths : PostNotch(f, w)
         \/ DeleteNotch(f)
         \/ \E e \in BOOLEAN : ToggleNotch(f, e)
    \/ ClearNotch
    \/ \E f \in Centres : Retune(f)

Spec == Init /\ [][Next]_vars

----------------------------------------------------------------------------
(* One frame.                                                              *)

(* Variant with a fault, for CarrierRemoved: the order of the transform.   *)
Unordered(spectrum) == spectrum

(* computePowerSpectrum: the upper half of the transform are the negative  *)
(* frequencies.                                                            *)
Reordered(spectrum) ==
    LET halfSize == fftSize \div 2
    IN  [i \in Bins |-> IF i < halfSize THEN spectrum[i + halfSize]
                        ELSE spectrum[i - halfSize]]

startFreq == centre - (fftSize * BinWidth) \div 2

Notch(filter) ==
    {i \in Bins : Distance(startFreq + i * BinWidth, filter.frequency) <= filter.width}

(* What fills a notch: two bins before it and two after it, or the first   *)
(* and the last bin.                                                       *)
Neighbours(filter, bins) ==
    LET left  == (filter.frequency - filter.width - startFreq) \div BinWidth - 2
        right == -((startFreq - filter.frequency - filter.width) \div BinWidth) + 2
    IN  bins[Max({0, left})] + bins[Min({fftSize - 1, right})]

(* The enabled filters that replace a bin, of which the last one stays.    *)
Covering(i) ==
    {k \in DOMAIN notchFilters : notchFilters[k].enabled /\ i \in Notch(notchFilters[k])}

(* applyNotchFilters                                                       *)
ApplyNotchFilters(bins) ==
    [i \in Bins |-> IF Covering(i) = {} THEN 2 * bins[i]
                    ELSE Neighbours(notchFilters[Max(Covering(i))], bins)]

(* The frame made of the output of a transform.                            *)
Frame(spectrum) == ApplyNotchFilters(Reordered(spectrum))

----------------------------------------------------------------------------
(* Properties.                                                             *)

(* The filter a request finds by a frequency the list shows is the filter  *)
(* of that frequency: the list never holds two filters so near that        *)
(* removing or switching one of them hits the other.                       *)
FindsOwn == \A i \in DOMAIN notchFilters : Find(notchFilters, notchFilters[i].frequency) = i

(* Frequency of the k-th output of the transform.                          *)
PhysicalFrequency(k) == centre + (IF k < fftSize \div 2 THEN k ELSE k - fftSize) * BinWidth

Enabled == {k \in DOMAIN notchFilters : notchFilters[k].enabled}

(* A notch leaves a neighbour on both sides.                               *)
Inner(filter) == Notch(filter) \cap {0, fftSize - 1} = {}

(* With one filter enabled, nothing of what is received at frequencies     *)
(* within its width shows in a frame, unless the notch reaches the edge    *)
(* of the spectrum: the frame is the same as if nothing had been received  *)
(* there.  What is received elsewhere is in the frame as it is.            *)
CarrierRemoved ==
    \A k \in Enabled :
        Enabled = {k} /\ Inner(notchFilters[k]) =>
            \A s \in Spectra :
                LET filter == notchFilters[k]
                    hit(n) == Distance(PhysicalFrequency(n), filter.frequency) <= filter.width
                    silence == CHOOSE l \in Levels : TRUE
                    position(n) == (n + fftSize \div 2) % fftSize
                IN  /\ Frame(s) = Frame([n \in Bins |-> IF hit(n) THEN silence ELSE s[n]])
                    /\ \A n \in Bins : ~ hit(n) => Frame(s)[position(n)] = 2 * s[n]
=============================================================================
