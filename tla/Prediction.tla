----------------------------- MODULE Prediction -----------------------------
(***************************************************************************)
(* From orbital elements to the list of passes: the TLE cache              *)
(* (satellites/tle.ts), the prediction of passes (prediction/orbit.ts and  *)
(* prediction/passes.ts) and the part of the capture loop                  *)
(* (cli/commands/run.ts) that asks for them.  The cache is a file shared   *)
(* with the globe service and with the predict commands in processes of    *)
(* their own, which call getTles for other lists of satellites.            *)
(*                                                                         *)
(* An orbit is the set of windows during which the satellite is above      *)
(* minElevation; within a window the elevation rises and falls.  Step is   *)
(* the 60 s of findPasses in units of the 1 s of refinePassTiming.  SGP4   *)
(* itself (and elements it cannot propagate), formatting and Doppler are   *)
(* left out.                                                               *)
(*                                                                         *)
(* Every list of satellites or TLEs is SATELLITES with some of its         *)
(* elements left out, in its order, and is the set of what it holds.       *)
(***************************************************************************)
EXTENDS Integers, FiniteSets

CONSTANTS
    Satellites,      \* SATELLITES, in order
    EventBased,      \* those captured only while SSTV is enabled
    Family,          \* the first eight characters of each satellite's name
    None,
    maxAge,          \* TLE_UPDATE_INTERVAL_HOURS
    Skies,           \* what the orbits of the satellites may be
    Step, MinDuration, MaxDuration, Horizon,
    Fine,            \* the 10 s between the samples of the maximum elevation
    High, Long       \* 40 degrees and 360 s of filterHighQualityPasses

Sats == {Satellites[i] : i \in DOMAIN Satellites}

(* Each window of an orbit has its peak, in degrees above minElevation,    *)
(* and two are further apart than two samples: a revolution takes more     *)
(* than 80 minutes.                                                        *)
IsOrbit(o) ==
    /\ \A w \in o : w \in [rise : Int, set : Int, peak : 1..90] /\ w.rise <= w.set
    /\ \A v, w \in o : v # w => v.set + 2 * Step < w.rise \/ w.set + 2 * Step < v.rise

ASSUME StepAssumption == {Step, Fine} \subseteq Nat \ {0} /\ Horizon \in Nat /\ maxAge \in Nat
ASSUME DurationAssumption ==    \* 240 s are four samples of 60 s
    MinDuration \in Nat \ {0} /\ MinDuration % Step = 0 /\ MaxDuration \in Nat
ASSUME QualityAssumption == High \in Int /\ Long \in Int
ASSUME SatellitesAssumption ==
    /\ DOMAIN Satellites \subseteq Nat
    /\ \A i, j \in DOMAIN Satellites : Satellites[i] = Satellites[j] => i = j
ASSUME NoneAssumption == \A list \in SUBSET Sats : list # None
ASSUME SkiesAssumption == \A sky \in Skies, s \in Sats : IsOrbit(sky[s])

VARIABLES
    orbit,       \* of each satellite
    manualSstvEnabled,
    cache,       \* cache.json: its TLEs and their age in hours
    stage,       \* where getTles is suspended
    wanted,      \* the satellites it was called for
    cached,      \* what loadCachedTles returned to it
    fresh,       \* what fetchAllTles returned to it
    tles,        \* what the last getTles returned
    targets,     \* the satellites it was for
    passes       \* what predictPasses made of it

call == <<stage, wanted, cached, fresh>>
vars == <<orbit, manualSstvEnabled, cache, call, tles, targets, passes>>

Ages == 0..(maxAge + 1)
Times == (0 - 3 * Step)..(Horizon + 3 * Step)

TypeOK ==
    /\ orbit \in Skies
    /\ manualSstvEnabled \in BOOLEAN
    /\ cache = None \/ cache \in [tles : SUBSET Sats, age : Ages]
    /\ stage \in {"idle", "fetching", "saving"}
    /\ wanted \subseteq Sats
    /\ cached = None \/ cached \subseteq Sats
    /\ fresh \subseteq Sats
    /\ tles # None /\ tles \subseteq Sats
    /\ targets \subseteq Sats
    /\ \A p \in passes : {p.sat, p.tle} \subseteq Sats /\ {p.aos, p.los} \subseteq Times

Init ==
    /\ orbit \in Skies
    /\ manualSstvEnabled = FALSE
    /\ cache = None
    /\ stage = "idle"
    /\ wanted = {}
    /\ cached = None
    /\ fresh = {}
    /\ tles = {}
    /\ targets = {}
    /\ passes = {}

----------------------------------------------------------------------------
(* findPasses and refinePassTiming for the orbit o.                        *)

Above(o, t) == \E w \in o : w.rise <= t /\ t <= w.set

(* Degrees above minElevation.                                             *)
Elevation(o, t) ==
    IF ~ Above(o, t) THEN 0
    ELSE LET w == CHOOSE v \in o : v.rise <= t /\ t <= v.set
             h == 1 + (IF t - w.rise < w.set - t THEN t - w.rise ELSE w.set - t)
         IN  IF h < w.peak THEN h ELSE w.peak

(* Variant with a fault, for OwnPassesDisjoint: the end of a pass does not *)
(* reset inPass and passStart.                                             *)
SampledKeepsPass(o, st, t) ==
    LET duration == t - st.start
    IN  CASE Above(o, t) /\ ~ st.inPass -> [st EXCEPT !.inPass = TRUE, !.start = t]
          [] ~ Above(o, t) /\ st.inPass ->
               [st EXCEPT !.found =
                  IF MinDuration <= duration /\ duration <= MaxDuration
                  THEN @ \cup {[aos |-> st.start, los |-> t]} ELSE @]
          [] OTHER -> st

(* One sample of the loop.                                                 *)
Sampled(o, st, t) ==
    LET duration == t - st.start
    IN  CASE Above(o, t) /\ ~ st.inPass -> [st EXCEPT !.inPass = TRUE, !.start = t]
          [] ~ Above(o, t) /\ st.inPass ->
               [inPass |-> FALSE, start |-> 0,
                found |-> IF MinDuration <= duration /\ duration <= MaxDuration
                          THEN st.found \cup {[aos |-> st.start, los |-> t]}
                          ELSE st.found]
          [] OTHER -> st

FindPasses(o) ==
    LET scan[n \in 0..(Horizon \div Step + 1)] ==    \* after n samples
          IF n = 0 THEN [inPass |-> FALSE, start |-> 0, found |-> {}]
                   ELSE Sampled(o, scan[n - 1], (n - 1) * Step)
    IN  scan[Horizon \div Step + 1].found

(* Variant with a fault, for WindowCovered: the search starts at the       *)
(* approximate time itself.                                                *)
RefineTimeInside(o, approximate, dir) ==
    LET below == {k \in 0..(2 * Step - 1) : ~ Above(o, approximate + dir * k)}
    IN  IF below = {} THEN approximate
        ELSE LET k == CHOOSE j \in below : \A i \in below : j <= i
             IN  approximate + dir * k - dir * Step

(* Variant with a fault, for PassIsReal: the search starts two steps       *)
(* outside.                                                                *)
RefineTimeFarOutside(o, approximate, dir) == approximate + dir * (2 * Step - 1)

(* From a minute outside the approximate time, on to the first second that *)
(* is not above, and one back.                                             *)
RefineTime(o, approximate, dir) ==
    LET below == {k \in 0..(2 * Step - 1) : ~ Above(o, approximate + dir * (Step + k))}
    IN  IF below = {} THEN approximate
        ELSE LET k == CHOOSE j \in below : \A i \in below : j <= i
             IN  approximate + dir * (Step + k - 1)

MaxElevation(o, aos, los) ==
    LET samples == {Elevation(o, aos + i * Fine) : i \in 0..((los - aos) \div Fine)}
    IN  CHOOSE e \in samples : \A d \in samples : d <= e

RefinePassTiming(o, pass) ==
    LET aos == RefineTime(o, pass.aos, -1)
        los == RefineTime(o, pass.los, 1)
    IN  [aos |-> aos, los |-> los, maxElevation |-> MaxElevation(o, aos, los)]

----------------------------------------------------------------------------
(* predictPasses                                                           *)

(* The TLE of t is taken for the satellite s: by name or NORAD id, or by   *)
(* the first eight characters of the name.                                 *)
Matches(t, s) == t = s \/ Family[t] = Family[s]

(* tles.find: the first that matches.                                      *)
TleFor(s, list) ==
    LET hits == {i \in DOMAIN Satellites : Satellites[i] \in list /\ Matches(Satellites[i], s)}
    IN  IF hits = {} THEN None
        ELSE Satellites[CHOOSE i \in hits : \A j \in hits : i <= j]

PredictPasses(active, list) ==
    UNION {LET t == TleFor(s, list)
           IN  IF t = None THEN {}
               ELSE {[sat |-> s, tle |-> t, aos |-> r.aos, los |-> r.los,
                      maxElevation |-> r.maxElevation] :
                     r \in {RefinePassTiming(orbit[t], p) : p \in FindPasses(orbit[t])}} :
           s \in active}

FilterHighQualityPasses(found) ==
    {p \in found : p.maxElevation >= High \/ (p.maxElevation > 0 /\ p.los - p.aos >= Long)}

(* The passes that go to the scheduler.                                    *)
Captured == FilterHighQualityPasses(passes)

----------------------------------------------------------------------------
(* getTles, called by the capture loop.                                    *)

(* No event is ever added, so the switch alone decides.                    *)
IsSstvActive == manualSstvEnabled

Active == {s \in Sats : s \notin EventBased \/ IsSstvActive}

LoadCached ==
    IF cache = None \/ cache.age > maxAge THEN None ELSE cache.tles

(* The cache is valid if it has as many TLEs as are wanted.                *)
CacheIsValid ==
    IF LoadCached = None THEN FALSE ELSE Cardinality(LoadCached) = Cardinality(Active)

(* getTles for the satellites asked returns list, and the loop predicts.   *)
Return(asked, list) ==
    /\ tles' = list
    /\ targets' = asked
    /\ passes' = PredictPasses(asked, list)

(* The call is over, with a result or an exception.                        *)
Ends ==
    /\ stage' = "idle"
    /\ wanted' = {}
    /\ cached' = None
    /\ fresh' = {}

ServeFromCache ==
    /\ stage = "idle"
    /\ CacheIsValid
    /\ Return(Active, LoadCached)
    /\ UNCHANGED <<orbit, manualSstvEnabled, cache, call>>

BeginFetch ==
    /\ stage = "idle"
    /\ Active # {}
    /\ ~ CacheIsValid
    /\ wanted' = Active
    /\ cached' = LoadCached
    /\ stage' = "fetching"
    /\ UNCHANGED <<orbit, manualSstvEnabled, cache, fresh, tles, targets, passes>>

(* fetchAllTles: some answers are TLEs; saveTlesToCache is next.           *)
Fetched(ok) ==
    /\ stage = "fetching"
    /\ fresh' = wanted \cap ok
    /\ fresh' # {}
    /\ stage' = "saving"
    /\ UNCHANGED <<orbit, manualSstvEnabled, cache, wanted, cached, tles, targets, passes>>

(* Variant with a fault, for ServesSomething: an empty answer is saved.    *)
FetchFailedSavesNothing ==
    /\ stage = "fetching"
    /\ cache' = [tles |-> {}, age |-> 0]
    /\ Return(wanted, {})
    /\ Ends
    /\ UNCHANGED <<orbit, manualSstvEnabled>>

(* Variant with a fault, for TypeOK: null is returned, not thrown.         *)
FetchFailedReturnsNull ==
    /\ stage = "fetching"
    /\ tles' = cached
    /\ Ends
    /\ UNCHANGED <<orbit, manualSstvEnabled, cache, targets, passes>>

(* None is: the cached list, if there is one, or an exception, after which *)
(* the loop tries again in five minutes.                                   *)
FetchFailed ==
    /\ stage = "fetching"
    /\ IF cached # None THEN Return(wanted, cached) ELSE UNCHANGED <<tles, targets, passes>>
    /\ Ends
    /\ UNCHANGED <<orbit, manualSstvEnabled, cache>>

(* saveTlesToCache: what was fetched replaces the cache.                   *)
SaveTlesToCache ==
    /\ stage = "saving"
    /\ cache' = [tles |-> fresh, age |-> 0]
    /\ Return(wanted, fresh)
    /\ Ends
    /\ UNCHANGED <<orbit, manualSstvEnabled>>

(* A write fails and getTles throws: cache.json is untouched, unreadable,  *)
(* or complete if it was the write of weather.txt.                         *)
SaveFails ==
    /\ stage = "saving"
    /\ cache' \in {cache, None, [tles |-> fresh, age |-> 0]}
    /\ Ends
    /\ UNCHANGED <<orbit, manualSstvEnabled, tles, targets, passes>>

(* Another caller of getTles saves what it could fetch.                    *)
OtherSaves(ok) ==
    /\ cache' = [tles |-> ok, age |-> 0]
    /\ UNCHANGED <<orbit, manualSstvEnabled, call, tles, targets, passes>>

(* An hour passes.                                                         *)
Hour ==
    /\ cache # None
    /\ cache.age <= maxAge
    /\ cache' = [cache EXCEPT !.age = @ + 1]
    /\ UNCHANGED <<orbit, manualSstvEnabled, call, tles, targets, passes>>

(* POST /api/sstv/toggle                                                   *)
SetManualSstvEnabled(enabled) ==
    /\ manualSstvEnabled' = enabled
    /\ UNCHANGED <<orbit, cache, call, tles, targets, passes>>

ToggleSstv == \E enabled \in BOOLEAN : SetManualSstvEnabled(enabled)

Next ==
    \/ ServeFromCache \/ BeginFetch
    \/ \E ok \in SUBSET Sats : Fetched(ok)
    \/ FetchFailed \/ SaveTlesToCache \/ SaveFails
    \/ \E ok \in (SUBSET Sats) \ {{}} : OtherSaves(ok)
    \/ Hour \/ ToggleSstv

Spec == Init /\ [][Next]_vars

----------------------------------------------------------------------------
(* Windows that end within the horizon and are long enough to be sampled   *)
(* as a pass, and no longer than allowed.                                  *)
Catchable(w) ==
    /\ 0 < w.rise /\ w.set < Horizon - Step
    /\ w.set - w.rise >= MinDuration
    /\ w.set - w.rise <= MaxDuration - 2 * Step

(* No pass is missed and none is cut short: every catchable window of the  *)
(* elements that are used for a satellite lies within a predicted pass;    *)
(* and if the satellite is at High or above for 10 s of it, the pass is    *)
(* captured, however short it is, although its elevation is only sampled.  *)
WindowCovered ==
    \A s \in targets : \A w \in UNION {orbit[t] : t \in {TleFor(s, tles)} \ {None}} :
        Catchable(w) => \E p \in passes :
            /\ p.sat = s /\ p.aos <= w.rise /\ w.set <= p.los
            /\ (\E t \in w.rise..w.set : \A k \in 0..(Fine - 1) : Elevation({w}, t + k) >= High)
                 => p \in Captured

(* The satellites whose names begin with the same eight characters.        *)
Namesakes(s) == {t \in Sats : Family[t] = Family[s]}

(* A predicted pass is real for the elements it was computed from, which   *)
(* are elements last returned of the satellite or of a namesake: it holds  *)
(* one of their windows, or what is left of it when the prediction is      *)
(* made, begins less than a minute before it and ends less than two        *)
(* minutes after it; and a pass that is captured is Long or reaches High.  *)
(* A satellite without namesakes therefore has no pass that it does not    *)
(* make; one with namesakes may be given theirs (passes.ts:45).            *)
PassIsReal ==
    \A p \in passes :
        /\ p.tle \in tles \cap Namesakes(p.sat)
        /\ \E w \in orbit[p.tle] :
             /\ p.aos <= w.rise \/ p.aos = 0
             /\ w.rise - p.aos < Step
             /\ w.set <= p.los /\ p.los - w.set < 2 * Step
             /\ p \in Captured => w.peak >= High \/ p.los - p.aos >= Long

(* The passes of one satellite do not overlap, although each is widened    *)
(* when it is refined.                                                     *)
OwnPassesDisjoint ==
    \A p, q \in passes : p.sat = q.sat /\ p # q => p.los < q.aos \/ q.los < p.aos

(* A failed fetch never empties the cache, and getTles never returns an    *)
(* empty list, whatever other processes do to the cache meanwhile: it      *)
(* throws instead.                                                         *)
ServesSomething ==
    /\ cache # None => cache.tles # {}
    /\ cached # {}
    /\ targets # {} => tles # {}
=============================================================================
