-------------------------- MODULE PredictionProof --------------------------
(***************************************************************************)
(* Proofs about Prediction: that the list of passes covers the orbit and   *)
(* invents nothing, for any orbits whose windows are further apart than    *)
(* two samples, any horizon and any lengths of the steps; and that the TLE *)
(* cache always serves something.                                          *)
(*                                                                         *)
(* The scan of findPasses is a recursive function.  What it computes is    *)
(* shown by a least counterexample: the least number of samples after      *)
(* which ScanInv fails.                                                    *)
(***************************************************************************)
EXTENDS Prediction, WellFoundedInduction, TLAPS

(* The time of sample n.                                                   *)
At(n) == n * Step

(* A set of numbers that is not empty has a least element.                 *)
LEMMA LeastNumber ==
    ASSUME NEW T, T \subseteq Nat, T # {}
    PROVE  \E x \in T : \A y \in T : x <= y
  <1> DEFINE R == OpToRel(<, Nat)
  <1>1. IsWellFoundedOn(R, Nat)
    BY NatLessThanWellFounded
  <1> HIDE DEF R
  <1>2. PICK x \in T : \A y \in T : ~ (<<y, x>> \in R)
    BY <1>1, WFMin
  <1>3. \A y \in T : <<y, x>> \in R <=> y < x
    BY DEF R, OpToRel
  <1>4. ASSUME NEW y \in T PROVE x <= y
    <2>1. x \in Nat /\ y \in Nat /\ ~ (y < x)
      BY <1>2, <1>3
    <2> QED BY <2>1
  <1> QED BY <1>4

LEMMA StepFacts == Step \in Nat /\ Step > 0 /\ Fine \in Nat /\ Fine > 0 /\ Horizon \in Nat
  BY StepAssumption

(* The samples are Step apart and in order.                                *)
LEMMA AtFacts ==
    ASSUME NEW n \in Int
    PROVE  /\ At(n) \in Int
           /\ At(n + 1) = At(n) + Step
           /\ At(n - 1) = At(n) - Step
           /\ At(0) = 0
  BY StepFacts DEF At

LEMMA AtOrder ==
    ASSUME NEW m \in Int, NEW n \in Int, m < n
    PROVE  At(m) + Step <= At(n)
  BY StepFacts DEF At

----------------------------------------------------------------------------
(* The orbit and the samples.                                              *)

LEMMA OrbitFacts ==
    ASSUME NEW o, IsOrbit(o), NEW w \in o
    PROVE  /\ w.rise \in Int /\ w.set \in Int /\ w.peak \in Int
           /\ w.rise <= w.set /\ 1 <= w.peak /\ w.peak <= 90
           /\ \A v \in o : v # w => v.set + 2 * Step < w.rise \/ w.set + 2 * Step < v.rise
           /\ \A v \in o : v.rise \in Int /\ v.set \in Int /\ v.rise <= v.set
  BY DEF IsOrbit

(* a is the first sample in the window w, l the first one after it.        *)
Begins(w, a) ==
    /\ a \in Nat
    /\ w.rise <= At(a) /\ At(a) <= w.set
    /\ a = 0 \/ At(a) - Step < w.rise

Finishes(w, l) ==
    /\ l \in Nat
    /\ At(l) - Step <= w.set /\ w.set < At(l)

PassOf(a, l) == [aos |-> At(a), los |-> At(l)]

(* What findPasses has found is the samples of a window.                   *)
Stems(o, n, p) ==
    \E w \in o, a, l \in Nat :
        Begins(w, a) /\ Finishes(w, l) /\ a < l /\ l < n /\ p = PassOf(a, l)

(* Windows that are wholly after the start and neither short nor long.     *)
Fits(w) == 0 < w.rise /\ w.set - w.rise >= MinDuration /\ w.set - w.rise <= MaxDuration - 2 * Step

(* After n samples of the orbit o.                                         *)
ScanInv(o, n, st) ==
    /\ st \in [inPass : BOOLEAN, start : Int, found : SUBSET [aos : Int, los : Int]]
    /\ st.inPass => \E w \in o, a \in Nat :
                        a < n /\ Begins(w, a) /\ st.start = At(a) /\ At(n - 1) <= w.set
    /\ ~ st.inPass /\ n > 0 => ~ Above(o, At(n - 1))
    /\ \A p \in st.found : Stems(o, n, p)
    /\ \A w \in o : Fits(w) /\ w.set < At(n - 1) =>
          \E a, l \in Nat : Begins(w, a) /\ Finishes(w, l) /\ a < l /\ PassOf(a, l) \in st.found

(* A window has one first and one last sample.                             *)
LEMMA SamplesOfWindow ==
    ASSUME NEW o, IsOrbit(o), NEW w \in o, NEW a, NEW b, Begins(w, a), Begins(w, b)
    PROVE  a = b
  <1>1. w.rise \in Int /\ w.set \in Int
    BY OrbitFacts
  <1>2. a \in Int /\ b \in Int /\ At(a) \in Int /\ At(b) \in Int /\ At(0) = 0 /\ 0 \in Int
    BY AtFacts DEF Begins
  <1>3. (a < b => At(a) + Step <= At(b)) /\ (b < a => At(b) + Step <= At(a))
    BY <1>2, AtOrder
  <1> QED BY <1>1, <1>2, <1>3, StepFacts DEF Begins

LEMMA EndOfWindow ==
    ASSUME NEW o, IsOrbit(o), NEW w \in o, NEW a, NEW b, Finishes(w, a), Finishes(w, b)
    PROVE  a = b
  <1>1. w.rise \in Int /\ w.set \in Int
    BY OrbitFacts
  <1>2. a \in Int /\ b \in Int /\ At(a) \in Int /\ At(b) \in Int
    BY AtFacts DEF Finishes
  <1>3. (a < b => At(a) + Step <= At(b)) /\ (b < a => At(b) + Step <= At(a))
    BY <1>2, AtOrder
  <1> QED BY <1>1, <1>2, <1>3, StepFacts DEF Finishes

(* The sky is quiet for two samples around a window.                       *)
LEMMA QuietAfter ==
    ASSUME NEW o, IsOrbit(o), NEW w \in o, NEW x \in Int, w.set < x, x <= w.set + 2 * Step
    PROVE  ~ Above(o, x)
  BY OrbitFacts, StepFacts DEF Above

LEMMA QuietBefore ==
    ASSUME NEW o, IsOrbit(o), NEW w \in o, NEW x \in Int, w.rise - 2 * Step <= x, x < w.rise
    PROVE  ~ Above(o, x)
  BY OrbitFacts, StepFacts DEF Above

LEMMA OneWindow ==
    ASSUME NEW o, IsOrbit(o), NEW v \in o, NEW w \in o, NEW x \in Int,
           v.rise <= x, x <= v.set, w.rise <= x, x <= w.set
    PROVE  v = w
  BY OrbitFacts, StepFacts

(* Two times that are samples: between is a whole number of steps, as is   *)
(* MinDuration.                                                            *)
LEMMA LongEnough ==
    ASSUME NEW a \in Nat, NEW l \in Nat, At(l) - At(a) > MinDuration - Step
    PROVE  At(l) - At(a) >= MinDuration
  <1> DEFINE m == MinDuration \div Step
  <1>1. m \in Int /\ MinDuration = At(m)
    BY StepFacts, DurationAssumption DEF At
  <1> HIDE DEF m
  <1> DEFINE d == l - a
  <1>2. d \in Int /\ At(l) - At(a) = At(d)
    BY StepFacts DEF At
  <1> HIDE DEF d
  <1>3. At(d) \in Int /\ At(m) \in Int
    BY <1>1, <1>2, AtFacts
  <1>4. d < m => At(d) + Step <= At(m)
    BY <1>1, <1>2, AtOrder
  <1>5. m < d => At(m) + Step <= At(d)
    BY <1>1, <1>2, AtOrder
  <1> QED BY <1>1, <1>2, <1>3, <1>4, <1>5, StepFacts

(* One sample.                                                             *)
LEMMA ScanStep ==
    ASSUME NEW o, IsOrbit(o), NEW n \in Nat, NEW st, ScanInv(o, n, st)
    PROVE  ScanInv(o, n + 1, Sampled(o, st, At(n)))
  <1> DEFINE t == At(n)
             new == Sampled(o, st, t)
  <1>1. /\ t \in Int /\ At(n - 1) = t - Step /\ At(n + 1) = t + Step /\ (n + 1) - 1 = n
        /\ At(0) = 0 /\ 0 <= t
    <2>1. 0 < n => At(0) + Step <= At(n)
      BY AtOrder
    <2>2. At(n) \in Int /\ At(n - 1) = At(n) - Step /\ At(n + 1) = At(n) + Step /\ At(0) = 0
      BY AtFacts
    <2>3. n = 0 \/ 0 < n
      OBVIOUS
    <2>4. 0 <= At(n)
      BY <2>1, <2>2, <2>3, StepFacts
    <2> QED BY <2>2, <2>4
  <1>2. st \in [inPass : BOOLEAN, start : Int, found : SUBSET [aos : Int, los : Int]]
    BY DEF ScanInv
  <1>3. \A p \in st.found : Stems(o, n + 1, p)
    BY DEF ScanInv, Stems
  (* A window that ends by now has ended by the sample before, or held it. *)
  <1>4. ASSUME NEW w \in o, Fits(w), w.set < t, ~ (w.set < At(n - 1))
        PROVE  /\ n > 0 /\ w.rise <= At(n - 1) /\ At(n - 1) <= w.set
               /\ Above(o, At(n - 1)) /\ ~ Above(o, t)
    <2>1. w.rise \in Int /\ w.set \in Int
      BY OrbitFacts
    <2>2. MinDuration \in Nat /\ MinDuration >= Step
      BY DurationAssumption, StepFacts
    <2>3. w.rise <= At(n - 1) /\ At(n - 1) <= w.set /\ 0 < At(n - 1)
      BY <1>1, <1>4, <2>1, <2>2, StepFacts DEF Fits
    <2>4. n > 0
      BY <1>1, <2>3, StepFacts
    <2>5. ~ Above(o, t)
      BY <1>1, <1>4, <2>1, <2>3, QuietAfter, StepFacts
    <2> QED BY <2>3, <2>4, <2>5 DEF Above
  <1>5. CASE Above(o, t) /\ ~ st.inPass
    <2>1. new = [st EXCEPT !.inPass = TRUE, !.start = t]
      BY <1>5 DEF Sampled
    <2>2. /\ new \in [inPass : BOOLEAN, start : Int, found : SUBSET [aos : Int, los : Int]]
          /\ new.inPass /\ new.start = t /\ new.found = st.found
      BY <1>1, <1>2, <2>1
    <2>3. PICK w \in o : w.rise <= t /\ t <= w.set
      BY <1>5 DEF Above
    <2>4. Begins(w, n)
      <3>1. n = 0 \/ ~ Above(o, t - Step)
        BY <1>1, <1>5 DEF ScanInv
      <3>2. w.rise \in Int /\ w.set \in Int
        BY OrbitFacts
      <3> QED BY <1>1, <2>3, <3>1, <3>2, StepFacts DEF Begins, Above
    <2>5. ASSUME NEW v \in o, Fits(v), v.set < t
          PROVE  \E a, l \in Nat : Begins(v, a) /\ Finishes(v, l) /\ a < l /\ PassOf(a, l) \in new.found
      <3>1. v.set < At(n - 1)
        BY <1>4, <1>5, <2>5
      <3> QED BY <2>2, <2>5, <3>1 DEF ScanInv
    <2>6. \E v \in o, a \in Nat : a < n + 1 /\ Begins(v, a) /\ new.start = At(a) /\ t <= v.set
      BY <2>2, <2>3, <2>4
    <2> QED BY <1>1, <1>3, <2>2, <2>5, <2>6 DEF ScanInv
  <1>6. CASE ~ Above(o, t) /\ st.inPass
    <2> DEFINE duration == t - st.start
    <2>1. PICK w \in o, a \in Nat : a < n /\ Begins(w, a) /\ st.start = At(a) /\ At(n - 1) <= w.set
      BY <1>6 DEF ScanInv
    <2>2. w.rise \in Int /\ w.set \in Int /\ At(a) \in Int
      BY <2>1, OrbitFacts, AtFacts
    <2>3. At(a) + Step <= t
      BY <2>1, AtOrder
    <2>4. w.rise <= t - Step
      BY <1>1, <2>1, <2>2, <2>3, StepFacts DEF Begins
    <2>5. w.set < t
      BY <1>1, <1>6, <2>2, <2>4, StepFacts DEF Above
    <2>6. Finishes(w, n)
      BY <1>1, <2>1, <2>2, <2>5 DEF Finishes
    <2>7. /\ new.inPass = FALSE /\ new.start = 0
          /\ new.found = IF MinDuration <= duration /\ duration <= MaxDuration
                         THEN st.found \cup {PassOf(a, n)} ELSE st.found
          /\ new = [inPass |-> new.inPass, start |-> new.start, found |-> new.found]
      BY <1>6, <2>1 DEF Sampled, PassOf
    <2>8. Stems(o, n + 1, PassOf(a, n))
      BY <2>1, <2>6 DEF Stems
    <2>9. PassOf(a, n) \in [aos : Int, los : Int]
      BY <1>1, <2>2 DEF PassOf
    <2>10. new \in [inPass : BOOLEAN, start : Int, found : SUBSET [aos : Int, los : Int]]
      <3>1. new.found \in SUBSET [aos : Int, los : Int]
        BY <1>2, <2>7, <2>9
      <3>2. [inPass |-> FALSE, start |-> 0, found |-> new.found]
               \in [inPass : BOOLEAN, start : Int, found : SUBSET [aos : Int, los : Int]]
        BY <3>1
      <3> QED BY <2>7, <3>2
    <2>11. \A p \in new.found : Stems(o, n + 1, p)
      BY <1>3, <2>7, <2>8
    <2>12. ASSUME NEW v \in o, Fits(v), v.set < t
           PROVE  \E b, l \in Nat : Begins(v, b) /\ Finishes(v, l) /\ b < l /\ PassOf(b, l) \in new.found
      <3>1. CASE v.set < At(n - 1)
        <4>1. PICK b \in Nat, l \in Nat :
                 Begins(v, b) /\ Finishes(v, l) /\ b < l /\ PassOf(b, l) \in st.found
          BY <2>12, <3>1 DEF ScanInv
        <4> QED BY <2>7, <4>1
      <3>2. CASE ~ (v.set < At(n - 1))
        <4>1. v.rise <= At(n - 1) /\ At(n - 1) <= v.set
          BY <1>4, <2>12, <3>2
        <4>2. v = w
          BY <1>1, <2>1, <2>4, <4>1, OneWindow, StepFacts
        <4>3. a # 0 /\ At(a) - Step < w.rise /\ w.rise <= At(a)
          BY <1>1, <2>1, <2>2, <2>12, <4>2 DEF Begins, Fits
        <4>4. MinDuration \in Nat /\ MaxDuration \in Nat
          BY DurationAssumption
        <4>5. t - At(a) > MinDuration - Step /\ t - At(a) <= MaxDuration
          BY <1>1, <2>1, <2>2, <2>5, <2>12, <4>2, <4>3, <4>4, StepFacts DEF Fits
        <4>6. t - At(a) >= MinDuration
          BY <4>5, LongEnough
        <4>7. PassOf(a, n) \in new.found
          BY <2>1, <2>7, <4>5, <4>6
        <4> QED BY <2>1, <2>6, <4>2, <4>7
      <3> QED BY <3>1, <3>2
    <2> QED BY <1>1, <1>6, <2>7, <2>10, <2>11, <2>12 DEF ScanInv
  <1>7. CASE Above(o, t) <=> st.inPass
    <2>1. new = st
      BY <1>2, <1>7 DEF Sampled
    <2>2. ASSUME NEW v \in o, Fits(v), v.set < t
          PROVE  \E a, l \in Nat : Begins(v, a) /\ Finishes(v, l) /\ a < l /\ PassOf(a, l) \in new.found
      <3>1. v.set < At(n - 1)
        BY <1>4, <1>7, <2>2 DEF ScanInv
      <3> QED BY <2>1, <2>2, <3>1 DEF ScanInv
    <2>3. ASSUME new.inPass
          PROVE  \E w \in o, a \in Nat : a < n + 1 /\ Begins(w, a) /\ new.start = At(a) /\ t <= w.set
      <3>1. PICK w \in o, a \in Nat : a < n /\ Begins(w, a) /\ st.start = At(a) /\ At(n - 1) <= w.set
        BY <2>1, <2>3 DEF ScanInv
      <3>2. PICK v \in o : v.rise <= t /\ t <= v.set
        BY <1>7, <2>1, <2>3 DEF Above
      <3>3. v = w
        <4>1. At(a) + Step <= t /\ At(a) \in Int
          BY <3>1, AtOrder, AtFacts
        <4>2. w.rise <= t - Step /\ t - Step <= w.set
          BY <1>1, <3>1, <4>1, OrbitFacts, StepFacts DEF Begins
        <4> QED BY <1>1, <3>2, <4>2, OrbitFacts, StepFacts
      <3> QED BY <2>1, <3>1, <3>2, <3>3
    <2> QED BY <1>1, <1>2, <1>3, <1>7, <2>1, <2>2, <2>3 DEF ScanInv
  <1> QED BY <1>5, <1>6, <1>7

----------------------------------------------------------------------------
(* The scan.                                                               *)

Samples == Horizon \div Step + 1

Before == [inPass |-> FALSE, start |-> 0, found |-> {}]

(* f is the scan of the first m samples.                                   *)
IsScan(o, f, m) ==
    f = [n \in 0..m |-> IF n = 0 THEN Before ELSE Sampled(o, f[n - 1], (n - 1) * Step)]

LEMMA SamplesFacts == Samples \in Nat /\ At(Samples - 1) <= Horizon /\ Horizon - Step < At(Samples - 1)
  BY StepFacts DEF Samples, At

(* However many samples there are, the recursion defines a function.       *)
LEMMA ScanExists ==
    ASSUME NEW o, NEW m \in Nat
    PROVE  \E f : IsScan(o, f, m)
  <1> DEFINE Bad == {k \in Nat : ~ \E f : IsScan(o, f, k)}
  <1> SUFFICES ASSUME Bad # {} PROVE FALSE
    OBVIOUS
  <1>1. PICK k \in Bad : \A i \in Bad : k <= i
    BY LeastNumber
  <1>2. k # 0
    <2> DEFINE f == [n \in 0..0 |-> Before]
    <2>1. IsScan(o, f, 0)
      BY DEF IsScan
    <2> QED BY <2>1
  <1>3. k - 1 \in Nat /\ k - 1 \notin Bad
    BY <1>1, <1>2
  <1>4. PICK f : IsScan(o, f, k - 1)
    BY <1>3
  <1> DEFINE last == Sampled(o, f[k - 1], (k - 1) * Step)
             g == [n \in 0..k |-> IF n = k THEN last ELSE f[n]]
  <1> HIDE DEF last
  <1>5. \A n \in 0..(k - 1) : g[n] = f[n]
    BY <1>1
  <1>6. \A n \in 0..(k - 1) : f[n] = IF n = 0 THEN Before ELSE Sampled(o, f[n - 1], (n - 1) * Step)
    BY <1>4 DEF IsScan
  <1>7. ASSUME NEW n \in 0..k
        PROVE  g[n] = IF n = 0 THEN Before ELSE Sampled(o, g[n - 1], (n - 1) * Step)
    <2>1. CASE n = k
      <3>1. g[n] = last /\ k - 1 \in 0..(k - 1)
        BY <1>1, <1>3, <2>1
      <3>2. g[k - 1] = f[k - 1]
        BY <1>5, <3>1
      <3> QED BY <1>2, <2>1, <3>1, <3>2 DEF last
    <2>2. CASE n # k /\ n # 0
      <3>1. n \in 0..(k - 1) /\ n - 1 \in 0..(k - 1)
        BY <1>1, <2>2
      <3>2. g[n] = f[n] /\ g[n - 1] = f[n - 1]
        BY <1>5, <3>1
      <3> QED BY <1>6, <2>2, <3>1, <3>2
    <2>3. CASE n # k /\ n = 0
      <3>1. g[n] = f[n] /\ n \in 0..(k - 1)
        BY <1>1, <1>3, <1>5, <2>3
      <3> QED BY <1>6, <2>3, <3>1
    <2> QED BY <2>1, <2>2, <2>3
  <1>8. g = [n \in 0..k |-> g[n]]
    OBVIOUS
  <1> HIDE DEF g
  <1>9. IsScan(o, g, k)
    BY <1>7, <1>8 DEF IsScan
  <1> QED BY <1>1, <1>9

(* findPasses is what the scan has found at the end.                       *)
LEMMA FindPassesScans ==
    ASSUME NEW o
    PROVE  \E f : IsScan(o, f, Samples) /\ FindPasses(o) = f[Samples].found
  <1> DEFINE g == CHOOSE f : f = [n \in 0..Samples |->
                     IF n = 0 THEN Before ELSE Sampled(o, f[n - 1], (n - 1) * Step)]
  <1>1. \E f : IsScan(o, f, Samples)
    BY ScanExists, SamplesFacts
  <1>2. g = [n \in 0..Samples |-> IF n = 0 THEN Before ELSE Sampled(o, g[n - 1], (n - 1) * Step)]
    BY <1>1 DEF IsScan
  <1>3. FindPasses(o) = g[Samples].found
    BY DEF FindPasses, Samples, Before
  <1> QED BY <1>2, <1>3 DEF IsScan

(* What findPasses returns: the samples of windows, and of every window    *)
(* that fits.                                                              *)
LEMMA FindPassesFacts ==
    ASSUME NEW o, IsOrbit(o)
    PROVE  /\ \A p \in FindPasses(o) : Stems(o, Samples, p)
           /\ \A w \in o : Fits(w) /\ w.set < At(Samples - 1) =>
                 \E a, l \in Nat :
                    Begins(w, a) /\ Finishes(w, l) /\ a < l /\ PassOf(a, l) \in FindPasses(o)
  <1>1. PICK f : IsScan(o, f, Samples) /\ FindPasses(o) = f[Samples].found
    BY FindPassesScans
  <1>2. \A n \in 0..Samples :
           f[n] = IF n = 0 THEN Before ELSE Sampled(o, f[n - 1], (n - 1) * Step)
    BY <1>1 DEF IsScan
  <1> DEFINE Bad == {n \in 0..Samples : ~ ScanInv(o, n, f[n])}
  <1>3. Bad = {}
    <2> SUFFICES ASSUME Bad # {} PROVE FALSE
      OBVIOUS
    <2>1. Bad \subseteq Nat
      BY SamplesFacts
    <2>2. PICK k \in Bad : \A i \in Bad : k <= i
      BY <2>1, LeastNumber
    <2>3. ScanInv(o, 0, Before)
      <3>1. Before \in [inPass : BOOLEAN, start : Int, found : SUBSET [aos : Int, los : Int]]
            /\ ~ Before.inPass /\ Before.found = {}
        BY DEF Before
      <3>2. \A w \in o : Fits(w) => ~ (w.set < At(0 - 1))
        <4>1. At(0 - 1) = 0 - Step
          BY StepFacts DEF At
        <4> QED BY <4>1, OrbitFacts, StepFacts DEF Fits
      <3> QED BY <3>1, <3>2 DEF ScanInv
    <2>4. k # 0
      BY <1>2, <2>2, <2>3, SamplesFacts
    <2>5. k \in 0..Samples /\ k - 1 \in Nat /\ k - 1 \in 0..Samples /\ k - 1 < k
      BY <2>2, <2>4, SamplesFacts
    <2>6. ScanInv(o, k - 1, f[k - 1])
      BY <2>2, <2>5
    <2> DEFINE j == k - 1
               st == f[j]
    <2>7. j \in Nat /\ ScanInv(o, j, st) /\ k = j + 1 /\ f[k] = Sampled(o, st, At(j))
      BY <1>2, <2>4, <2>5, <2>6 DEF At
    <2> HIDE DEF j, st
    <2>8. ScanInv(o, j + 1, Sampled(o, st, At(j)))
      BY <2>7, ScanStep
    <2> QED BY <2>2, <2>7, <2>8
  <1>4. ScanInv(o, Samples, f[Samples])
    BY <1>3, SamplesFacts
  <1> QED BY <1>1, <1>4 DEF ScanInv

----------------------------------------------------------------------------
(* The refinement of a pass.                                               *)

(* The end: a second less than a minute after the sample.                  *)
LEMMA RefineLos ==
    ASSUME NEW o, IsOrbit(o), NEW w \in o, NEW l, Finishes(w, l)
    PROVE  RefineTime(o, At(l), 1) = At(l) + Step - 1
  <1> DEFINE below == {k \in 0..(2 * Step - 1) : ~ Above(o, At(l) + 1 * (Step + k))}
  <1>1. At(l) \in Int /\ w.set \in Int
    BY AtFacts, OrbitFacts DEF Finishes
  <1>2. ~ Above(o, At(l) + Step)
    BY <1>1, QuietAfter, StepFacts DEF Finishes
  <1>3. 0 \in below /\ At(l) + 1 * (Step + 0) = At(l) + Step
    BY <1>1, <1>2, StepFacts
  <1>4. \A i \in below : i \in Int /\ 0 <= i
    BY StepFacts
  <1> DEFINE k == CHOOSE j \in below : \A i \in below : j <= i
  <1>5. RefineTime(o, At(l), 1) = IF below = {} THEN At(l) ELSE At(l) + 1 * (Step + k - 1)
    BY DEF RefineTime
  <1> HIDE DEF below
  <1>6. k = 0
    BY <1>3, <1>4
  <1> HIDE DEF k
  <1> QED BY <1>1, <1>3, <1>5, <1>6, StepFacts

(* The start: a second less than a minute before the sample, or within the *)
(* window or at the time of the prediction if it is under way.             *)
LEMMA RefineAos ==
    ASSUME NEW o, IsOrbit(o), NEW w \in o, NEW a, Begins(w, a)
    PROVE  /\ RefineTime(o, At(a), -1) \in Int
           /\ a # 0 => RefineTime(o, At(a), -1) = At(a) - Step + 1
           /\ RefineTime(o, At(a), -1) <= w.rise \/ RefineTime(o, At(a), -1) = 0
           /\ w.rise - RefineTime(o, At(a), -1) < Step
           /\ RefineTime(o, At(a), -1) <= At(a)
           /\ 0 - 3 * Step <= RefineTime(o, At(a), -1)
  <1> DEFINE below == {k \in 0..(2 * Step - 1) : ~ Above(o, At(a) + (-1) * (Step + k))}
             k == CHOOSE j \in below : \A i \in below : j <= i
             x == RefineTime(o, At(a), -1)
  <1>1. /\ At(a) \in Int /\ w.set \in Int /\ w.rise \in Int /\ a \in Nat
        /\ At(0) = 0 /\ 0 <= At(a)
    <2>1. a \in Nat /\ At(a) \in Int /\ At(0) = 0
      BY AtFacts DEF Begins
    <2>2. 0 < a => At(0) + Step <= At(a)
      BY <2>1, AtOrder
    <2> QED BY <2>1, <2>2, OrbitFacts, StepFacts
  <1>2. x = IF below = {} THEN At(a) ELSE At(a) + (-1) * (Step + k - 1)
    BY DEF RefineTime
  <1>3. \A i \in 0..(2 * Step - 1) : At(a) + (-1) * (Step + i) = At(a) - Step - i
    BY <1>1, StepFacts
  <1>4. \A i \in 0..(2 * Step - 1) : i \in below <=> ~ Above(o, At(a) - Step - i)
    BY <1>3
  <1>5. below \subseteq Nat /\ below \subseteq 0..(2 * Step - 1)
    BY StepFacts
  <1> HIDE DEF x
  <1>6. below # {} => k \in below /\ \A i \in below : k <= i
    BY <1>5, LeastNumber
  <1> HIDE DEF below, k
  <1>7. 0 \in 0..(2 * Step - 1)
    BY StepFacts
  <1>8. CASE a # 0
    <2>1. At(a) - Step < w.rise /\ w.rise <= At(a)
      BY <1>8 DEF Begins
    <2>2. ~ Above(o, At(a) - Step)
      BY <1>1, <2>1, QuietBefore, StepFacts
    <2>3. 0 \in below
      BY <1>1, <1>4, <1>7, <2>2, StepFacts
    <2>4. k = 0
      <3>1. k \in below /\ k <= 0
        BY <1>6, <2>3
      <3>2. k \in Nat
        BY <1>5, <3>1
      <3> QED BY <3>1, <3>2
    <2>5. x = At(a) - Step + 1
      BY <1>1, <1>2, <2>3, <2>4, StepFacts
    <2> QED BY <1>1, <1>8, <2>1, <2>5, StepFacts DEF x
  <1>9. CASE a = 0
    <2>1. At(a) = 0 /\ w.rise <= 0 /\ 0 <= w.set
      BY <1>1, <1>9 DEF Begins
    <2>2. CASE below = {}
      <3>1. x = 0
        BY <1>2, <2>1, <2>2
      <3> QED BY <1>1, <1>9, <2>1, <3>1, StepFacts DEF x
    <2>3. CASE below # {}
      <3>1. /\ k \in 0..(2 * Step - 1) /\ k \in Int /\ 0 <= k /\ k <= 2 * Step - 1
            /\ ~ Above(o, 0 - Step - k)
        <4>1. k \in below
          BY <1>6, <2>3
        <4>2. k \in 0..(2 * Step - 1)
          BY <1>5, <4>1
        <4> QED BY <1>4, <2>1, <4>1, <4>2, StepFacts
      <3>2. x = 1 - Step - k
        BY <1>2, <2>1, <2>3, <3>1, StepFacts
      <3>3. w.rise > 0 - Step - k
        BY <1>1, <2>1, <3>1, StepFacts DEF Above
      <3>4. x <= w.rise
        BY <1>1, <3>1, <3>2, <3>3, StepFacts
      <3>5. w.rise - x < Step
        <4>1. CASE k = 0
          BY <1>1, <2>1, <3>1, <3>2, <4>1, StepFacts
        <4>2. CASE k # 0
          <5>1. k - 1 \in 0..(2 * Step - 1) /\ k - 1 \notin below /\ 0 - Step - (k - 1) = x
            BY <1>5, <1>6, <2>3, <3>1, <3>2, <4>2, StepFacts
          <5>2. Above(o, x)
            BY <1>4, <2>1, <5>1
          <5>3. PICK v \in o : v.rise <= x /\ x <= v.set
            BY <5>2 DEF Above
          <5>4. v.rise \in Int /\ v.set \in Int
            BY OrbitFacts
          <5>5. v = w \/ v.set + 2 * Step < w.rise \/ w.set + 2 * Step < v.rise
            BY OrbitFacts
          <5>6. ~ (w.set + 2 * Step < v.rise)
            BY <1>1, <2>1, <3>1, <3>2, <5>3, <5>4, StepFacts
          <5>7. w.rise <= 0 - Step
            <6>1. 0 \notin below
              BY <1>6, <2>3, <3>1, <4>2
            <6>2. Above(o, 0 - Step)
              BY <1>4, <1>7, <2>1, <6>1, StepFacts
            <6>3. ~ (0 - Step < w.rise)
              BY <1>1, <2>1, <6>2, QuietBefore, StepFacts
            <6> QED BY <1>1, <6>3, StepFacts
          <5>8. ~ (v.set + 2 * Step < w.rise)
            BY <1>1, <2>1, <3>1, <3>2, <5>3, <5>4, <5>7, StepFacts
          <5> QED BY <1>1, <3>1, <3>2, <3>4, <5>3, <5>5, <5>6, <5>8, StepFacts
        <4> QED BY <4>1, <4>2
      <3>6. 0 - 3 * Step <= x /\ x <= 0 /\ x \in Int
        BY <1>1, <2>1, <3>1, <3>2, <3>4, StepFacts
      <3> QED BY <1>9, <2>1, <3>4, <3>5, <3>6 DEF x
    <2> QED BY <2>2, <2>3
  <1> QED BY <1>8, <1>9

----------------------------------------------------------------------------
(* The elevation.                                                          *)

(* Within the window w.                                                    *)
Height(w, t) ==
    LET h == 1 + (IF t - w.rise < w.set - t THEN t - w.rise ELSE w.set - t)
    IN  IF h < w.peak THEN h ELSE w.peak

LEMMA HeightOfWindow ==
    ASSUME NEW o, IsOrbit(o), NEW w \in o, NEW x \in Int, w.rise <= x, x <= w.set
    PROVE  /\ Elevation(o, x) = Height(w, x)
           /\ Height(w, x) \in Int /\ 1 <= Height(w, x) /\ Height(w, x) <= w.peak
  <1>1. Above(o, x)
    BY DEF Above
  <1> DEFINE c == CHOOSE v \in o : v.rise <= x /\ x <= v.set
  <1>2. c \in o /\ c.rise <= x /\ x <= c.set
    OBVIOUS
  <1> HIDE DEF c
  <1>3. c = w
    BY <1>2, OneWindow
  <1>4. Elevation(o, x) = Height(c, x)
    BY <1>1 DEF Elevation, Height, c
  <1>5. Height(w, x) \in Int /\ 1 <= Height(w, x) /\ Height(w, x) <= w.peak
    BY OrbitFacts DEF Height
  <1> QED BY <1>3, <1>4, <1>5

LEMMA ElevationFacts ==
    ASSUME NEW o, IsOrbit(o), NEW x \in Int
    PROVE  /\ Elevation(o, x) \in 0..90
           /\ Elevation(o, x) > 0 => Above(o, x)
  <1>1. CASE Above(o, x)
    <2>1. PICK w \in o : w.rise <= x /\ x <= w.set
      BY <1>1 DEF Above
    <2>2. /\ Elevation(o, x) = Height(w, x)
          /\ Height(w, x) \in Int /\ 1 <= Height(w, x) /\ Height(w, x) <= w.peak
      BY <2>1, HeightOfWindow
    <2>3. w.peak \in Int /\ w.peak <= 90
      BY OrbitFacts
    <2> QED BY <1>1, <2>2, <2>3
  <1>2. CASE ~ Above(o, x)
    BY <1>2 DEF Elevation
  <1> QED BY <1>1, <1>2

(* What the window alone shows is what the orbit shows while it lasts.     *)
LEMMA WindowAlone ==
    ASSUME NEW o, IsOrbit(o), NEW w \in o, NEW x \in Int, Elevation({w}, x) > 0
    PROVE  w.rise <= x /\ x <= w.set /\ Elevation(o, x) = Elevation({w}, x)
  <1>1. IsOrbit({w})
    BY DEF IsOrbit
  <1>2. Above({w}, x)
    BY <1>1, ElevationFacts
  <1>3. w.rise <= x /\ x <= w.set
    BY <1>2 DEF Above
  <1>4. Elevation(o, x) = Height(w, x)
    BY <1>3, HeightOfWindow
  <1>5. Elevation({w}, x) = Height(w, x)
    BY <1>1, <1>3, HeightOfWindow
  <1> QED BY <1>3, <1>4, <1>5

(* The times at which the maximum is taken.                                *)
LEMMA SampleTimes ==
    ASSUME NEW aos \in Int, NEW los \in Int, aos <= los, NEW i \in 0..((los - aos) \div Fine)
    PROVE  aos + i * Fine \in Int /\ aos <= aos + i * Fine /\ aos + i * Fine <= los
  <1> DEFINE q == (los - aos) \div Fine
             z == i * Fine
  <1>1. q \in Nat /\ q * Fine <= los - aos
    BY StepFacts
  <1>2. i \in Nat /\ i <= q
    BY <1>1
  <1>3. z \in Int /\ 0 <= z /\ z <= q * Fine
    BY <1>1, <1>2, StepFacts
  <1>4. q * Fine \in Int
    BY <1>1, StepFacts
  <1> HIDE DEF q, z
  <1>5. aos + z \in Int /\ aos <= aos + z /\ aos + z <= los
    BY <1>1, <1>3, <1>4
  <1> QED BY <1>5 DEF z

(* Among Fine seconds in a row within the pass there is one of them.       *)
LEMMA SampleAmong ==
    ASSUME NEW aos \in Int, NEW los \in Int, NEW t \in Int,
           aos <= t, t + (Fine - 1) <= los
    PROVE  \E i \in 0..((los - aos) \div Fine), k \in 0..(Fine - 1) : aos + i * Fine = t + k
  <1> DEFINE d == t - aos + (Fine - 1)
             i == d \div Fine
             q == (los - aos) \div Fine
             k == aos + i * Fine - t
  <1>1. d \in Nat /\ d <= los - aos
    BY StepFacts
  <1>2. i \in Nat /\ i * Fine <= d /\ d < i * Fine + Fine
    BY <1>1, StepFacts
  <1>3. q \in Nat /\ los - aos < q * Fine + Fine
    BY <1>1, StepFacts
  <1>4. i <= q
    <2>1. i * Fine < q * Fine + Fine
      BY <1>1, <1>2, <1>3, StepFacts
    <2> HIDE DEF i, q
    <2>2. q < i => q * Fine + Fine <= i * Fine
      BY <1>2, <1>3, StepFacts
    <2> QED BY <1>2, <1>3, <2>1, <2>2, StepFacts
  <1>5. k \in 0..(Fine - 1) /\ aos + i * Fine = t + k
    <2> DEFINE z == i * Fine
    <2>1. z \in Int /\ z <= t - aos + (Fine - 1) /\ t - aos + (Fine - 1) < z + Fine
      BY <1>2, StepFacts
    <2> HIDE DEF z
    <2>2. aos + z - t \in 0..(Fine - 1) /\ aos + z = t + (aos + z - t)
      BY <2>1, StepFacts
    <2> QED BY <2>2 DEF z
  <1> HIDE DEF i, q, k
  <1>6. i \in 0..q
    BY <1>2, <1>3, <1>4
  <1> QED BY <1>5, <1>6 DEF q

LEMMA MaxElevationFacts ==
    ASSUME NEW o, IsOrbit(o), NEW aos \in Int, NEW los \in Int, aos <= los
    PROVE  /\ MaxElevation(o, aos, los) \in 0..90
           /\ \E x \in Int : aos <= x /\ x <= los /\ Elevation(o, x) = MaxElevation(o, aos, los)
           /\ \A i \in 0..((los - aos) \div Fine) :
                 Elevation(o, aos + i * Fine) <= MaxElevation(o, aos, los)
  <1> DEFINE I == 0..((los - aos) \div Fine)
             samples == {Elevation(o, aos + i * Fine) : i \in I}
             top == CHOOSE e \in samples : \A d \in samples : d <= e
  <1>1. \A i \in I : aos + i * Fine \in Int /\ aos <= aos + i * Fine /\ aos + i * Fine <= los
    BY SampleTimes
  <1>2. \A i \in I : Elevation(o, aos + i * Fine) \in 0..90
    BY <1>1, ElevationFacts
  <1>3. 0 \in I
    BY StepFacts
  <1>4. samples \subseteq 0..90 /\ samples # {}
    BY <1>2, <1>3
  <1>5. MaxElevation(o, aos, los) = top
    BY DEF MaxElevation
  <1>6. \A d \in samples : \E i \in I : d = Elevation(o, aos + i * Fine)
    OBVIOUS
  <1>7. \A i \in I : Elevation(o, aos + i * Fine) \in samples
    OBVIOUS
  <1> HIDE DEF samples
  <1>8. top \in samples /\ \A d \in samples : d <= top
    <2> DEFINE T == {90 - e : e \in samples}
    <2>1. T \subseteq Nat /\ T # {}
      <3>1. \A e \in 0..90 : 90 - e \in Nat
        OBVIOUS
      <3>2. \A e \in samples : e \in 0..90
        BY <1>4
      <3>3. \A e \in samples : 90 - e \in Nat
        BY <3>1, <3>2
      <3> QED BY <1>4, <3>3
    <2>2. PICK n \in T : \A m \in T : n <= m
      BY <2>1, LeastNumber
    <2>3. PICK e \in samples : n = 90 - e
      OBVIOUS
    <2>4. ASSUME NEW d \in samples PROVE d <= e
      <3>1. 90 - e <= 90 - d /\ d \in 0..90 /\ e \in 0..90
        BY <1>4, <2>2, <2>3
      <3> QED BY <3>1
    <2> QED BY <2>4
  <1> HIDE DEF top, I
  <1>9. \E x \in Int : aos <= x /\ x <= los /\ Elevation(o, x) = top
    BY <1>1, <1>6, <1>8
  <1>10. top \in 0..90
    BY <1>4, <1>8
  <1>11. \A i \in I : Elevation(o, aos + i * Fine) <= top
    BY <1>7, <1>8
  <1> QED BY <1>5, <1>9, <1>10, <1>11 DEF I

----------------------------------------------------------------------------
(* A refined pass.                                                         *)

(* The pass r is made of the window w, whose first sample is a; l is the   *)
(* first sample after it.                                                  *)
MadeOf(o, w, a, l, r) ==
    /\ Begins(w, a) /\ Finishes(w, l) /\ a < l
    /\ r = RefinePassTiming(o, PassOf(a, l))

LEMMA PassFacts ==
    ASSUME NEW o, IsOrbit(o), NEW w \in o, NEW a, NEW l, NEW r, MadeOf(o, w, a, l, r)
    PROVE  /\ r.aos \in Int /\ r.los \in Int /\ r.aos <= r.los
           /\ r.los = At(l) + Step - 1
           /\ a # 0 => r.aos = At(a) - Step + 1
           /\ 0 - 3 * Step <= r.aos
           /\ r.aos <= w.rise \/ r.aos = 0
           /\ w.rise - r.aos < Step
           /\ w.set <= r.los /\ r.los - w.set < 2 * Step
           /\ r.maxElevation = MaxElevation(o, r.aos, r.los)
  <1>1. /\ r.aos = RefineTime(o, At(a), -1) /\ r.los = RefineTime(o, At(l), 1)
        /\ r.maxElevation = MaxElevation(o, r.aos, r.los)
    BY DEF MadeOf, RefinePassTiming, PassOf
  <1>2. /\ r.aos \in Int
        /\ a # 0 => r.aos = At(a) - Step + 1
        /\ r.aos <= w.rise \/ r.aos = 0
        /\ w.rise - r.aos < Step
        /\ r.aos <= At(a) /\ 0 - 3 * Step <= r.aos
    BY <1>1, RefineAos DEF MadeOf
  <1>3. r.los = At(l) + Step - 1
    BY <1>1, RefineLos DEF MadeOf
  <1>4. At(l) \in Int /\ At(a) \in Int /\ At(a) + Step <= At(l)
    BY AtFacts, AtOrder DEF MadeOf, Begins, Finishes
  <1>5. w.rise \in Int /\ w.set \in Int
    BY OrbitFacts
  <1>6. r.los \in Int /\ r.aos <= r.los /\ w.set <= r.los /\ r.los - w.set < 2 * Step
    BY <1>2, <1>3, <1>4, <1>5, StepFacts DEF MadeOf, Finishes
  <1> QED BY <1>1, <1>2, <1>3, <1>6

(* No other window reaches into a pass.                                    *)
LEMMA OnlyItsWindow ==
    ASSUME NEW o, IsOrbit(o), NEW w \in o, NEW a, NEW l, NEW r, MadeOf(o, w, a, l, r),
           NEW x \in Int, r.aos <= x, x <= r.los, Above(o, x)
    PROVE  w.rise <= x /\ x <= w.set
  <1>1. PICK v \in o : v.rise <= x /\ x <= v.set
    BY DEF Above
  <1>2. w.rise - r.aos < Step /\ r.los - w.set < 2 * Step /\ r.aos \in Int /\ r.los \in Int
    BY PassFacts
  <1>3. /\ w.rise \in Int /\ w.set \in Int /\ v.rise \in Int /\ v.set \in Int
        /\ v = w \/ v.set + 2 * Step < w.rise \/ w.set + 2 * Step < v.rise
    BY OrbitFacts
  <1>4. v = w
    BY <1>1, <1>2, <1>3, StepFacts
  <1> QED BY <1>1, <1>4

(* The maximum is that of the window: a pass that reaches High does so in  *)
(* it, and one that is High for Fine seconds is seen to be.                *)
LEMMA PassElevation ==
    ASSUME NEW o, IsOrbit(o), NEW w \in o, NEW a, NEW l, NEW r, MadeOf(o, w, a, l, r)
    PROVE  /\ r.maxElevation \in 0..90
           /\ r.maxElevation >= High => w.peak >= High
           /\ r.aos <= w.rise =>
                \A t \in w.rise..w.set :
                   (\A k \in 0..(Fine - 1) : Elevation({w}, t + k) >= High)
                     => r.maxElevation >= High
  <1>1. /\ r.aos \in Int /\ r.los \in Int /\ r.aos <= r.los /\ w.set <= r.los
        /\ r.maxElevation = MaxElevation(o, r.aos, r.los)
    BY PassFacts
  <1> DEFINE top == r.maxElevation
  <1>2. /\ top \in 0..90
        /\ \E x \in Int : r.aos <= x /\ x <= r.los /\ Elevation(o, x) = top
        /\ \A i \in 0..((r.los - r.aos) \div Fine) : Elevation(o, r.aos + i * Fine) <= top
    BY <1>1, MaxElevationFacts
  <1> HIDE DEF top
  <1>3. w.rise \in Int /\ w.set \in Int /\ w.rise <= w.set /\ w.peak \in Int /\ 1 <= w.peak
    BY OrbitFacts
  <1>4. High \in Int
    BY QualityAssumption
  <1>5. ASSUME top >= High PROVE w.peak >= High
    <2>1. PICK x \in Int : r.aos <= x /\ x <= r.los /\ Elevation(o, x) = top
      BY <1>2
    <2>2. CASE top > 0
      <3>1. Above(o, x)
        BY <2>1, <2>2, ElevationFacts
      <3>2. w.rise <= x /\ x <= w.set
        BY <2>1, <3>1, OnlyItsWindow
      <3>3. top = Height(w, x) /\ Height(w, x) <= w.peak
        BY <2>1, <3>2, HeightOfWindow
      <3> QED BY <1>2, <1>3, <1>4, <1>5, <3>3
    <2> QED BY <1>2, <1>3, <1>4, <1>5, <2>2
  <1>6. ASSUME r.aos <= w.rise, NEW t \in w.rise..w.set,
               \A k \in 0..(Fine - 1) : Elevation({w}, t + k) >= High
        PROVE  top >= High
    <2>1. CASE High <= 0
      BY <1>2, <1>4, <2>1
    <2>2. CASE High > 0
      <3>1. t \in Int /\ w.rise <= t /\ t <= w.set
        BY <1>3
      <3>2. \A k \in 0..(Fine - 1) : t + k \in Int /\ k \in Int
        BY <3>1, StepFacts
      <3>3. IsOrbit({w})
        BY DEF IsOrbit
      <3>4. \A k \in 0..(Fine - 1) : Elevation({w}, t + k) \in Int
        BY <3>2, <3>3, ElevationFacts
      <3>5. \A k \in 0..(Fine - 1) : Elevation({w}, t + k) > 0
        BY <1>4, <1>6, <2>2, <3>4
      <3>6. \A k \in 0..(Fine - 1) :
               w.rise <= t + k /\ t + k <= w.set /\ Elevation(o, t + k) = Elevation({w}, t + k)
        BY <3>2, <3>5, WindowAlone
      <3>7. Fine - 1 \in 0..(Fine - 1)
        BY StepFacts
      <3>8. t + (Fine - 1) <= w.set
        BY <3>6, <3>7
      <3>9. r.aos <= t /\ t + (Fine - 1) <= r.los
        BY <1>1, <1>3, <1>6, <3>1, <3>8, StepFacts
      <3>10. PICK i \in 0..((r.los - r.aos) \div Fine), k \in 0..(Fine - 1) :
                r.aos + i * Fine = t + k
        BY <1>1, <3>1, <3>9, SampleAmong
      <3>11. Elevation(o, t + k) <= top /\ Elevation(o, t + k) >= High
        BY <1>2, <1>6, <3>6, <3>10
      <3>12. Elevation(o, t + k) \in Int
        BY <3>4, <3>6
      <3> QED BY <1>2, <1>4, <3>11, <3>12
    <2> QED BY <1>4, <2>1, <2>2
  <1> QED BY <1>2, <1>5, <1>6 DEF top

(* Two passes of one orbit do not overlap.                                 *)
LEMMA PassesApart ==
    ASSUME NEW o, IsOrbit(o), NEW v \in o, NEW w \in o, v.set + 2 * Step < w.rise,
           NEW a, NEW l, NEW r, MadeOf(o, v, a, l, r),
           NEW b, NEW m, NEW q, MadeOf(o, w, b, m, q)
    PROVE  r.los < q.aos
  <1>1. /\ v.rise \in Int /\ v.set \in Int /\ w.rise \in Int /\ w.set \in Int
    BY OrbitFacts
  <1>2. /\ a \in Nat /\ l \in Nat /\ b \in Nat /\ a < l
        /\ At(l) \in Int /\ At(b) \in Int /\ At(l + 1) = At(l) + Step /\ At(0) = 0
    BY AtFacts DEF MadeOf, Begins, Finishes
  <1>3. At(l) - Step <= v.set /\ w.rise <= At(b)
    BY DEF MadeOf, Begins, Finishes
  <1>4. At(l) + Step < At(b)
    BY <1>1, <1>2, <1>3, StepFacts
  <1>5. l + 1 < b
    <2>1. b < l + 1 => At(b) + Step <= At(l + 1)
      BY <1>2, AtOrder
    <2>2. b = l + 1 => At(b) = At(l + 1)
      OBVIOUS
    <2> QED BY <1>2, <1>4, <2>1, <2>2, StepFacts
  <1>6. At(l + 1) + Step <= At(b)
    BY <1>2, <1>5, AtOrder
  <1>7. b # 0
    BY <1>2, <1>5
  <1>8. r.los = At(l) + Step - 1 /\ q.aos = At(b) - Step + 1
    BY <1>7, PassFacts
  <1> QED BY <1>2, <1>6, <1>8, StepFacts

----------------------------------------------------------------------------
(* The state.                                                              *)

(* TypeOK without the passes.                                              *)
CallOK ==
    /\ orbit \in Skies
    /\ manualSstvEnabled \in BOOLEAN
    /\ cache = None \/ cache \in [tles : SUBSET Sats, age : Ages]
    /\ stage \in {"idle", "fetching", "saving"}
    /\ wanted \subseteq Sats
    /\ cached = None \/ cached \subseteq Sats
    /\ fresh \subseteq Sats
    /\ tles # None /\ tles \subseteq Sats
    /\ targets \subseteq Sats

(* The list of passes is always that of the elements last returned, and    *)
(* what is about to be saved is not empty.                                 *)
IInv ==
    /\ CallOK
    /\ passes = PredictPasses(targets, tles)
    /\ ServesSomething
    /\ stage = "saving" => fresh # {}

(* A satellite is predicted with elements that are in the list, its own or *)
(* those of a namesake.                                                    *)
LEMMA TleForFacts ==
    ASSUME NEW list, list \subseteq Sats, NEW s, TleFor(s, list) # None
    PROVE  /\ TleFor(s, list) \in list /\ TleFor(s, list) \in Sats
           /\ TleFor(s, list) \in Namesakes(s)
  <1> DEFINE hits == {i \in DOMAIN Satellites : Satellites[i] \in list /\ Matches(Satellites[i], s)}
             first == CHOOSE i \in hits : \A j \in hits : i <= j
  <1>1. TleFor(s, list) = IF hits = {} THEN None ELSE Satellites[first]
    BY DEF TleFor
  <1>2. hits # {}
    BY <1>1
  <1>3. hits \subseteq Nat
    BY SatellitesAssumption
  <1>4. \E i \in hits : \A j \in hits : i <= j
    BY <1>2, <1>3, LeastNumber
  <1>5. first \in hits
    BY <1>4
  <1>6. Satellites[first] \in list
    BY <1>5
  <1>7. Family[Satellites[first]] = Family[s]
    BY <1>5 DEF Matches
  <1> QED BY <1>1, <1>2, <1>6, <1>7 DEF Namesakes

Refined(o) == {RefinePassTiming(o, f) : f \in FindPasses(o)}

(* Every pass is made of a window of the elements used for its satellite.  *)
Predicted(list, p) ==
    /\ p.tle = TleFor(p.sat, list) /\ p.tle \in list /\ p.tle \in Sats
    /\ p.tle \in Namesakes(p.sat)
    /\ IsOrbit(orbit[p.tle])
    /\ \E w \in orbit[p.tle], a, l \in Nat, r \in Refined(orbit[p.tle]) :
          /\ MadeOf(orbit[p.tle], w, a, l, r) /\ l < Samples
          /\ p = [sat |-> p.sat, tle |-> p.tle, aos |-> r.aos, los |-> r.los,
                  maxElevation |-> r.maxElevation]

LEMMA PredictedFacts ==
    ASSUME orbit \in Skies, NEW active, active \subseteq Sats, NEW list, list \subseteq Sats,
           NEW p \in PredictPasses(active, list)
    PROVE  p.sat \in active /\ Predicted(list, p)
  <1> DEFINE Of(s) == LET t == TleFor(s, list)
                      IN  IF t = None THEN {}
                          ELSE {[sat |-> s, tle |-> t, aos |-> r.aos, los |-> r.los,
                                 maxElevation |-> r.maxElevation] : r \in Refined(orbit[t])}
  <1>1. PICK s \in active : p \in Of(s)
    BY DEF PredictPasses, Refined
  <1> DEFINE t == TleFor(s, list)
             o == orbit[t]
  <1>2. t # None
    BY <1>1
  <1>3. PICK r \in Refined(o) :
           p = [sat |-> s, tle |-> t, aos |-> r.aos, los |-> r.los, maxElevation |-> r.maxElevation]
    BY <1>1, <1>2
  <1>4. t \in list /\ t \in Sats /\ t \in Namesakes(s)
    BY <1>2, TleForFacts
  <1>5. IsOrbit(o)
    BY <1>4, SkiesAssumption
  <1>6. PICK f \in FindPasses(o) : r = RefinePassTiming(o, f)
    BY DEF Refined
  <1>7. Stems(o, Samples, f)
    BY <1>5, <1>6, FindPassesFacts
  <1>8. PICK w \in o, a \in Nat, l \in Nat :
           Begins(w, a) /\ Finishes(w, l) /\ a < l /\ l < Samples /\ f = PassOf(a, l)
    BY <1>7 DEF Stems
  <1>9. MadeOf(o, w, a, l, r)
    BY <1>6, <1>8 DEF MadeOf
  <1>10. p.sat = s /\ p.tle = t
    BY <1>3
  <1> HIDE DEF t
  <1> QED BY <1>3, <1>4, <1>5, <1>8, <1>9, <1>10 DEF Predicted, t

----------------------------------------------------------------------------
(* The invariant is inductive.                                             *)

LEMMA InitIInv == Init => IInv
  <1> SUFFICES ASSUME Init PROVE IInv
    OBVIOUS
  <1>1. {} # None
    BY NoneAssumption
  <1>2. PredictPasses({}, {}) = {}
    BY DEF PredictPasses
  <1>3. CallOK
    BY <1>1 DEF Init, CallOK
  <1>4. ServesSomething
    BY <1>1 DEF Init, ServesSomething
  <1> QED BY <1>2, <1>3, <1>4 DEF Init, IInv

(* What a return makes of the passes.                                      *)
LEMMA ReturnPredicts ==
    ASSUME NEW asked, NEW list, asked \subseteq Sats, list \subseteq Sats, list # {},
           Return(asked, list), orbit' = orbit
    PROVE  /\ tles' # None /\ tles' \subseteq Sats /\ targets' \subseteq Sats
           /\ targets' # {} => tles' # {}
           /\ passes' = PredictPasses(targets, tles)'
  <1>1. tles' = list /\ targets' = asked /\ passes' = PredictPasses(asked, list)
    BY DEF Return
  <1>2. PredictPasses(targets, tles)' = PredictPasses(asked, list)
    BY <1>1 DEF PredictPasses
  <1> QED BY <1>1, <1>2, NoneAssumption

LEMMA SamePasses ==
    ASSUME IInv, UNCHANGED <<orbit, tles, targets, passes>>
    PROVE  /\ tles' # None /\ tles' \subseteq Sats /\ targets' \subseteq Sats
           /\ targets' # {} => tles' # {}
           /\ passes' = PredictPasses(targets, tles)'
  BY DEF IInv, CallOK, ServesSomething, PredictPasses

(* What loadCachedTles returns.                                            *)
LEMMA LoadCachedFacts ==
    ASSUME IInv
    PROVE  /\ LoadCached = None \/ LoadCached \subseteq Sats
           /\ LoadCached # {}
  BY NoneAssumption DEF LoadCached, IInv, CallOK, ServesSomething

LEMMA CallPreserves ==
    ASSUME IInv, ServeFromCache \/ BeginFetch \/ \E ok \in SUBSET Sats : Fetched(ok)
    PROVE  IInv'
  <1>1. Active \subseteq Sats
    BY DEF Active
  <1>2. (LoadCached = None \/ LoadCached \subseteq Sats) /\ LoadCached # {}
    BY LoadCachedFacts
  <1>3. CASE ServeFromCache
    <2>1. LoadCached # None
      BY <1>3 DEF ServeFromCache, CacheIsValid
    <2>2. /\ Return(Active, LoadCached)
          /\ UNCHANGED <<orbit, manualSstvEnabled, cache, stage, wanted, cached, fresh>>
      BY <1>3 DEF ServeFromCache, call
    <2>3. /\ tles' # None /\ tles' \subseteq Sats /\ targets' \subseteq Sats
          /\ targets' # {} => tles' # {}
          /\ passes' = PredictPasses(targets, tles)'
      BY <1>1, <1>2, <2>1, <2>2, ReturnPredicts
    <2>4. CallOK'
      BY <2>2, <2>3 DEF IInv, CallOK
    <2>5. ServesSomething' /\ (stage' = "saving" => fresh' # {})
      BY <2>2, <2>3 DEF IInv, ServesSomething
    <2> QED BY <2>3, <2>4, <2>5 DEF IInv
  <1>4. CASE BeginFetch
    <2>1. /\ tles' # None /\ tles' \subseteq Sats /\ targets' \subseteq Sats
          /\ targets' # {} => tles' # {}
          /\ passes' = PredictPasses(targets, tles)'
      BY <1>4, SamePasses DEF BeginFetch
    <2>2. CallOK'
      BY <1>1, <1>2, <1>4, <2>1 DEF BeginFetch, IInv, CallOK
    <2>3. ServesSomething' /\ (stage' = "saving" => fresh' # {})
      BY <1>2, <1>4, <2>1 DEF BeginFetch, IInv, ServesSomething
    <2> QED BY <2>1, <2>2, <2>3 DEF IInv
  <1>5. ASSUME NEW ok \in SUBSET Sats, Fetched(ok) PROVE IInv'
    <2>1. /\ tles' # None /\ tles' \subseteq Sats /\ targets' \subseteq Sats
          /\ targets' # {} => tles' # {}
          /\ passes' = PredictPasses(targets, tles)'
      BY <1>5, SamePasses DEF Fetched
    <2>2. CallOK'
      BY <1>5, <2>1 DEF Fetched, IInv, CallOK
    <2>3. ServesSomething' /\ (stage' = "saving" => fresh' # {})
      BY <1>5, <2>1 DEF Fetched, IInv, ServesSomething
    <2> QED BY <2>1, <2>2, <2>3 DEF IInv
  <1> QED BY <1>3, <1>4, <1>5

(* A list that is saved.                                                   *)
LEMMA SavedCache ==
    ASSUME NEW list, list \subseteq Sats, list # {}
    PROVE  /\ [tles |-> list, age |-> 0] \in [tles : SUBSET Sats, age : Ages]
           /\ [tles |-> list, age |-> 0].tles # {}
  BY StepAssumption DEF Ages

LEMMA EndPreserves ==
    ASSUME IInv, FetchFailed \/ SaveTlesToCache \/ SaveFails
    PROVE  IInv'
  <1>1. {} # None
    BY NoneAssumption
  <1>2. /\ stage' = "idle" /\ wanted' = {} /\ cached' = None /\ fresh' = {}
        /\ orbit' = orbit /\ manualSstvEnabled' = manualSstvEnabled
    BY DEF FetchFailed, SaveTlesToCache, SaveFails, Ends
  <1>3. /\ cache' = None \/ cache' \in [tles : SUBSET Sats, age : Ages]
        /\ cache' # None => cache'.tles # {}
    <2>1. CASE FetchFailed
      BY <2>1 DEF FetchFailed, IInv, CallOK, ServesSomething
    <2>2. CASE SaveTlesToCache \/ SaveFails
      <3>1. fresh \subseteq Sats /\ fresh # {}
        BY <2>2 DEF SaveTlesToCache, SaveFails, IInv, CallOK
      <3>2. cache' \in {cache, None, [tles |-> fresh, age |-> 0]}
        BY <2>2 DEF SaveTlesToCache, SaveFails
      <3> QED BY <3>1, <3>2, SavedCache DEF IInv, CallOK, ServesSomething
    <2> QED BY <2>1, <2>2
  <1>4. /\ tles' # None /\ tles' \subseteq Sats /\ targets' \subseteq Sats
        /\ targets' # {} => tles' # {}
        /\ passes' = PredictPasses(targets, tles)'
    <2>1. CASE UNCHANGED <<tles, targets, passes>>
      BY <1>2, <2>1, SamePasses
    <2>2. CASE FetchFailed /\ cached # None
      <3>1. Return(wanted, cached)
        BY <2>2 DEF FetchFailed
      <3>2. wanted \subseteq Sats /\ cached \subseteq Sats /\ cached # {}
        BY <2>2 DEF IInv, CallOK, ServesSomething
      <3> QED BY <1>2, <3>1, <3>2, ReturnPredicts
    <2>3. CASE SaveTlesToCache
      <3>1. Return(wanted, fresh)
        BY <2>3 DEF SaveTlesToCache
      <3>2. wanted \subseteq Sats /\ fresh \subseteq Sats /\ fresh # {}
        BY <2>3 DEF SaveTlesToCache, IInv, CallOK
      <3> QED BY <1>2, <3>1, <3>2, ReturnPredicts
    <2> QED BY <2>1, <2>2, <2>3 DEF FetchFailed, SaveFails
  <1>5. CallOK'
    BY <1>2, <1>3, <1>4 DEF IInv, CallOK
  <1>6. ServesSomething' /\ (stage' = "saving" => fresh' # {})
    BY <1>1, <1>2, <1>3, <1>4 DEF ServesSomething
  <1> QED BY <1>4, <1>5, <1>6 DEF IInv

LEMMA OthersPreserve ==
    ASSUME IInv,
           Hour \/ ToggleSstv \/ \E ok \in (SUBSET Sats) \ {{}} : OtherSaves(ok)
    PROVE  IInv'
  <1>1. /\ UNCHANGED <<orbit, stage, wanted, cached, fresh>>
        /\ UNCHANGED <<tles, targets, passes>>
    BY DEF Hour, ToggleSstv, SetManualSstvEnabled, OtherSaves, call
  <1>2. /\ tles' # None /\ tles' \subseteq Sats /\ targets' \subseteq Sats
        /\ targets' # {} => tles' # {}
        /\ passes' = PredictPasses(targets, tles)'
    BY <1>1, SamePasses
  <1>3. manualSstvEnabled' \in BOOLEAN
    BY DEF Hour, ToggleSstv, SetManualSstvEnabled, OtherSaves, IInv, CallOK
  <1>4. /\ cache' = None \/ cache' \in [tles : SUBSET Sats, age : Ages]
        /\ cache' # None => cache'.tles # {}
    <2>1. CASE Hour
      BY <2>1, StepAssumption DEF Hour, IInv, CallOK, ServesSomething, Ages
    <2>2. CASE ToggleSstv
      BY <2>2 DEF ToggleSstv, SetManualSstvEnabled, IInv, CallOK, ServesSomething
    <2>3. CASE \E ok \in (SUBSET Sats) \ {{}} : OtherSaves(ok)
      BY <2>3, SavedCache DEF OtherSaves
    <2> QED BY <2>1, <2>2, <2>3
  <1>5. CallOK'
    BY <1>1, <1>2, <1>3, <1>4 DEF IInv, CallOK
  <1>6. ServesSomething' /\ (stage' = "saving" => fresh' # {})
    BY <1>1, <1>2, <1>4 DEF IInv, ServesSomething
  <1> QED BY <1>2, <1>5, <1>6 DEF IInv

LEMMA NextIInv == IInv /\ [Next]_vars => IInv'
  <1> SUFFICES ASSUME IInv, [Next]_vars PROVE IInv'
    OBVIOUS
  <1>1. CASE UNCHANGED vars
    <2>1. /\ UNCHANGED <<orbit, manualSstvEnabled, cache, stage, wanted, cached, fresh>>
          /\ UNCHANGED <<tles, targets, passes>>
      BY <1>1 DEF vars, call
    <2>2. passes' = PredictPasses(targets, tles)'
      BY <2>1, SamePasses
    <2> QED BY <2>1, <2>2 DEF IInv, CallOK, ServesSomething
  <1> QED BY <1>1, CallPreserves, EndPreserves, OthersPreserve DEF Next

(* The inductive invariant holds in every reachable state.                 *)
THEOREM Invariance == Spec => []IInv
  BY InitIInv, NextIInv, PTL DEF Spec

(* getTles never returns an empty list and the cache is never emptied,     *)
(* whatever fails and whoever else saves.                                  *)
THEOREM CacheServesSomething == Spec => []ServesSomething
  <1> IInv => ServesSomething BY DEF IInv
  <1> QED BY Invariance, PTL

----------------------------------------------------------------------------
(* What holds of the passes in a state that satisfies the invariant.       *)

LEMMA PassesArePredicted ==
    ASSUME IInv
    PROVE  \A p \in passes : p.sat \in targets /\ Predicted(tles, p)
  <1>1. orbit \in Skies /\ targets \subseteq Sats /\ tles \subseteq Sats
    BY DEF IInv, CallOK
  <1> QED BY <1>1, PredictedFacts DEF IInv

(* Type correctness: every pass lies within three samples of the horizon.  *)
THEOREM PredictionTypeCorrect == Spec => []TypeOK
  <1>1. IInv => TypeOK
    <2> SUFFICES ASSUME IInv PROVE TypeOK
      OBVIOUS
    <2>1. ASSUME NEW p \in passes PROVE {p.sat, p.tle} \subseteq Sats /\ {p.aos, p.los} \subseteq Times
      <3>1. p.sat \in targets /\ targets \subseteq Sats /\ Predicted(tles, p)
        BY PassesArePredicted DEF IInv, CallOK
      <3> DEFINE o == orbit[p.tle]
      <3>2. IsOrbit(o) /\ p.tle \in Sats
        BY <3>1 DEF Predicted
      <3>3. PICK w \in o, a \in Nat, l \in Nat, r \in Refined(o) :
               MadeOf(o, w, a, l, r) /\ l < Samples /\ p.aos = r.aos /\ p.los = r.los
        BY <3>1 DEF Predicted
      <3>4. /\ r.aos \in Int /\ r.los \in Int /\ r.aos <= r.los /\ r.los = At(l) + Step - 1
            /\ 0 - 3 * Step <= r.aos
        BY <3>2, <3>3, PassFacts
      <3>5. At(l) <= Horizon /\ At(l) \in Int
        <4>1. l = Samples - 1 \/ At(l) + Step <= At(Samples - 1)
          BY <3>3, SamplesFacts, AtOrder
        <4>2. At(l) \in Int /\ At(Samples - 1) \in Int
          BY <3>3, SamplesFacts, AtFacts
        <4> QED BY <4>1, <4>2, SamplesFacts, StepFacts
      <3>6. r.aos \in Times /\ r.los \in Times
        BY <3>4, <3>5, StepFacts DEF Times
      <3> QED BY <3>1, <3>2, <3>3, <3>6
    <2> QED BY <2>1 DEF IInv, CallOK, TypeOK
  <1> QED BY <1>1, Invariance, PTL

(* Every pass is real for elements of its satellite or of a namesake, and  *)
(* is not much longer than its window.                                     *)
THEOREM PassesAreReal == Spec => []PassIsReal
  <1>1. IInv => PassIsReal
    <2> SUFFICES ASSUME IInv, NEW p \in passes
                 PROVE  /\ p.tle \in tles \cap Namesakes(p.sat)
                        /\ \E w \in orbit[p.tle] :
                             /\ p.aos <= w.rise \/ p.aos = 0
                             /\ w.rise - p.aos < Step
                             /\ w.set <= p.los /\ p.los - w.set < 2 * Step
                             /\ p \in Captured => w.peak >= High \/ p.los - p.aos >= Long
      BY DEF PassIsReal
    <2>1. Predicted(tles, p) /\ p.tle \in tles \cap Namesakes(p.sat)
      BY PassesArePredicted DEF Predicted
    <2> DEFINE o == orbit[p.tle]
    <2>2. IsOrbit(o)
      BY <2>1 DEF Predicted
    <2>3. PICK w \in o, a \in Nat, l \in Nat, r \in Refined(o) :
             /\ MadeOf(o, w, a, l, r)
             /\ p.aos = r.aos /\ p.los = r.los /\ p.maxElevation = r.maxElevation
      BY <2>1 DEF Predicted
    <2>4. /\ r.aos <= w.rise \/ r.aos = 0
          /\ w.rise - r.aos < Step
          /\ w.set <= r.los /\ r.los - w.set < 2 * Step
      BY <2>2, <2>3, PassFacts
    <2>5. r.maxElevation >= High => w.peak >= High
      BY <2>2, <2>3, PassElevation
    <2>6. p \in Captured => p.maxElevation >= High \/ p.los - p.aos >= Long
      BY DEF Captured, FilterHighQualityPasses
    <2> QED BY <2>1, <2>3, <2>4, <2>5, <2>6
  <1> QED BY <1>1, Invariance, PTL

(* The refined passes of one satellite do not overlap.                     *)
THEOREM OwnPassesAreDisjoint == Spec => []OwnPassesDisjoint
  <1>1. IInv => OwnPassesDisjoint
    <2> SUFFICES ASSUME IInv, NEW p \in passes, NEW q \in passes, p.sat = q.sat, p # q
                 PROVE  p.los < q.aos \/ q.los < p.aos
      BY DEF OwnPassesDisjoint
    <2>1. Predicted(tles, p) /\ Predicted(tles, q) /\ p.tle = q.tle
      BY PassesArePredicted DEF Predicted
    <2> DEFINE o == orbit[p.tle]
    <2>2. IsOrbit(o)
      BY <2>1 DEF Predicted
    <2>3. PICK v \in o, a \in Nat, l \in Nat, r \in Refined(o) :
             /\ MadeOf(o, v, a, l, r)
             /\ p = [sat |-> p.sat, tle |-> p.tle, aos |-> r.aos, los |-> r.los,
                     maxElevation |-> r.maxElevation]
      BY <2>1 DEF Predicted
    <2>4. PICK w \in o, b \in Nat, m \in Nat, s \in Refined(o) :
             /\ MadeOf(o, w, b, m, s)
             /\ q = [sat |-> q.sat, tle |-> q.tle, aos |-> s.aos, los |-> s.los,
                     maxElevation |-> s.maxElevation]
      BY <2>1 DEF Predicted
    <2>5. p.aos = r.aos /\ p.los = r.los /\ q.aos = s.aos /\ q.los = s.los
      BY <2>3, <2>4
    <2>6. v # w
      <3> SUFFICES ASSUME v = w PROVE FALSE
        OBVIOUS
      <3>1. a = b
        BY <2>2, <2>3, <2>4, SamplesOfWindow DEF MadeOf
      <3>2. l = m
        BY <2>2, <2>3, <2>4, EndOfWindow DEF MadeOf
      <3>3. r = s
        BY <2>3, <2>4, <3>1, <3>2 DEF MadeOf
      <3> QED BY <2>1, <2>3, <2>4, <3>3
    <2>7. v.set + 2 * Step < w.rise \/ w.set + 2 * Step < v.rise
      BY <2>2, <2>6, OrbitFacts
    <2>8. v.set + 2 * Step < w.rise => r.los < s.aos
      BY <2>2, <2>3, <2>4, PassesApart
    <2>9. w.set + 2 * Step < v.rise => s.los < r.aos
      BY <2>2, <2>3, <2>4, PassesApart
    <2> QED BY <2>5, <2>7, <2>8, <2>9
  <1> QED BY <1>1, Invariance, PTL

(* No window that can be caught is missed or cut short, and one that is    *)
(* High for as long as two samples of the elevation are apart is captured. *)
THEOREM WindowsAreCovered == Spec => []WindowCovered
  <1>1. IInv => WindowCovered
    <2> SUFFICES ASSUME IInv, NEW s \in targets,
                        NEW w \in UNION {orbit[t] : t \in {TleFor(s, tles)} \ {None}},
                        Catchable(w)
                 PROVE  \E p \in passes :
                           /\ p.sat = s /\ p.aos <= w.rise /\ w.set <= p.los
                           /\ (\E t \in w.rise..w.set :
                                  \A k \in 0..(Fine - 1) : Elevation({w}, t + k) >= High)
                                => p \in Captured
      BY Zenon DEF WindowCovered
    <2>0. PICK t \in {TleFor(s, tles)} \ {None} : w \in orbit[t]
      OBVIOUS
    <2> DEFINE o == orbit[t]
    <2>1. t = TleFor(s, tles) /\ t # None /\ t \in Sats /\ w \in o
      BY <2>0, TleForFacts DEF IInv, CallOK
    <2>2. IsOrbit(o)
      BY <2>1, SkiesAssumption DEF IInv, CallOK
    <2>3. w.rise \in Int /\ w.set \in Int /\ 0 < w.rise
      BY <2>1, <2>2, OrbitFacts DEF Catchable
    <2>4. Fits(w) /\ w.set < At(Samples - 1)
      <3>1. At(Samples - 1) \in Int
        BY SamplesFacts, AtFacts
      <3> QED BY <2>3, <3>1, SamplesFacts, StepFacts DEF Catchable, Fits
    <2>5. PICK a \in Nat, l \in Nat :
             Begins(w, a) /\ Finishes(w, l) /\ a < l /\ PassOf(a, l) \in FindPasses(o)
      BY <2>1, <2>2, <2>4, FindPassesFacts
    <2> DEFINE r == RefinePassTiming(o, PassOf(a, l))
               p == [sat |-> s, tle |-> t, aos |-> r.aos, los |-> r.los,
                     maxElevation |-> r.maxElevation]
    <2>6. MadeOf(o, w, a, l, r)
      BY <2>5 DEF MadeOf
    <2>7. p \in PredictPasses(targets, tles)
      <3>1. r \in {RefinePassTiming(o, f) : f \in FindPasses(o)}
        BY <2>5
      <3> HIDE DEF r
      <3> QED BY <2>1, <3>1 DEF PredictPasses
    <2>8. p \in passes
      BY <2>7 DEF IInv
    <2> HIDE DEF r
    <2>9. /\ r.aos \in Int /\ a # 0 => r.aos = At(a) - Step + 1
          /\ r.aos <= w.rise \/ r.aos = 0
          /\ w.set <= r.los
      BY <2>1, <2>2, <2>6, PassFacts
    <2>10. r.aos <= w.rise
      BY <2>3, <2>9
    <2>11. ASSUME NEW x \in w.rise..w.set,
                  \A k \in 0..(Fine - 1) : Elevation({w}, x + k) >= High
           PROVE  p \in Captured
      <3>1. r.maxElevation >= High
        BY <2>1, <2>2, <2>6, <2>10, <2>11, PassElevation
      <3> QED BY <2>8, <3>1 DEF Captured, FilterHighQualityPasses
    <2> QED BY <2>8, <2>9, <2>10, <2>11
  <1> QED BY <1>1, Invariance, PTL
=============================================================================
