------------------------- MODULE StreamSettingsProof -------------------------
(***************************************************************************)
(* Proofs about the settings of the FFT stream that web clients change:    *)
(* the notch filters (Spectrum) and the gain (GainControl).                *)
(*                                                                         *)
(* Of the filters: their list and what a filter does to a frame, for any   *)
(* frequencies and widths in requests, any distance below which filters    *)
(* are merged, any length of the list and any number, width and levels of  *)
(* the bins.  Of the gain: for any range and step, any number of samples   *)
(* to an adjustment and any set of frequencies.                            *)
(***************************************************************************)
EXTENDS Spectrum, GainControl, SequenceTheorems, TLAPS

----------------------------------------------------------------------------
(* The notch filters.                                                      *)

(* No two filters of a list are nearer than MergeDistance.                 *)
Apart(list) ==
    \A i, j \in DOMAIN list :
        i # j => Distance(list[i].frequency, list[j].frequency) >= MergeDistance

IInv ==
    /\ TypeOK
    /\ Apart(notchFilters)

Lists == Seq(NotchFilter)

(* What is in a list.                                                      *)
LEMMA ListFacts ==
    ASSUME NEW list \in Lists
    PROVE  /\ Len(list) \in Nat /\ DOMAIN list = 1..Len(list)
           /\ \A i \in 1..Len(list) : list[i] \in NotchFilter /\ list[i].frequency \in Int
  <1>1. Len(list) \in Nat /\ DOMAIN list = 1..Len(list)
    BY LenProperties DEF Lists
  <1>2. \A i \in 1..Len(list) : list[i] \in NotchFilter
    BY ElementOfSeq DEF Lists
  <1>3. \A x \in NotchFilter : x.frequency \in Int
    BY DEF NotchFilter
  <1> QED BY <1>1, <1>2, <1>3

(* A frequency cannot be near three filters that are apart: so among those *)
(* it is near there is a first one, and find returns it.                   *)
LEMMA FindIsNear ==
    ASSUME NEW list \in Lists, Apart(list), NEW f \in Int, Near(list, f) # {}
    PROVE  Find(list, f) \in Near(list, f) /\ Find(list, f) \in 1..Len(list)
  <1> DEFINE N == Near(list, f)
             F(k) == list[k].frequency
  <1>1. PICK i \in N : TRUE
    OBVIOUS
  <1>2. \A k \in N : /\ k \in DOMAIN list /\ k \in 1..Len(list) /\ k \in Int
                     /\ F(k) \in Int
                     /\ Distance(F(k), f) < MergeDistance
    BY ListFacts DEF Near
  <1>3. \A k, m \in N : k # m => Distance(F(k), F(m)) >= MergeDistance
    BY <1>2 DEF Apart
  <1> HIDE DEF N, F
  <1>4. ASSUME NEW j \in N, j < i, NEW k \in N, k < j PROVE FALSE
    <2>1. i # j /\ i # k /\ j # k
      BY <1>1, <1>2, <1>4
    <2>2. /\ Distance(F(i), F(j)) >= MergeDistance
          /\ Distance(F(i), F(k)) >= MergeDistance
          /\ Distance(F(j), F(k)) >= MergeDistance
      BY <1>1, <1>3, <2>1
    <2>3. F(i) \in Int /\ F(j) \in Int /\ F(k) \in Int
      BY <1>1, <1>2
    <2>4. /\ Distance(F(i), f) < MergeDistance
          /\ Distance(F(j), f) < MergeDistance
          /\ Distance(F(k), f) < MergeDistance
      BY <1>1, <1>2
    <2> QED BY <2>2, <2>3, <2>4, FiltersAssumption DEF Distance
  <1>5. \E m \in N : \A k \in N : m <= k
    <2>1. CASE \A k \in N : i <= k
      BY <1>1, <2>1
    <2>2. CASE \E j \in N : j < i
      <3>1. PICK j \in N : j < i
        BY <2>2
      <3>2. \A k \in N : j <= k
        BY <1>2, <1>4, <3>1
      <3> QED BY <3>2
    <2> QED BY <1>1, <1>2, <2>1, <2>2
  <1>6. Find(list, f) \in N
    BY <1>5 DEF Find, N
  <1> QED BY <1>2, <1>6 DEF N

(* A change of a filter that leaves its frequency.                         *)
LEMMA ChangeKeepsApart ==
    ASSUME NEW list \in Lists, Apart(list), NEW k \in 1..Len(list),
           NEW filter \in NotchFilter, filter.frequency = list[k].frequency
    PROVE  /\ [list EXCEPT ![k] = filter] \in Lists
           /\ Apart([list EXCEPT ![k] = filter])
           /\ Len([list EXCEPT ![k] = filter]) = Len(list)
  <1> DEFINE new == [list EXCEPT ![k] = filter]
  <1>1. /\ new \in Lists /\ Len(new) = Len(list)
        /\ \A j \in 1..Len(list) : new[j] = IF j = k THEN filter ELSE list[j]
    BY ExceptSeq DEF Lists
  <1> HIDE DEF new
  <1>2. \A j \in 1..Len(list) : new[j].frequency = list[j].frequency
    BY <1>1
  <1>3. DOMAIN new = 1..Len(list) /\ DOMAIN list = 1..Len(list)
    BY <1>1, ListFacts
  <1>4. Apart(new)
    BY <1>2, <1>3 DEF Apart
  <1> QED BY <1>1, <1>4 DEF new

(* A filter that is added is apart from all others, or was merged.         *)
LEMMA AddKeepsApart ==
    ASSUME NEW list \in Lists, Apart(list), NEW f \in Int, NEW w \in Int
    PROVE  AddNotchFilter(list, f, w) \in Lists /\ Apart(AddNotchFilter(list, f, w))
  <1>1. CASE Near(list, f) # {}
    <2> DEFINE k == Find(list, f)
               filter == [list[k] EXCEPT !.width = w, !.enabled = TRUE]
    <2>1. k \in 1..Len(list)
      BY <1>1, FindIsNear
    <2>2. list[k] \in NotchFilter
      BY <2>1, ListFacts
    <2> HIDE DEF k
    <2>3. filter \in NotchFilter /\ filter.frequency = list[k].frequency
      BY <2>2 DEF NotchFilter
    <2>4. [list EXCEPT ![k] = filter] \in Lists /\ Apart([list EXCEPT ![k] = filter])
      BY <2>1, <2>3, ChangeKeepsApart
    <2>5. AddNotchFilter(list, f, w) = [list EXCEPT ![k] = filter]
      BY <1>1, <2>1, <2>2, ListFacts DEF AddNotchFilter, k, NotchFilter
    <2> QED BY <2>4, <2>5
  <1>2. CASE Near(list, f) = {}
    <2> DEFINE filter == [frequency |-> f, width |-> w, enabled |-> TRUE]
               new == Append(list, filter)
               last == Len(list) + 1
    <2>1. filter \in NotchFilter /\ filter.frequency = f
      BY DEF NotchFilter
    <2> HIDE DEF filter
    <2>2. /\ new \in Lists /\ Len(new) = last /\ new[last] = filter
          /\ \A i \in 1..Len(list) : new[i] = list[i]
      BY <2>1, AppendProperties DEF Lists
    <2>3. Len(list) \in Nat /\ DOMAIN list = 1..Len(list) /\ DOMAIN new = 1..last
      BY <2>2, ListFacts
    <2> HIDE DEF new
    <2>4. \A i \in 1..Len(list) : /\ list[i].frequency \in Int
                                  /\ Distance(list[i].frequency, f) >= MergeDistance
                                  /\ Distance(f, list[i].frequency) >= MergeDistance
      BY <1>2, <2>3, ListFacts, FiltersAssumption DEF Near, Distance
    <2>5. Apart(new)
      <3> SUFFICES ASSUME NEW i \in 1..last, NEW j \in 1..last, i # j
                   PROVE  Distance(new[i].frequency, new[j].frequency) >= MergeDistance
        BY <2>3 DEF Apart
      <3>1. CASE i \in 1..Len(list) /\ j \in 1..Len(list)
        BY <2>2, <2>3, <3>1 DEF Apart
      <3>2. CASE i \in 1..Len(list) /\ j = last
        BY <2>1, <2>2, <2>4, <3>2
      <3>3. CASE i = last /\ j \in 1..Len(list)
        BY <2>1, <2>2, <2>4, <3>3
      <3> QED BY <2>3, <3>1, <3>2, <3>3
    <2> QED BY <1>2, <2>2, <2>5 DEF AddNotchFilter, new, filter
  <1> QED BY <1>1, <1>2

LEMMA EnableKeepsApart ==
    ASSUME NEW list \in Lists, Apart(list), NEW f \in Int, NEW e \in BOOLEAN
    PROVE  /\ SetNotchFilterEnabled(list, f, e) \in Lists
           /\ Apart(SetNotchFilterEnabled(list, f, e))
           /\ Len(SetNotchFilterEnabled(list, f, e)) = Len(list)
  <1>1. CASE Near(list, f) # {}
    <2> DEFINE k == Find(list, f)
               filter == [list[k] EXCEPT !.enabled = e]
    <2>1. k \in 1..Len(list)
      BY <1>1, FindIsNear
    <2>2. list[k] \in NotchFilter
      BY <2>1, ListFacts
    <2> HIDE DEF k
    <2>3. filter \in NotchFilter /\ filter.frequency = list[k].frequency
      BY <2>2 DEF NotchFilter
    <2>4. SetNotchFilterEnabled(list, f, e) = [list EXCEPT ![k] = filter]
      BY <1>1 DEF SetNotchFilterEnabled, k
    <2> HIDE DEF filter
    <2>5. /\ [list EXCEPT ![k] = filter] \in Lists
          /\ Apart([list EXCEPT ![k] = filter])
          /\ Len([list EXCEPT ![k] = filter]) = Len(list)
      BY <2>1, <2>3, ChangeKeepsApart
    <2> QED BY <2>4, <2>5
  <1> QED BY <1>1 DEF SetNotchFilterEnabled

(* Removing moves the filters behind it, and changes none.                 *)
LEMMA RemoveKeepsApart ==
    ASSUME NEW list \in Lists, Apart(list), NEW f \in Int
    PROVE  /\ RemoveNotchFilter(list, f) \in Lists
           /\ Apart(RemoveNotchFilter(list, f))
           /\ Len(RemoveNotchFilter(list, f)) <= Len(list)
  <1>1. CASE Near(list, f) # {}
    <2> DEFINE k == Find(list, f)
               front == SubSeq(list, 1, k - 1)
               back == SubSeq(list, k + 1, Len(list))
               new == front \o back
               old(i) == IF i < k THEN i ELSE i + 1
    <2>1. k \in 1..Len(list) /\ Len(list) \in Nat /\ DOMAIN list = 1..Len(list)
      BY <1>1, FindIsNear, ListFacts
    <2> HIDE DEF k
    <2>2. /\ \A i \in 1..(k - 1) : list[i] \in NotchFilter
          /\ \A i \in (k + 1)..Len(list) : list[i] \in NotchFilter
      BY <2>1, ListFacts
    <2>3. /\ front \in Seq(NotchFilter) /\ Len(front) = k - 1
          /\ \A i \in 1..(k - 1) : front[i] = list[i]
      <3>1. 1 \in Int /\ k - 1 \in Int
        BY <2>1
      <3>2. /\ front \in Seq(NotchFilter)
            /\ Len(front) = IF 1 <= k - 1 THEN k - 1 - 1 + 1 ELSE 0
            /\ \A i \in 1..(k - 1 - 1 + 1) : front[i] = list[1 + i - 1]
        BY <2>2, <3>1, SubSeqProperties
      <3> HIDE DEF front
      <3> QED BY <2>1, <3>2
    <2>4. /\ back \in Seq(NotchFilter) /\ Len(back) = Len(list) - k
          /\ \A i \in 1..(Len(list) - k) : back[i] = list[k + i]
      <3>1. k + 1 \in Int /\ Len(list) \in Int
        BY <2>1
      <3>2. /\ back \in Seq(NotchFilter)
            /\ Len(back) = IF k + 1 <= Len(list) THEN Len(list) - (k + 1) + 1 ELSE 0
            /\ \A i \in 1..(Len(list) - (k + 1) + 1) : back[i] = list[(k + 1) + i - 1]
        BY <2>2, <3>1, SubSeqProperties
      <3> HIDE DEF back
      <3>3. Len(back) = Len(list) - k
        <4> DEFINE n == Len(list)
        <4>1. n \in Nat /\ k \in 1..n
          BY <2>1
        <4>2. Len(back) = IF k + 1 <= n THEN n - (k + 1) + 1 ELSE 0
          BY <3>2
        <4> HIDE DEF n
        <4>3. (IF k + 1 <= n THEN n - (k + 1) + 1 ELSE 0) = n - k
          BY <4>1
        <4> QED BY <4>2, <4>3 DEF n
      <3>4. Len(list) - (k + 1) + 1 = Len(list) - k
        BY <2>1
      <3>5. \A i \in 1..(Len(list) - k) : (k + 1) + i - 1 = k + i
        BY <2>1
      <3>6. \A i \in 1..(Len(list) - k) : back[i] = list[k + i]
        BY <3>2, <3>4, <3>5
      <3> QED BY <3>2, <3>3, <3>6
    <2> HIDE DEF front, back
    <2>5. /\ new \in Lists /\ Len(new) = Len(list) - 1
          /\ \A i \in 1..(Len(list) - 1) : new[i] = IF i <= k - 1 THEN front[i] ELSE back[i - (k - 1)]
      <3>1. /\ new \in Lists /\ Len(new) = Len(front) + Len(back)
            /\ \A i \in 1..(Len(front) + Len(back)) :
                  new[i] = IF i <= Len(front) THEN front[i] ELSE back[i - Len(front)]
        BY <2>3, <2>4, ConcatProperties DEF Lists
      <3>2. Len(front) + Len(back) = Len(list) - 1
        BY <2>1, <2>3, <2>4
      <3> QED BY <2>3, <3>1, <3>2
    <2> HIDE DEF new
    <2>6. \A i \in 1..(Len(list) - 1) : old(i) \in 1..Len(list) /\ new[i] = list[old(i)]
      BY <2>1, <2>3, <2>4, <2>5
    <2>7. \A i, j \in 1..(Len(list) - 1) : i # j => old(i) # old(j)
      BY <2>1
    <2> HIDE DEF old
    <2>8. DOMAIN new = 1..(Len(list) - 1)
      BY <2>5, ListFacts
    <2>9. Apart(new)
      BY <2>1, <2>6, <2>7, <2>8 DEF Apart
    <2>10. RemoveNotchFilter(list, f) = new
      BY <1>1 DEF RemoveNotchFilter, RemoveAt, k, new, front, back
    <2> QED BY <2>1, <2>5, <2>9, <2>10
  <1>2. CASE Near(list, f) = {}
    BY <1>2, ListFacts DEF RemoveNotchFilter
  <1> QED BY <1>1, <1>2

LEMMA InitIInv == Init => IInv
  <1> SUFFICES ASSUME Init PROVE IInv
    OBVIOUS
  <1>1. <<>> \in Lists /\ Len(<<>>) = 0 /\ Apart(<<>>) /\ Near(<<>>, KnownFrequency) = {}
    BY EmptySeq DEF Lists, Apart, Near
  <1>2. notchFilters \in Lists /\ Apart(notchFilters)
    BY <1>1, AddKeepsApart, FiltersAssumption DEF Init
  <1>3. Len(notchFilters) = 1
    <2> DEFINE filter == [frequency |-> KnownFrequency, width |-> KnownWidth, enabled |-> TRUE]
    <2>1. filter \in NotchFilter
      BY FiltersAssumption DEF NotchFilter
    <2>2. notchFilters = Append(<<>>, filter)
      BY <1>1 DEF Init, AddNotchFilter
    <2> HIDE DEF filter
    <2> QED BY <1>1, <2>1, <2>2, AppendProperties DEF Lists
  <1>4. 1 <= MaxFilters
    BY FiltersAssumption
  <1> QED BY <1>2, <1>3, <1>4 DEF Init, IInv, TypeOK, Lists

LEMMA NextIInv == IInv /\ [Next]_vars => IInv'
  <1> SUFFICES ASSUME IInv, [Next]_vars PROVE IInv'
    OBVIOUS
  <1> USE FiltersAssumption DEF IInv, TypeOK, Lists
  <1>1. ASSUME NEW f \in Requests, NEW w \in Widths, PostNotch(f, w) PROVE IInv'
    <2> DEFINE v == IF w = 0 THEN DefaultWidth ELSE w
    <2>1. f \in Int /\ v \in Int
      OBVIOUS
    <2> HIDE DEF v
    <2>2. notchFilters' = AddNotchFilter(notchFilters, f, v)
      BY <1>1 DEF PostNotch, v
    <2>3. notchFilters' \in Lists /\ Apart(notchFilters')
      BY <2>1, <2>2, AddKeepsApart
    <2> QED BY <1>1, <2>3 DEF PostNotch, Apart
  <1>2. ASSUME NEW f \in Requests, DeleteNotch(f) PROVE IInv'
    <2>1. /\ notchFilters' \in Lists /\ Apart(notchFilters')
          /\ Len(notchFilters') <= Len(notchFilters)
      BY <1>2, RemoveKeepsApart DEF DeleteNotch
    <2> QED BY <1>2, <2>1 DEF DeleteNotch, Apart
  <1>3. ASSUME NEW f \in Requests, NEW e \in BOOLEAN, ToggleNotch(f, e) PROVE IInv'
    <2>1. /\ notchFilters' \in Lists /\ Apart(notchFilters')
          /\ Len(notchFilters') = Len(notchFilters)
      BY <1>3, EnableKeepsApart DEF ToggleNotch
    <2> QED BY <1>3, <2>1 DEF ToggleNotch, Apart
  <1>4. CASE ClearNotch
    BY <1>4 DEF ClearNotch, ClearNotchFilters, Apart
  <1>5. ASSUME NEW f \in Centres, Retune(f) PROVE IInv'
    BY <1>5 DEF Retune, Apart
  <1>6. CASE UNCHANGED vars
    BY <1>6 DEF vars, Apart
  <1> QED BY <1>1, <1>2, <1>3, <1>4, <1>5, <1>6 DEF Next

(* The inductive invariant holds in every reachable state.                 *)
THEOREM Invariance == Spec => []IInv
  BY InitIInv, NextIInv, PTL DEF Spec

(* The list of filters is type correct and within its bound.               *)
THEOREM SpectrumTypeCorrect == Spec => []TypeOK
  <1> IInv => TypeOK BY DEF IInv
  <1> QED BY Invariance, PTL

(* Every filter can be removed and switched by the frequency the list      *)
(* shows for it, after any requests to add, merge, switch and remove.      *)
THEOREM FiltersFindThemselves == Spec => []FindsOwn
  <1>1. IInv => FindsOwn
    <2> SUFFICES ASSUME IInv, NEW i \in DOMAIN notchFilters
                 PROVE  Find(notchFilters, notchFilters[i].frequency) = i
      BY DEF FindsOwn
    <2> DEFINE f == notchFilters[i].frequency
    <2>1. notchFilters \in Lists /\ Apart(notchFilters)
      BY DEF Lists, IInv, TypeOK
    <2>2. f \in Int /\ \A j \in DOMAIN notchFilters : notchFilters[j].frequency \in Int
      BY <2>1, ListFacts
    <2>3. \A j \in DOMAIN notchFilters : j # i => ~ (Distance(notchFilters[j].frequency, f) < MergeDistance)
      BY <2>1, <2>2, FiltersAssumption DEF Apart, Distance
    <2>4. Distance(f, f) < MergeDistance
      BY <2>2, FiltersAssumption DEF Distance
    <2>5. Near(notchFilters, f) = {i}
      BY <2>3, <2>4 DEF Near
    <2>6. Find(notchFilters, f) \in Near(notchFilters, f)
      BY <2>1, <2>2, <2>5, FindIsNear
    <2> QED BY <2>5, <2>6
  <1> QED BY <1>1, Invariance, PTL

----------------------------------------------------------------------------
(* Bins and frequencies.                                                   *)

LEMMA DivFacts ==
    ASSUME NEW a \in Int, NEW b \in Nat \ {0}
    PROVE  a \div b \in Int /\ b * (a \div b) <= a /\ a < b * (a \div b) + b
  OBVIOUS

LEMMA TimesOrder ==
    ASSUME NEW i \in Int, NEW j \in Int, i < j, NEW b \in Nat \ {0}
    PROVE  i * b + b <= j * b
  OBVIOUS

LEMMA TimesSum ==
    ASSUME NEW i \in Int, NEW j \in Int, NEW b \in Int
    PROVE  (i + j) * b = i * b + j * b /\ (i - j) * b = i * b - j * b
  OBVIOUS

LEMMA MaxMin ==
    ASSUME NEW j \in Int, NEW k \in Int
    PROVE  /\ Max({k}) = k
           /\ Max({j, k}) = IF j <= k THEN k ELSE j
           /\ Min({j, k}) = IF j <= k THEN j ELSE k
  BY DEF Max, Min

(* The output of the transform that computePowerSpectrum moves to bin i.   *)
Source(i) == IF i < fftSize \div 2 THEN i + fftSize \div 2 ELSE i - fftSize \div 2

(* The bins are in the order of frequency: bin i shows what is received    *)
(* at startFreq + i * BinWidth.                                            *)
LEMMA BinFrequency ==
    ASSUME TypeOK, NEW i \in Bins
    PROVE  /\ startFreq \in Int
           /\ Source(i) \in Bins
           /\ PhysicalFrequency(Source(i)) = startFreq + i * BinWidth
  <1> DEFINE h == fftSize \div 2
  <1>1. h \in Nat /\ fftSize = h + h /\ fftSize \in Nat /\ BinWidth \in Int /\ i \in Int /\ centre \in Int
    BY SizeAssumption, FiltersAssumption DEF TypeOK, Bins
  <1>2. 0 <= i /\ i < fftSize
    BY <1>1 DEF Bins
  <1>3. fftSize * BinWidth = 2 * (h * BinWidth)
    BY <1>1, TimesSum
  <1>4. (fftSize * BinWidth) \div 2 = h * BinWidth
    BY <1>1, <1>3
  <1>5. startFreq = centre - h * BinWidth
    BY <1>4 DEF startFreq
  <1>6. CASE i < h
    <2>1. Source(i) = i + h /\ ~ (i + h < h) /\ i + h - fftSize = i - h
      BY <1>1, <1>2, <1>6 DEF Source
    <2>2. (i - h) * BinWidth = i * BinWidth - h * BinWidth
      BY <1>1, TimesSum
    <2> QED BY <1>1, <1>2, <1>5, <1>6, <2>1, <2>2 DEF PhysicalFrequency, Bins
  <1>7. CASE ~ (i < h)
    <2>1. Source(i) = i - h /\ i - h < h
      BY <1>1, <1>2, <1>7 DEF Source
    <2>2. (i - h) * BinWidth = i * BinWidth - h * BinWidth
      BY <1>1, TimesSum
    <2> QED BY <1>1, <1>2, <1>5, <1>7, <2>1, <2>2 DEF PhysicalFrequency, Bins
  <1> QED BY <1>6, <1>7

(* The two bins that fill a notch are outside of it, if it has bins and    *)
(* leaves the first and the last one.                                      *)
LEMMA NeighboursOutside ==
    ASSUME TypeOK, NEW g \in NotchFilter, Inner(g), Notch(g) # {},
           NEW s, NEW t, \A i \in Bins \ Notch(g) : s[i] = t[i]
    PROVE  Neighbours(g, s) = Neighbours(g, t)
  <1> DEFINE F == g.frequency
             W == g.width
             lo == (F - W - startFreq) \div BinWidth
             up == (startFreq - F - W) \div BinWidth
             L == Max({0, lo - 2})
             R == Min({fftSize - 1, -up + 2})
  <1>1. fftSize \in Nat \ {0} /\ BinWidth \in Nat \ {0}
    BY SizeAssumption
  <1>2. F \in Int /\ W \in Int
    BY DEF NotchFilter
  <1>3. PICK b \in Bins : Distance(startFreq + b * BinWidth, F) <= W
    BY DEF Notch
  <1>4. startFreq \in Int /\ b \in Int /\ 0 <= b /\ b <= fftSize - 1
    BY <1>1, <1>3, BinFrequency DEF Bins
  <1>5. F - W <= startFreq + b * BinWidth /\ startFreq + b * BinWidth <= F + W /\ W >= 0
    BY <1>1, <1>2, <1>3, <1>4 DEF Distance
  <1>6. lo \in Int /\ lo * BinWidth <= F - W - startFreq
    <2> DEFINE a == F - W - startFreq
    <2>1. a \in Int
      BY <1>2, <1>4
    <2> HIDE DEF a
    <2>2. a \div BinWidth \in Int /\ BinWidth * (a \div BinWidth) <= a
      BY <2>1, <1>1, DivFacts
    <2>3. (a \div BinWidth) * BinWidth <= a
      BY <2>2, <1>1
    <2> QED BY <2>2, <2>3 DEF a
  <1>7. up \in Int /\ up * BinWidth <= startFreq - F - W
    <2> DEFINE a == startFreq - F - W
    <2>1. a \in Int
      BY <1>2, <1>4
    <2> HIDE DEF a
    <2>2. a \div BinWidth \in Int /\ BinWidth * (a \div BinWidth) <= a
      BY <2>1, <1>1, DivFacts
    <2>3. (a \div BinWidth) * BinWidth <= a
      BY <2>2, <1>1
    <2> QED BY <2>2, <2>3 DEF a
  <1> HIDE DEF lo, up, F, W
  <1>8. L \in Bins \ Notch(g)
    <2>1. L = IF 0 <= lo - 2 THEN lo - 2 ELSE 0
      <3> DEFINE m == lo - 2
      <3>1. m \in Int
        BY <1>6
      <3> HIDE DEF m
      <3>2. Max({0, m}) = IF 0 <= m THEN m ELSE 0
        BY <3>1 DEF Max
      <3> QED BY <3>2 DEF m
    <2>2. CASE 0 <= lo - 2
      <3>1. (lo - 2) * BinWidth < lo * BinWidth
        BY <1>1, <1>6, TimesOrder
      <3>2. startFreq + (lo - 2) * BinWidth < F - W
        BY <1>1, <1>2, <1>4, <1>6, <3>1
      <3>3. lo - 2 < b
        <4>1. (lo - 2) * BinWidth < b * BinWidth
          BY <1>1, <1>2, <1>4, <1>5, <1>6, <3>2
        <4> QED BY <4>1, <1>1, <1>4, <1>6, TimesOrder
      <3>4. ~ (Distance(startFreq + (lo - 2) * BinWidth, F) <= W)
        BY <1>1, <1>2, <1>4, <1>5, <1>6, <3>2 DEF Distance
      <3> QED BY <1>1, <1>4, <1>6, <2>1, <2>2, <3>3, <3>4 DEF Notch, Bins, F, W
    <2>3. CASE ~ (0 <= lo - 2)
      BY <1>1, <2>1, <2>3 DEF Inner, Bins
    <2> QED BY <2>2, <2>3
  <1>9. R \in Bins \ Notch(g)
    <2>1. R = IF fftSize - 1 <= -up + 2 THEN fftSize - 1 ELSE -up + 2
      <3> DEFINE l == fftSize - 1
                 m == -up + 2
      <3>1. l \in Int /\ m \in Int
        BY <1>1, <1>7
      <3> HIDE DEF l, m
      <3>2. Min({l, m}) = IF l <= m THEN l ELSE m
        BY <3>1, MaxMin
      <3> QED BY <3>2 DEF l, m
    <2>2. CASE ~ (fftSize - 1 <= -up + 2)
      <3>1. (-up + 2) * BinWidth = 2 * BinWidth - up * BinWidth
        BY <1>1, <1>7
      <3>2. startFreq + (-up + 2) * BinWidth > F + W
        BY <1>1, <1>2, <1>4, <1>7, <3>1
      <3>3. b < -up + 2
        <4>1. b * BinWidth < (-up + 2) * BinWidth
          BY <1>1, <1>2, <1>4, <1>5, <1>7, <3>2
        <4> QED BY <4>1, <1>1, <1>4, <1>7, TimesOrder
      <3>4. ~ (Distance(startFreq + (-up + 2) * BinWidth, F) <= W)
        BY <1>1, <1>2, <1>4, <1>5, <1>7, <3>2 DEF Distance
      <3> QED BY <1>1, <1>4, <1>7, <2>1, <2>2, <3>3, <3>4 DEF Notch, Bins, F, W
    <2>3. CASE fftSize - 1 <= -up + 2
      BY <1>1, <2>1, <2>3 DEF Inner, Bins
    <2> QED BY <2>2, <2>3
  <1>10. Neighbours(g, s) = s[L] + s[R] /\ Neighbours(g, t) = t[L] + t[R]
    BY DEF Neighbours, lo, up, F, W
  <1> QED BY <1>8, <1>9, <1>10

(* With one filter enabled, a frame has the bins outside its notch as they *)
(* are and the others filled.                                              *)
LEMMA OneFilter ==
    ASSUME TypeOK, NEW k \in DOMAIN notchFilters, Enabled = {k}, NEW bins, NEW i \in Bins
    PROVE  ApplyNotchFilters(bins)[i] =
             IF i \in Notch(notchFilters[k]) THEN Neighbours(notchFilters[k], bins)
             ELSE 2 * bins[i]
  <1>1. k \in Int
    BY ListFacts DEF TypeOK, Lists
  <1>2. Covering(i) = IF i \in Notch(notchFilters[k]) THEN {k} ELSE {}
    BY DEF Covering, Enabled
  <1>3. Max({k}) = k
    BY <1>1, MaxMin
  <1> QED BY <1>2, <1>3 DEF ApplyNotchFilters

(* Whatever is received within the width of the only enabled filter, a     *)
(* frame does not show it, and it shows the rest as received.              *)
THEOREM CarriersAreRemoved == Spec => []CarrierRemoved
  <1>1. ASSUME TypeOK, NEW k \in Enabled, Enabled = {k}, Inner(notchFilters[k]),
               NEW s \in Spectra, NEW silence
        PROVE  LET hit(n) == Distance(PhysicalFrequency(n), notchFilters[k].frequency)
                               <= notchFilters[k].width
               IN  /\ Frame(s) = Frame([n \in Bins |-> IF hit(n) THEN silence ELSE s[n]])
                   /\ \A n \in Bins : ~ hit(n) =>
                        Frame(s)[(n + fftSize \div 2) % fftSize] = 2 * s[n]
    <2> DEFINE g == notchFilters[k]
               hit(n) == Distance(PhysicalFrequency(n), g.frequency) <= g.width
               q == [n \in Bins |-> IF hit(n) THEN silence ELSE s[n]]
    <2>1. k \in DOMAIN notchFilters /\ g \in NotchFilter
      BY <1>1, ListFacts DEF Enabled, TypeOK, Lists
    <2>2. \A i \in Bins : i \in Notch(g) <=> hit(Source(i))
      BY <1>1, BinFrequency DEF Notch
    <2>3. \A i \in Bins : Reordered(s)[i] = s[Source(i)] /\ Reordered(q)[i] = q[Source(i)]
      BY DEF Reordered, Source
    <2>4. \A i \in Bins \ Notch(g) : Reordered(s)[i] = Reordered(q)[i]
      BY <1>1, <2>2, <2>3, BinFrequency
    <2> HIDE DEF q, hit, g
    <2>5. ASSUME NEW i \in Bins PROVE Frame(s)[i] = Frame(q)[i]
      <3>1. CASE i \in Notch(g)
        <4>1. Neighbours(g, Reordered(s)) = Neighbours(g, Reordered(q))
          BY <1>1, <2>1, <2>4, <3>1, NeighboursOutside DEF g
        <4> QED BY <1>1, <2>1, <3>1, <4>1, OneFilter DEF Frame, g
      <3>2. CASE i \notin Notch(g)
        BY <1>1, <2>1, <2>4, <3>2, OneFilter DEF Frame, g
      <3> QED BY <3>1, <3>2
    <2>6. Frame(s) = Frame(q)
      <3>1. Frame(s) = [i \in Bins |-> Frame(s)[i]] /\ Frame(q) = [i \in Bins |-> Frame(q)[i]]
        BY DEF Frame, ApplyNotchFilters
      <3> QED BY <2>5, <3>1
    <2>7. ASSUME NEW n \in Bins, ~ hit(n)
          PROVE  Frame(s)[(n + fftSize \div 2) % fftSize] = 2 * s[n]
      <3> DEFINE p == (n + fftSize \div 2) % fftSize
      <3>1. p \in Bins /\ Source(p) = n
        BY SizeAssumption DEF Source, Bins
      <3> HIDE DEF p
      <3>2. p \notin Notch(g)
        BY <2>2, <2>7, <3>1
      <3>3. Frame(s)[p] = 2 * s[n]
        BY <1>1, <2>1, <2>3, <3>1, <3>2, OneFilter DEF Frame, g
      <3> QED BY <3>3 DEF p
    <2> QED BY <2>6, <2>7 DEF q, hit, g
  <1>2. TypeOK => CarrierRemoved
    <2> SUFFICES ASSUME TypeOK, NEW k \in Enabled, Enabled = {k}, Inner(notchFilters[k]),
                        NEW s \in Spectra
                 PROVE  CarrierRemoved!(k)!2!(s)
      BY DEF CarrierRemoved
    <2> DEFINE silence == CHOOSE l \in Levels : TRUE
               hit(n) == Distance(PhysicalFrequency(n), notchFilters[k].frequency)
                           <= notchFilters[k].width
               q == [n \in Bins |-> IF hit(n) THEN silence ELSE s[n]]
    <2>1. Frame(s) = Frame(q)
      <3> HIDE DEF silence
      <3> QED BY <1>1
    <2>2. \A n \in Bins : ~ hit(n) => Frame(s)[(n + fftSize \div 2) % fftSize] = 2 * s[n]
      BY <1>1
    <2> QED BY <2>1, <2>2
  <1> QED BY <1>2, SpectrumTypeCorrect, PTL

----------------------------------------------------------------------------
(* The gain.                                                              *)

GainIInv ==
    /\ GainTypeOK
    /\ GainInRange
    /\ NeverRecalibratesFinalGain

(* Every frequency belongs to one of the three bands.                      *)
LEMMA BandOfFrequency == \A f \in Freqs : classifyBand(f) \in Bands
  BY DEF classifyBand, Bands

(* The default gain, and the receiver's range, are allowed.                *)
LEMMA DefaultInAllowed ==
    ASSUME sdrGain \in EnvGains \cup {None}
    PROVE  /\ defaultGain \in Int /\ defaultGain \in Allowed
           /\ Gains \subseteq Allowed /\ Allowed \subseteq Int
  <1>1. defaultGain \in Int
    BY GainAssumption, NoneAssumption DEF defaultGain
  <1> QED BY <1>1, GainAssumption DEF Allowed, Gains, Max2, Min2

(* One adjustment step stays within the limits.                            *)
LEMMA AdjustedInRange ==
    ASSUME sdrGain \in EnvGains \cup {None}, autoGain \in Allowed, NEW level \in Averages
    PROVE  Adjusted(level) \in Allowed
  <1>1. defaultGain \in Int
    BY DefaultInAllowed
  <1> QED BY <1>1, GainAssumption DEF Adjusted, Allowed, Max2, Min2, Averages

(* A gain in the allowed range stays in it: the environment does not       *)
(* change.                                                                 *)
LEMMA AllowedStays == UNCHANGED sdrGain => Allowed' = Allowed
  BY DEF Allowed, defaultGain, Max2, Min2

LEMMA InitGainIInv == GainInit => GainIInv
  <1> SUFFICES ASSUME GainInit PROVE GainIInv
    OBVIOUS
  <1>1. enabled \in BOOLEAN
    BY DEF GainInit, CreateAutoGain, FixedGain
  <1>2. sdrGain \in EnvGains \cup {None} /\ defaultGain \in Int /\ defaultGain \in Allowed
    BY DefaultInAllowed DEF GainInit
  <1> QED
    BY <1>1, <1>2, SamplesAssumption
    DEF GainInit, CreateAutoGain, GainIInv, GainTypeOK, GainInRange, NeverRecalibratesFinalGain, Bands

(* A start hands an admissible gain to rtl_sdr, at once or later.          *)
LEMMA StartAdmissible ==
    ASSUME GainIInv, NEW f \in Freqs, NEW g \in Allowed \cup ApiGains, Start(f, g)
    PROVE  /\ tunedTo' \in Freqs \cup {None}
           /\ runsAt' \in Allowed \cup ApiGains
           /\ retune' \in Retunes \cup {None}
           /\ retune' # None => retune'.gain \in Allowed \cup ApiGains
  <1>1. g \in Int
    BY DefaultInAllowed, GainAssumption DEF GainIInv, GainTypeOK
  <1>2. CASE UNCHANGED <<tunedTo, runsAt, retune>>
    BY <1>2 DEF GainIInv, GainTypeOK, GainInRange
  <1>3. CASE tunedTo' = f /\ runsAt' = g /\ UNCHANGED retune
    BY <1>3 DEF GainIInv, GainTypeOK, GainInRange
  <1>4. CASE retune' = [freq |-> f, gain |-> g] /\ UNCHANGED <<tunedTo, runsAt>>
    BY <1>1, <1>4 DEF GainIInv, GainTypeOK, GainInRange, Retunes
  <1> QED BY <1>2, <1>3, <1>4 DEF Start

(* The debounce timer fires for a frequency of the band.                   *)
LEMMA StartKeepsGains == GainIInv /\ StartTimer => GainIInv'
  <1> SUFFICES ASSUME GainIInv, StartTimer PROVE GainIInv'
    OBVIOUS
  <1> DEFINE band == classifyBand(pendingFFTStart)
  <1>0. /\ defaultGain \in Allowed /\ Allowed \subseteq Int
        /\ Allowed' = Allowed /\ sdrGain' = sdrGain
    BY DefaultInAllowed, AllowedStays DEF GainIInv, GainTypeOK, StartTimer, SelectBand
  <1>1. band \in Bands
    BY BandOfFrequency DEF GainIInv, GainTypeOK, StartTimer
  <1>2. GainFor(band) \in Allowed
    BY <1>0, <1>1 DEF GainFor, GainIInv, GainInRange
  <1>3. enabled' \in BOOLEAN
    BY DEF StartTimer, SelectBand, AutoGainEnable, AutoGainDisable
  <1>4. /\ currentBand' = band /\ currentGain' = GainFor(band) /\ samples' = 0
        /\ store' = store /\ autoGain' \in Allowed
        /\ enabled' => store[band] = None
    BY <1>2 DEF StartTimer, SelectBand, AutoGainEnable, AutoGainDisable, NeedsCalibration, GainIInv,
              GainInRange
  <1>8. Start(pendingFFTStart, GainFor(band)) /\ pendingFFTStart \in Freqs
    BY <1>4 DEF StartTimer, GainIInv, GainTypeOK
  <1> HIDE DEF band
  <1>9. /\ tunedTo' \in Freqs \cup {None}
        /\ runsAt' \in Allowed \cup ApiGains
        /\ retune' \in Retunes \cup {None}
        /\ retune' # None => retune'.gain \in Allowed \cup ApiGains
    BY <1>2, <1>8, StartAdmissible
  <1>5. NeverRecalibratesFinalGain'
    BY <1>4 DEF NeverRecalibratesFinalGain
  <1>6. GainInRange'
    BY <1>0, <1>2, <1>4, <1>9 DEF GainIInv, GainInRange, GainTypeOK
  <1>7. GainTypeOK'
    BY <1>0, <1>1, <1>2, <1>3, <1>4, <1>9, GainAssumption, SamplesAssumption
    DEF StartTimer, GainIInv, GainTypeOK
  <1> QED BY <1>5, <1>6, <1>7 DEF GainIInv

(* A frame feeds the calibration.                                          *)
LEMMA FeedKeepsGains ==
    ASSUME GainIInv,
           FeedWaits \/ \E level \in Averages : FeedAdjusts(level) \/ FeedSettles(level)
    PROVE  GainIInv'
  <1>0. Allowed \subseteq Int /\ Allowed' = Allowed
    BY DefaultInAllowed, AllowedStays DEF GainIInv, GainTypeOK, FeedWaits, FeedAdjusts, FeedSettles
  <1> USE <1>0, SamplesAssumption, NoneAssumption
      DEF GainIInv, GainTypeOK, GainInRange, NeverRecalibratesFinalGain, Entries, Stored
  <1>1. CASE FeedWaits
    BY <1>1 DEF FeedWaits
  <1>2. ASSUME NEW level \in Averages, FeedAdjusts(level) PROVE GainIInv'
    <2> DEFINE a == Adjusted(level)
    <2>1. a \in Allowed
      BY AdjustedInRange
    <2>2. /\ samples' = 0 /\ autoGain' = a /\ currentGain' = a
          /\ store' = [store EXCEPT ![currentBand] = [gain |-> a, calibrated |-> FALSE]]
          /\ pendingFFTStart' = tunedTo
          /\ UNCHANGED <<sdrGain, enabled, currentBand, tunedTo, runsAt, retune>>
      BY <1>2 DEF FeedAdjusts
    <2> HIDE DEF a
    <2>3. GainTypeOK'
      <3>1. [gain |-> a, calibrated |-> FALSE] \in Entries
        BY <2>1
      <3>2. store' \in [Bands -> Entries \cup {None}]
        BY <2>2, <3>1 DEF GainIInv, GainTypeOK
      <3>3. enabled' \in BOOLEAN
        BY <2>2
      <3> QED BY <2>1, <2>2, <3>2, <3>3
    <2>4. GainInRange'
      BY <2>1, <2>2
    <2>5. NeverRecalibratesFinalGain'
      BY <2>2
    <2> QED BY <2>3, <2>4, <2>5
  <1>3. ASSUME NEW level \in Averages, FeedSettles(level) PROVE GainIInv'
    <2>1. enabled' \in BOOLEAN /\ ~ enabled'
      BY <1>3 DEF FeedSettles
    <2> QED BY <1>3, <2>1 DEF FeedSettles
  <1> QED BY <1>1, <1>2, <1>3

(* The requests and the ends of the process.                               *)
LEMMA RequestKeepsGains ==
    ASSUME GainIInv,
           \/ Respawn \/ StreamEnds \/ EnableAutoGain
           \/ \E f \in Freqs : RequestFrequency(f)
           \/ \E f \in Freqs, g \in ApiGains : ApiStart(f, g)
           \/ \E g \in Int : PostGain(g) \/ FftSetGain(g)
    PROVE  GainIInv'
  <1>0. /\ Allowed \subseteq Int /\ Gains \subseteq Allowed
        /\ Allowed' = Allowed /\ ApiGains \subseteq Int
    BY DefaultInAllowed, AllowedStays, GainAssumption
    DEF GainIInv, GainTypeOK, Respawn, StreamEnds, EnableAutoGain, RequestFrequency,
        ApiStart, PostGain, FftSetGain, SetGain, control
  <1> USE <1>0, SamplesAssumption, NoneAssumption
      DEF GainIInv, GainTypeOK, GainInRange, NeverRecalibratesFinalGain, Entries, Stored
  <1>1. CASE Respawn
    BY <1>1 DEF Respawn, control, Retunes
  <1>2. CASE StreamEnds
    BY <1>2 DEF StreamEnds, control
  <1>3. CASE EnableAutoGain
    <2>1. enabled' \in BOOLEAN
      BY <1>3 DEF EnableAutoGain, AutoGainEnable, Cleared
    <2> QED BY <1>3, <2>1 DEF EnableAutoGain, AutoGainEnable, Cleared
  <1>4. CASE \E f \in Freqs : RequestFrequency(f)
    BY <1>4 DEF RequestFrequency, control
  <1>5. ASSUME NEW g \in Gains, SetGain(g) PROVE GainIInv'
    <2>1. enabled' \in BOOLEAN /\ ~ enabled'
      BY <1>5 DEF SetGain, AutoGainSetGain
    <2> QED BY <1>5, <2>1 DEF SetGain, AutoGainSetGain, Running
  <1>6. ASSUME NEW f \in Freqs, NEW g \in ApiGains, ApiStart(f, g) PROVE GainIInv'
    <2>1. PICK h \in Allowed \cup ApiGains : Start(f, h)
      BY <1>6 DEF ApiStart
    <2>2. /\ tunedTo' \in Freqs \cup {None}
          /\ runsAt' \in Allowed \cup ApiGains
          /\ retune' \in Retunes \cup {None}
          /\ retune' # None => retune'.gain \in Allowed \cup ApiGains
      BY <2>1, StartAdmissible
    <2>3. UNCHANGED <<control, pendingFFTStart>>
      BY <1>6 DEF ApiStart
    <2>4. NeverRecalibratesFinalGain'
      BY <2>3 DEF control
    <2>5. GainInRange'
      BY <2>2, <2>3 DEF control
    <2>6. GainTypeOK'
      BY <2>2, <2>3 DEF control
    <2> QED BY <2>4, <2>5, <2>6
  <1> QED BY <1>1, <1>2, <1>3, <1>4, <1>5, <1>6 DEF PostGain, FftSetGain

LEMMA NextGainIInv == GainIInv /\ [GainNext]_gainVars => GainIInv'
  <1> SUFFICES ASSUME GainIInv, [GainNext]_gainVars PROVE GainIInv'
    OBVIOUS
  <1>1. CASE UNCHANGED gainVars
    BY <1>1, AllowedStays
    DEF gainVars, control, GainIInv, GainTypeOK, GainInRange, NeverRecalibratesFinalGain
  <1>2. \A g \in (minGain - 1)..(maxGain + 1) : g \in Int
    BY GainAssumption
  <1> QED BY <1>1, <1>2, StartKeepsGains, FeedKeepsGains, RequestKeepsGains DEF GainNext

(* The inductive invariant holds in every reachable state.                 *)
THEOREM GainInvariance == GainSpec => []GainIInv
  BY InitGainIInv, NextGainIInv, PTL DEF GainSpec

(* Type correctness.                                                       *)
THEOREM GainTypeCorrect == GainSpec => []GainTypeOK
  <1> GainIInv => GainTypeOK BY DEF GainIInv
  <1> QED BY GainInvariance, PTL

(* No stored or reported gain ever leaves the receiver's range.            *)
THEOREM GainStaysInRange == GainSpec => []GainInRange
  <1> GainIInv => GainInRange BY DEF GainIInv
  <1> QED BY GainInvariance, PTL

(* Calibration never works on a band whose gain is final.                  *)
THEOREM FinalGainNotRecalibrated == GainSpec => []NeverRecalibratesFinalGain
  <1> GainIInv => NeverRecalibratesFinalGain BY DEF GainIInv
  <1> QED BY GainInvariance, PTL

(* A final gain is changed by a request only.                              *)
THEOREM FinalGainIsKept == GainSpec => FinalGainKept
  <1> DEFINE Kept ==
        \A b \in Bands :
          store[b] # None /\ store[b].calibrated =>
            \/ store'[b] = store[b]
            \/ store'[b] = None /\ b = currentBand
            \/ store'[b] # None /\ store'[b].calibrated /\ b = currentBand
  <1>1. GainIInv /\ [GainNext]_gainVars => [Kept]_gainVars
    <2> SUFFICES ASSUME GainIInv, GainNext PROVE Kept
      OBVIOUS
    <2> SUFFICES ASSUME NEW b \in Bands, store[b] # None, store[b].calibrated
                 PROVE  \/ store'[b] = store[b]
                        \/ store'[b] = None /\ b = currentBand
                        \/ store'[b] # None /\ store'[b].calibrated /\ b = currentBand
      OBVIOUS
    <2> USE NoneAssumption DEF GainIInv, GainTypeOK
    <2>1. CASE \/ StartTimer \/ Respawn \/ StreamEnds \/ FeedWaits
               \/ \E f \in Freqs : RequestFrequency(f)
               \/ \E f \in Freqs, g \in ApiGains : ApiStart(f, g)
      BY <2>1 DEF StartTimer, SelectBand, Respawn, StreamEnds, FeedWaits, RequestFrequency,
                  ApiStart, control
    <2>2. CASE \E level \in Averages : FeedAdjusts(level)
      BY <2>2 DEF FeedAdjusts, Stored, NeverRecalibratesFinalGain
    <2>3. CASE \E level \in Averages : FeedSettles(level)
      BY <2>3 DEF FeedSettles, Stored, NeverRecalibratesFinalGain
    <2>4. ASSUME NEW g \in Gains, SetGain(g)
          PROVE  \/ store'[b] = store[b]
                 \/ store'[b] # None /\ store'[b].calibrated /\ b = currentBand
      <3>1. [gain |-> g, calibrated |-> TRUE] \in Entries
        BY GainAssumption DEF Gains, Entries
      <3> QED BY <2>4, <3>1 DEF SetGain, Stored, Entries
    <2>5. CASE EnableAutoGain
      BY <2>5 DEF EnableAutoGain, Cleared
    <2> QED BY <2>1, <2>2, <2>3, <2>4, <2>5 DEF GainNext, PostGain, FftSetGain
  <1> QED BY <1>1, GainInvariance, PTL DEF GainSpec, FinalGainKept
=============================================================================
