--------------------------- MODULE WaterfallProof ---------------------------
(***************************************************************************)
(* Proofs about Waterfall, for any lengths of the history and of the       *)
(* waterfall, any levels, any number of frames, of passes and of messages  *)
(* on their way.                                                           *)
(***************************************************************************)
EXTENDS Waterfall, SequenceTheorems, WellFoundedInduction, TLAPS

(* What messages tell: a frame; an error, or that there is none; that the  *)
(* stream runs, or may run, or that it is off; whether a pass is captured. *)
Carries(m) == m.type \in {"fft_data", "fft_history"}
Stamp(m) == IF m.type = "fft_data" THEN m.t ELSE Last(m.data)
NewestFrames == {m \in Events : Carries(m) /\ Stamp(m) = clock}

ErrorMessages ==
    {m \in Events : m.type \in {"init", "fft_data", "fft_subscribed", "fft_unsubscribed", "fft_error"}}
ErrorOf(m) == IF m.type \in {"fft_data", "fft_unsubscribed"} THEN None ELSE m.error
OldErrors == {m \in ErrorMessages : ErrorOf(m) \notin {None, clock}}

OnMessages ==
    {m \in Events : m.type = "fft_data" \/ (m.type \in {"init", "fft_subscribed"} /\ m.running)}
OffMessages ==
    {m \in Events : \/ m.type \in {"fft_unsubscribed", "fft_error"}
                    \/ m.type \in {"init", "fft_subscribed"} /\ ~ m.running}

StartMessages == {m \in Events : m.type = "pass_start" \/ (m.type = "init" /\ m.pass)}
EndMessages == {m \in Events : m.type = "pass_complete" \/ (m.type = "init" /\ ~ m.pass)}

(* The frames of a queue are in order, from lo to hi.                      *)
Ordered(q, lo, hi) ==
    /\ \A i \in DOMAIN q : Carries(q[i]) => lo <= Stamp(q[i]) /\ Stamp(q[i]) <= hi
    /\ \A i, j \in DOMAIN q :
         i < j /\ Carries(q[i]) /\ Carries(q[j]) => Stamp(q[i]) <= Stamp(q[j])

(* A message of Fix is on its way; every message of Bad is followed by one *)
(* of Fix.                                                                 *)
Comes(q, Fix) == \E j \in DOMAIN q : q[j] \in Fix
Replaced(q, Bad, Fix) ==
    \A i \in DOMAIN q : q[i] \in Bad => \E j \in DOMAIN q : i < j /\ q[j] \in Fix

(* Frames arrive in the order of their emission, and rows are added in it. *)
FramesInOrder ==
    /\ latest <= clock
    /\ rows # <<>> => Last(rows) <= latest
    /\ Ordered(down, latest, clock)

(* A subscriber has the newest frame of the history, or it is on its way.  *)
NewestComes ==
    /\ subscribed /\ fftHistoryBuffer # <<>> =>
         latest = clock \/ Comes(down, NewestFrames)
    /\ ~ dirty => latest = 0 \/ (rows # <<>> /\ Last(rows) = latest)

(* After an old error a subscriber gets a message that replaces it.        *)
ErrorsEnd ==
    subscribed =>
      /\ error \notin {None, clock} => Comes(down, ErrorMessages)
      /\ Replaced(down, OldErrors, ErrorMessages)

(* The page is told in the end whether a pass is captured.                 *)
PassIsTold ==
    /\ capturing /\ ~ active => Comes(down, StartMessages)
    /\ ~ capturing /\ active => Comes(down, EndMessages)
    /\ capturing => Replaced(down, EndMessages, StartMessages)
    /\ ~ capturing => Replaced(down, StartMessages, EndMessages)

(* After what was said of a running stream the page is told that it is     *)
(* off.                                                                    *)
OffIsTold ==
    /\ running => Comes(down, OffMessages)
    /\ Replaced(down, OnMessages, OffMessages)

(* The stream is off during a capture, and no page that may be sent frames *)
(* is tuned to a pass or on the way to it.                                 *)
StreamOff ==
    /\ capturing => phase = "off" /\ ~ pendingFFTStart
    /\ phase \in {"on", "stopping", "retuning"} =>
         ~ active /\ frequency # "pass" /\ ~ Comes(down, StartMessages)

(* A page tuned to a pass believes the stream to be off, or will ask.      *)
PassExplained ==
    /\ ~ dirty => frequency = GetCurrentFrequency(mode, active)
    /\ \/ frequency # "pass"
       \/ \E k \in DOMAIN up : up[k] = "fft_subscribe"
       \/ OffIsTold

----------------------------------------------------------------------------
(* Operators.                                                              *)

Limits == {FFT_HISTORY_MAX, MAX_HISTORY_ROWS}

LEMMA NewestType ==
    ASSUME NEW s \in Seq(Frames), NEW e \in Frames, NEW n \in Limits
    PROVE  Newest(Append(s, e), n) \in Seq(Frames)
  <1> DEFINE a == Append(s, e)
  <1>1. a \in Seq(Frames) /\ Len(a) \in Nat /\ \A i \in 1..Len(a) : a[i] \in Frames
    BY AppendProperties, LenProperties, ElementOfSeq
  <1>2. n \in Nat \ {0}
    BY SizesAssumption DEF Limits
  <1> HIDE DEF a
  <1>3. CASE Len(a) > n
    <2> DEFINE m == Len(a) - n + 1
               k == Len(a)
    <2>1. m \in Int /\ k \in Int /\ \A i \in m..k : a[i] \in Frames
      BY <1>1, <1>2, <1>3
    <2> HIDE DEF m, k
    <2>2. SubSeq(a, m, k) \in Seq(Frames)
      BY <2>1, SubSeqProperties
    <2> QED BY <1>3, <2>2 DEF Newest, a, m, k
  <1> QED BY <1>1, <1>3 DEF Newest, a

(* A bounded history ends with the element added, before which are the     *)
(* last ones of what it was.                                               *)
LEMMA NewestFacts ==
    ASSUME NEW s \in Seq(Frames), NEW e \in Frames, NEW n \in Limits,
           NEW r \in Seq(Frames), r = Newest(Append(s, e), n)
    PROVE  /\ r \in Seq(Frames) /\ r # <<>> /\ Last(r) = e
           /\ Len(r) \in Nat \ {0} /\ Len(r) <= n /\ Len(r) <= Len(s) + 1
           /\ r[Len(r)] = e
           /\ \A i \in 1..(Len(r) - 1) : r[i] = s[Len(s) + 1 - Len(r) + i]
  <1> DEFINE a == Append(s, e)
             l == Len(s)
  <1>0. n \in Nat \ {0}
    BY SizesAssumption DEF Limits
  <1>1. /\ a \in Seq(Frames) /\ a # <<>> /\ Len(a) = l + 1 /\ a[l + 1] = e
        /\ \A i \in 1..l : a[i] = s[i]
    BY AppendProperties
  <1>2. l \in Nat
    BY LenProperties
  <1>3. \A i \in 1..Len(a) : a[i] \in Frames
    BY <1>1, ElementOfSeq
  <1>4. r = IF Len(a) > n THEN SubSeq(a, Len(a) - n + 1, Len(a)) ELSE a
    BY DEF Newest
  <1> HIDE DEF a, l
  <1>5. CASE Len(a) > n
    <2> DEFINE m == l + 2 - n
               k == l + 1
    <2>1. m \in Int /\ k \in Int /\ m <= k /\ \A i \in m..k : a[i] \in Frames
      BY <1>0, <1>1, <1>2, <1>3, <1>5
    <2>2. r = SubSeq(a, m, k)
      BY <1>0, <1>1, <1>2, <1>4, <1>5
    <2> HIDE DEF m, k
    <2>3. /\ SubSeq(a, m, k) \in Seq(Frames)
          /\ Len(SubSeq(a, m, k)) = IF m <= k THEN k - m + 1 ELSE 0
          /\ \A i \in 1 .. k - m + 1 : SubSeq(a, m, k)[i] = a[m + i - 1]
      BY <2>1, SubSeqProperties
    <2>10. Len(r) = n /\ k - m + 1 = n
      BY <1>0, <1>2, <2>1, <2>2, <2>3 DEF m, k
    <2>4. Len(r) = n /\ \A i \in 1..n : r[i] = a[l + 1 - n + i]
      <3> SUFFICES ASSUME NEW i \in 1..n PROVE r[i] = a[l + 1 - n + i]
        BY <2>10
      <3>1. r[i] = a[m + i - 1]
        BY <1>0, <2>2, <2>3, <2>10
      <3>2. m + i - 1 = l + 1 - n + i
        BY <1>0, <1>2 DEF m
      <3> QED BY <3>1, <3>2
    <2>5. r # <<>>
      BY <1>0, <2>2, <2>3, <2>4
    <2>6. \A i \in 1..n : r[i] = IF i = n THEN e ELSE s[l + 1 - n + i]
      BY <1>0, <1>1, <1>2, <1>5, <2>4
    <2>7. Last(r) = e
      BY <1>0, <2>4, <2>6 DEF Last
    <2>8. Len(r) \in Nat \ {0} /\ Len(r) <= n /\ Len(r) <= Len(s) + 1
      BY <1>0, <1>1, <1>2, <1>5, <2>4 DEF l
    <2>9. \A i \in 1..(Len(r) - 1) : r[i] = s[Len(s) + 1 - Len(r) + i]
      BY <1>0, <2>4, <2>6 DEF l
    <2> QED BY <2>2, <2>3, <2>5, <2>7, <2>8, <2>9 DEF Last
  <1>6. CASE ~ (Len(a) > n)
    <2>1. r = a
      BY <1>4, <1>6
    <2>2. \A i \in 1..(l + 1) : a[i] = IF i = l + 1 THEN e ELSE s[i]
      BY <1>1, <1>2
    <2> QED BY <1>0, <1>1, <1>2, <1>6, <2>1, <2>2 DEF Last, l
  <1> QED BY <1>5, <1>6

(* The messages are events.                                                *)
LEMMA MessageTypes ==
    ASSUME TypeOK
    PROVE  /\ InitMessage \in Events
           /\ Subscribed \in Seq(Events)
           /\ History \in Seq(Events)
           /\ \A t \in Frames : [type |-> "fft_data", t |-> t] \in Events
           /\ [type |-> "fft_error", error |-> clock] \in Events
           /\ \A s \in {"fft_unsubscribed", "pass_start", "pass_complete"} :
                [type |-> s] \in Events
  <1>1. IsFFTStreamRunning \in BOOLEAN /\ capturing \in BOOLEAN
    BY DEF IsFFTStreamRunning, TypeOK
  <1>2. StreamError \in Errors /\ clock \in Errors
    BY DEF StreamError, Errors, TypeOK
  <1>3. InitMessage \in [type : {"init"}, running : BOOLEAN, error : Errors, pass : BOOLEAN]
    BY <1>1, <1>2 DEF InitMessage
  <1>4. [type |-> "fft_subscribed", running |-> IsFFTStreamRunning, error |-> StreamError]
           \in [type : {"fft_subscribed"}, running : BOOLEAN, error : Errors]
    BY <1>1, <1>2
  <1>5. Subscribed \in Seq(Events)
    BY <1>4 DEF Subscribed, Events
  <1>6. fftHistoryBuffer # <<>> =>
          [type |-> "fft_history", data |-> fftHistoryBuffer]
             \in [type : {"fft_history"}, data : Seq(Frames) \ {<<>>}]
    BY DEF TypeOK
  <1>7. History \in Seq(Events)
    <2>1. CASE fftHistoryBuffer = <<>>
      BY <2>1 DEF History
    <2>2. CASE fftHistoryBuffer # <<>>
      <3>1. [type |-> "fft_history", data |-> fftHistoryBuffer] \in Events
        BY <1>6, <2>2 DEF Events
      <3> QED BY <2>2, <3>1 DEF History
    <2> QED BY <2>1, <2>2
  <1> QED BY <1>2, <1>3, <1>5, <1>7 DEF Events

(* A queue that messages are added to, or that the first is taken off.     *)
LEMMA SendType ==
    ASSUME TypeOK, NEW events \in Seq(Events), Send(events)
    PROVE  down' \in Seq(Events)
  BY ConcatProperties DEF Send, TypeOK

LEMMA ToSubscriberType ==
    ASSUME TypeOK, NEW event \in Events, ToSubscriber(event)
    PROVE  down' \in Seq(Events)
  <1>1. CASE subscribed
    <2>1. Send(<<event>>) /\ <<event>> \in Seq(Events)
      BY <1>1 DEF ToSubscriber
    <2> QED BY <2>1, SendType
  <1>2. CASE ~ subscribed
    BY <1>2 DEF ToSubscriber, TypeOK
  <1> QED BY <1>1, <1>2

(* The fields of a message.                                                *)
LEMMA EventFields ==
    ASSUME NEW m \in Events
    PROVE  /\ m.type \in {"init", "fft_subscribed"} => m.running \in BOOLEAN
           /\ m.type \in {"init", "fft_subscribed", "fft_error"} => m.error \in Errors
           /\ m.type = "init" => m.pass \in BOOLEAN
           /\ m.type = "fft_data" => m.t \in Frames
           /\ m.type = "fft_history" => m.data \in Seq(Frames) /\ m.data # <<>>
  BY DEF Events

LEMMA LastType ==
    ASSUME NEW S, NEW s \in Seq(S), s # <<>>
    PROVE  Last(s) \in S /\ Len(s) \in Nat \ {0}
  BY EmptySeq, ElementOfSeq, LenProperties DEF Last

----------------------------------------------------------------------------
(* Queues.                                                                 *)

LEMMA Sent ==
    ASSUME NEW q \in Seq(Events), NEW m \in Events, NEW r, r = q \o <<m>>
    PROVE  /\ r \in Seq(Events) /\ Len(q) \in Nat
           /\ DOMAIN q = 1..Len(q) /\ DOMAIN r = 1..(Len(q) + 1)
           /\ \A i \in 1..Len(q) : r[i] = q[i]
           /\ r[Len(q) + 1] = m
  <1>1. <<m>> \in Seq(Events) /\ Len(<<m>>) = 1 /\ <<m>>[1] = m
    OBVIOUS
  <1>2. Len(q) \in Nat /\ DOMAIN q = 1..Len(q)
    BY LenProperties
  <1>3. /\ q \o <<m>> \in Seq(Events)
        /\ Len(q \o <<m>>) = Len(q) + Len(<<m>>)
        /\ \A i \in 1 .. Len(q) + Len(<<m>>) : (q \o <<m>>)[i] =
                     IF i <= Len(q) THEN q[i] ELSE <<m>>[i - Len(q)]
    BY <1>1, ConcatProperties
  <1>4. r \in Seq(Events) /\ Len(r) = Len(q) + 1
    BY <1>1, <1>3
  <1>5. DOMAIN r = 1..(Len(q) + 1)
    BY <1>4, LenProperties
  <1>6. r[Len(q) + 1] = m
    BY <1>1, <1>2, <1>3
  <1>7. \A i \in 1..Len(q) : r[i] = q[i]
    BY <1>1, <1>2, <1>3
  <1> QED BY <1>2, <1>4, <1>5, <1>6, <1>7

LEMMA Taken ==
    ASSUME NEW q \in Seq(Events), q # <<>>
    PROVE  /\ Tail(q) \in Seq(Events) /\ Len(q) \in Nat \ {0}
           /\ DOMAIN q = 1..Len(q) /\ DOMAIN Tail(q) = 1..(Len(q) - 1)
           /\ \A i \in 1..(Len(q) - 1) : Tail(q)[i] = q[i + 1]
           /\ Head(q) = q[1] /\ Head(q) \in Events
  <1>1. Tail(q) \in Seq(Events) /\ Len(Tail(q)) = Len(q) - 1 /\ Head(q) \in Events
    BY HeadTailProperties
  <1>2. \A i \in 1..Len(Tail(q)) : Tail(q)[i] = q[i + 1]
    BY HeadTailProperties
  <1>3. Len(q) \in Nat \ {0} /\ DOMAIN q = 1..Len(q) /\ DOMAIN Tail(q) = 1..Len(Tail(q))
    BY <1>1, EmptySeq, LenProperties
  <1> QED BY <1>1, <1>2, <1>3

LEMMA OrderedFacts ==
    ASSUME NEW q \in Seq(Events), NEW lo \in Int, NEW hi \in Int, Ordered(q, lo, hi)
    PROVE  /\ \A hi2 \in Int, m \in Events :
                hi <= hi2 /\ lo <= hi2 /\ (Carries(m) => Stamp(m) = hi2) =>
                  Ordered(q \o <<m>>, lo, hi2)
           /\ \A m \in Events :
                lo <= hi /\ (Carries(m) => Stamp(m) = hi) => Ordered(q \o <<m>>, lo, hi)
           /\ q # <<>> /\ Carries(Head(q)) =>
                /\ lo <= Stamp(Head(q)) /\ Stamp(Head(q)) <= hi
                /\ Ordered(Tail(q), Stamp(Head(q)), hi)
           /\ q # <<>> => Ordered(Tail(q), lo, hi)
           /\ \A hi2 \in Int : hi <= hi2 => Ordered(q, lo, hi2)
  <1>0. \A m \in Events : Carries(m) => Stamp(m) \in Int
    <2> SUFFICES ASSUME NEW m \in Events, Carries(m) PROVE Stamp(m) \in Int
      OBVIOUS
    <2>1. m.type = "fft_data" => m.t \in Frames
      BY EventFields
    <2>2. m.type = "fft_history" => Last(m.data) \in Frames
      BY EventFields, LastType
    <2> QED BY <2>1, <2>2, SizesAssumption DEF Stamp, Carries, Frames
  <1>1. ASSUME NEW hi2 \in Int, NEW m \in Events, hi <= hi2, lo <= hi2,
               Carries(m) => Stamp(m) = hi2
        PROVE  Ordered(q \o <<m>>, lo, hi2)
    <2> DEFINE r == q \o <<m>>
    <2>1. /\ Len(q) \in Nat /\ DOMAIN q = 1..Len(q) /\ DOMAIN r = 1..(Len(q) + 1)
          /\ \A i \in 1..Len(q) : r[i] = q[i]
          /\ r[Len(q) + 1] = m
      BY Sent
    <2>2. \A i \in 1..Len(q) : q[i] \in Events
      BY ElementOfSeq
    <2> HIDE DEF r
    <2>3. ASSUME NEW i \in DOMAIN r, Carries(r[i])
          PROVE  lo <= Stamp(r[i]) /\ Stamp(r[i]) <= hi2 /\ Stamp(r[i]) \in Int
      <3>1. CASE i \in 1..Len(q)
        BY <1>0, <1>1, <2>1, <2>2, <2>3, <3>1 DEF Ordered
      <3>2. CASE i = Len(q) + 1
        BY <1>1, <2>1, <2>3, <3>2
      <3> QED BY <2>1, <3>1, <3>2
    <2>4. ASSUME NEW i \in DOMAIN r, NEW j \in DOMAIN r, i < j, Carries(r[i]), Carries(r[j])
          PROVE  Stamp(r[i]) <= Stamp(r[j])
      <3>1. CASE j \in 1..Len(q)
        BY <2>1, <2>4, <3>1 DEF Ordered
      <3>2. CASE j = Len(q) + 1
        <4>1. Stamp(r[j]) = hi2
          BY <1>1, <2>1, <2>4, <3>2
        <4> QED BY <2>3, <2>4, <4>1
      <3> QED BY <2>1, <3>1, <3>2
    <2>5. Ordered(r, lo, hi2)
      BY <2>3, <2>4 DEF Ordered
    <2> QED BY <2>5 DEF r
  <1>2. ASSUME q # <<>>, Carries(Head(q))
        PROVE  /\ lo <= Stamp(Head(q)) /\ Stamp(Head(q)) <= hi
               /\ Ordered(Tail(q), Stamp(Head(q)), hi)
    BY <1>2, Taken DEF Ordered
  <1>3. q # <<>> => Ordered(Tail(q), lo, hi)
    BY Taken DEF Ordered
  <1>4. ASSUME NEW hi2 \in Int, hi <= hi2 PROVE Ordered(q, lo, hi2)
    <2>1. DOMAIN q = 1..Len(q) /\ \A i \in 1..Len(q) : q[i] \in Events
      BY ElementOfSeq, LenProperties
    <2>2. ASSUME NEW i \in DOMAIN q, Carries(q[i]) PROVE Stamp(q[i]) <= hi2
      <3>1. Stamp(q[i]) \in Int /\ Stamp(q[i]) <= hi
        BY <1>0, <2>1, <2>2 DEF Ordered
      <3> QED BY <1>4, <3>1
    <2> QED BY <2>2 DEF Ordered
  <1>5. ASSUME NEW m \in Events, lo <= hi, Carries(m) => Stamp(m) = hi
        PROVE  Ordered(q \o <<m>>, lo, hi)
    <2>1. hi <= hi
      OBVIOUS
    <2> QED BY <1>1, <1>5, <2>1
  <1> QED BY <1>1, <1>2, <1>3, <1>4, <1>5

LEMMA SentFacts ==
    ASSUME NEW q \in Seq(Events), NEW m \in Events, NEW Bad, NEW Fix
    PROVE  /\ Comes(q, Fix) \/ m \in Fix => Comes(q \o <<m>>, Fix)
           /\ Replaced(q, Bad, Fix) /\ m \notin Bad => Replaced(q \o <<m>>, Bad, Fix)
           /\ m \in Fix /\ m \notin Bad => Replaced(q \o <<m>>, Bad, Fix)
  <1> DEFINE r == q \o <<m>>
  <1>1. /\ Len(q) \in Nat /\ DOMAIN q = 1..Len(q) /\ DOMAIN r = 1..(Len(q) + 1)
        /\ \A i \in 1..Len(q) : r[i] = q[i]
        /\ r[Len(q) + 1] = m
    BY Sent
  <1> HIDE DEF r
  <1>2. \A i \in DOMAIN q : i \in DOMAIN r /\ r[i] = q[i] /\ i < Len(q) + 1
    BY <1>1
  <1>3. Len(q) + 1 \in DOMAIN r
    BY <1>1
  <1>4. \A i \in DOMAIN r : i \in DOMAIN q \/ i = Len(q) + 1
    BY <1>1
  <1>5. Comes(q, Fix) \/ m \in Fix => Comes(r, Fix)
    BY <1>1, <1>2, <1>3 DEF Comes
  <1>6. ASSUME Replaced(q, Bad, Fix), m \notin Bad PROVE Replaced(r, Bad, Fix)
    BY <1>1, <1>2, <1>4, <1>6 DEF Replaced
  <1>7. ASSUME m \in Fix, m \notin Bad PROVE Replaced(r, Bad, Fix)
    BY <1>1, <1>2, <1>3, <1>4, <1>7 DEF Replaced
  <1> QED BY <1>5, <1>6, <1>7 DEF r

LEMMA TakenFacts ==
    ASSUME NEW q \in Seq(Events), q # <<>>, NEW Bad, NEW Fix
    PROVE  /\ Comes(q, Fix) => Head(q) \in Fix \/ Comes(Tail(q), Fix)
           /\ Replaced(q, Bad, Fix) =>
                /\ Replaced(Tail(q), Bad, Fix)
                /\ Head(q) \in Bad => Comes(Tail(q), Fix)
  <1> DEFINE t == Tail(q)
  <1>1. /\ Len(q) \in Nat \ {0} /\ DOMAIN q = 1..Len(q) /\ DOMAIN t = 1..(Len(q) - 1)
        /\ \A i \in 1..(Len(q) - 1) : t[i] = q[i + 1]
        /\ Head(q) = q[1]
    BY Taken
  <1> HIDE DEF t
  <1>2. \A i \in DOMAIN t : i \in Int /\ i + 1 \in DOMAIN q /\ t[i] = q[i + 1]
    BY <1>1
  <1>3. \A j \in DOMAIN q : j \in Int /\ (j = 1 \/ (j - 1 \in DOMAIN t /\ t[j - 1] = q[j]))
    BY <1>1
  <1>4. Comes(q, Fix) => q[1] \in Fix \/ Comes(t, Fix)
    BY <1>3 DEF Comes
  <1>5. ASSUME Replaced(q, Bad, Fix) PROVE Replaced(t, Bad, Fix)
    <2> SUFFICES ASSUME NEW i \in DOMAIN t, t[i] \in Bad
                 PROVE  \E j \in DOMAIN t : i < j /\ t[j] \in Fix
      BY DEF Replaced
    <2>1. PICK j \in DOMAIN q : i + 1 < j /\ q[j] \in Fix
      BY <1>2, <1>5 DEF Replaced
    <2>2. j - 1 \in DOMAIN t /\ t[j - 1] = q[j] /\ i < j - 1
      BY <1>1, <1>2, <1>3, <2>1
    <2> QED BY <2>1, <2>2
  <1>6. ASSUME Replaced(q, Bad, Fix), q[1] \in Bad PROVE Comes(t, Fix)
    <2>1. PICK j \in DOMAIN q : 1 < j /\ q[j] \in Fix
      BY <1>1, <1>6 DEF Replaced
    <2>2. j - 1 \in DOMAIN t /\ t[j - 1] = q[j]
      BY <1>1, <1>3, <2>1
    <2> QED BY <2>1, <2>2 DEF Comes
  <1> QED BY <1>1, <1>4, <1>5, <1>6 DEF t

LEMMA FirstFacts ==
    ASSUME NEW m \in Events, NEW Bad, NEW Fix
    PROVE  /\ m \in Fix => Comes(<<m>>, Fix)
           /\ m \notin Bad => Replaced(<<m>>, Bad, Fix)
  BY DEF Comes, Replaced

----------------------------------------------------------------------------
(* Types.                                                                  *)

(* A frame is the newest one of the history.                               *)
LEMMA FrameFacts ==
    ASSUME TypeOK, Frame
    PROVE  /\ clock' = clock + 1 /\ clock' \in Frames
           /\ fftHistoryBuffer' \in Seq(Frames) /\ fftHistoryBuffer' # <<>>
           /\ Len(fftHistoryBuffer') \in Nat \ {0} /\ Len(fftHistoryBuffer') <= FFT_HISTORY_MAX
           /\ Len(fftHistoryBuffer') <= Len(fftHistoryBuffer) + 1
           /\ fftHistoryBuffer'[Len(fftHistoryBuffer')] = clock'
           /\ \A i \in 1..(Len(fftHistoryBuffer') - 1) :
                fftHistoryBuffer'[i] =
                  fftHistoryBuffer[Len(fftHistoryBuffer) + 1 - Len(fftHistoryBuffer') + i]
           /\ ToSubscriber([type |-> "fft_data", t |-> clock'])
  <1>1. fftHistoryBuffer \in Seq(Frames) /\ FFT_HISTORY_MAX \in Limits
    BY SizesAssumption DEF TypeOK, Limits
  <1>2. clock' = clock + 1 /\ clock' \in Frames
    BY SizesAssumption DEF Frame, Frames, TypeOK
  <1>3. fftHistoryBuffer' = Newest(Append(fftHistoryBuffer, clock'), FFT_HISTORY_MAX)
    BY <1>2 DEF Frame, BroadcastFFTData
  <1>4. ToSubscriber([type |-> "fft_data", t |-> clock'])
    BY <1>2 DEF Frame, BroadcastFFTData
  <1>5. ASSUME NEW e \in Frames,
               fftHistoryBuffer' = Newest(Append(fftHistoryBuffer, e), FFT_HISTORY_MAX)
        PROVE  /\ fftHistoryBuffer' \in Seq(Frames) /\ fftHistoryBuffer' # <<>>
               /\ Len(fftHistoryBuffer') \in Nat \ {0} /\ Len(fftHistoryBuffer') <= FFT_HISTORY_MAX
               /\ Len(fftHistoryBuffer') <= Len(fftHistoryBuffer) + 1
               /\ fftHistoryBuffer'[Len(fftHistoryBuffer')] = e
               /\ \A i \in 1..(Len(fftHistoryBuffer') - 1) :
                    fftHistoryBuffer'[i] =
                      fftHistoryBuffer[Len(fftHistoryBuffer) + 1 - Len(fftHistoryBuffer') + i]
    <2>1. fftHistoryBuffer' \in Seq(Frames)
      BY <1>1, <1>5, NewestType
    <2> QED BY <1>1, <1>5, <2>1, NewestFacts
  <1> QED BY <1>2, <1>3, <1>4, <1>5

(* The answer to a subscription follows the history, if there is one.      *)
LEMMA SubscribeSends ==
    ASSUME TypeOK, Subscribe
    PROVE  \E q \in Seq(Events) :
             /\ down' = q \o Subscribed
             /\ \/ fftHistoryBuffer = <<>> /\ q = down
                \/ /\ fftHistoryBuffer # <<>>
                   /\ q = down \o <<[type |-> "fft_history", data |-> fftHistoryBuffer]>>
  <1>1. down \in Seq(Events) /\ History \in Seq(Events) /\ Subscribed \in Seq(Events)
    BY MessageTypes DEF TypeOK
  <1>2. down' = (down \o History) \o Subscribed
    BY <1>1, ConcatAssociative DEF Subscribe, Send
  <1>3. down \o History \in Seq(Events)
    BY <1>1, ConcatProperties
  <1>4. fftHistoryBuffer = <<>> => down \o History = down
    BY <1>1, ConcatEmptySeq DEF History
  <1>5. fftHistoryBuffer # <<>> =>
          down \o History = down \o <<[type |-> "fft_history", data |-> fftHistoryBuffer]>>
    BY DEF History
  <1> QED BY <1>2, <1>3, <1>4, <1>5

LEMMA InitTypeOK == Init => TypeOK
  <1> SUFFICES ASSUME Init PROVE TypeOK
    OBVIOUS
  <1>1. InitMessage \in [type : {"init"}, running : BOOLEAN, error : Errors, pass : BOOLEAN]
    BY DEF Init, InitMessage, IsFFTStreamRunning, StreamError, Errors
  <1>2. down \in Seq(Events)
    BY <1>1 DEF Init, Events
  <1>3. frequency \in {"default", "pass", "manual"}
    BY DEF Init, GetCurrentFrequency
  <1>4. Len(fftHistoryBuffer) <= FFT_HISTORY_MAX /\ Len(rows) <= MAX_HISTORY_ROWS
    BY SizesAssumption DEF Init
  <1>5. clock \in 0..MaxFrames /\ passes \in 0..MaxPasses /\ latest \in 0..MaxFrames
    BY SizesAssumption DEF Init
  <1>6. fftHistoryBuffer \in Seq(Frames) /\ rows \in Seq(Frames)
        /\ up \in Seq({"fft_subscribe", "fft_unsubscribe"})
    BY DEF Init
  <1> QED BY <1>2, <1>3, <1>4, <1>5, <1>6 DEF Init, TypeOK, Phases, Errors

LEMMA NextTypeOK == TypeOK /\ [Next]_vars => TypeOK'
  <1> SUFFICES ASSUME TypeOK, [Next]_vars PROVE TypeOK'
    OBVIOUS
  <1> USE DEF fft, server, state, view
  <1>1. CASE Frame
    <2>1. clock' \in Frames /\ clock' \in 0..MaxFrames
      BY <1>1, FrameFacts, SizesAssumption DEF Frames
    <2>2. ToSubscriber([type |-> "fft_data", t |-> clock'])
      BY <1>1, FrameFacts
    <2>3. fftHistoryBuffer' \in Seq(Frames) /\ Len(fftHistoryBuffer') <= FFT_HISTORY_MAX
      BY <1>1, FrameFacts, SizesAssumption
    <2>4. down' \in Seq(Events)
      BY <2>1, <2>2, MessageTypes, ToSubscriberType
    <2> QED BY <1>1, <2>1, <2>3, <2>4 DEF Frame, TypeOK
  <1>2. CASE Complaint
    BY <1>2 DEF Complaint, TypeOK
  <1>3. CASE StreamEnds
    BY <1>3 DEF StreamEnds, TypeOK, Phases
  <1>4. CASE StopComplete
    BY <1>4 DEF StopComplete, TypeOK, Phases
  <1>5. CASE Spawn
    BY <1>5 DEF Spawn, TypeOK, Phases
  <1>6. CASE SomebodyTunes
    BY <1>6 DEF SomebodyTunes, TypeOK
  <1>7. CASE StartTimer
    <2>1. fftHistoryBuffer' \in Seq(Frames) /\ Len(fftHistoryBuffer') <= FFT_HISTORY_MAX
      BY <1>7, SizesAssumption DEF StartTimer
    <2>2. phase' \in Phases /\ check' \in BOOLEAN
      BY <1>7 DEF StartTimer, TypeOK, Phases
    <2> QED BY <1>7, <2>1, <2>2 DEF StartTimer, TypeOK
  <1>8. CASE CheckForError
    <2>1. down' \in Seq(Events)
      BY <1>8, MessageTypes, ToSubscriberType DEF CheckForError, TypeOK
    <2> QED BY <1>8, <2>1 DEF CheckForError, TypeOK
  <1>9. CASE Subscribe
    <2>1. down' \in Seq(Events)
      <3>1. History \o Subscribed \in Seq(Events)
        BY MessageTypes, ConcatProperties
      <3> QED BY <1>9, <3>1, SendType DEF Subscribe
    <2>2. up' \in Seq({"fft_subscribe", "fft_unsubscribe"})
      BY <1>9, HeadTailProperties DEF Subscribe, Requested, TypeOK
    <2>3. pendingFFTStart' \in BOOLEAN
      BY <1>9 DEF Subscribe, TypeOK
    <2> QED BY <1>9, <2>1, <2>2, <2>3 DEF Subscribe, TypeOK
  <1>10. CASE Unsubscribe
    <2>1. down' \in Seq(Events)
      <3>1. <<[type |-> "fft_unsubscribed"]>> \in Seq(Events)
        BY MessageTypes
      <3> QED BY <1>10, <3>1, SendType DEF Unsubscribe
    <2>2. up' \in Seq({"fft_subscribe", "fft_unsubscribe"})
      BY <1>10, HeadTailProperties DEF Unsubscribe, Requested, TypeOK
    <2> QED BY <1>10, <2>1, <2>2 DEF Unsubscribe, TypeOK
  <1>11. CASE StopTimer
    BY <1>11 DEF StopTimer, TypeOK, Phases
  <1>12. CASE StopForPass
    BY <1>12 DEF StopForPass, TypeOK, Phases
  <1>13. CASE StartPass
    <2>1. down' \in Seq(Events)
      <3>1. <<[type |-> "pass_start"]>> \in Seq(Events)
        BY MessageTypes
      <3> QED BY <1>13, <3>1, SendType DEF StartPass
    <2>2. passes' \in 0..MaxPasses
      BY <1>13, SizesAssumption DEF StartPass, TypeOK
    <2> QED BY <1>13, <2>1, <2>2 DEF StartPass, TypeOK
  <1>14. CASE CompletePass
    <2>1. down' \in Seq(Events)
      <3>1. <<[type |-> "pass_complete"]>> \in Seq(Events)
        BY MessageTypes
      <3> QED BY <1>14, <3>1, SendType DEF CompletePass
    <2> QED BY <1>14, <2>1 DEF CompletePass, TypeOK
  <1>15. CASE OnMessage
    <2> DEFINE m == Head(down)
    <2>1. m \in Events /\ down' \in Seq(Events)
      BY <1>15, HeadTailProperties DEF OnMessage, TypeOK
    <2>2. Handled(m)
      BY <1>15 DEF OnMessage
    <2> HIDE DEF m
    <2>3. latest' \in 0..MaxFrames
      <3>1. m.type = "fft_history" => Last(m.data) \in Frames
        BY <2>1, EventFields, LastType
      <3> QED BY <2>1, <2>2, <3>1, EventFields, SizesAssumption
              DEF Handled, SetLatestFFTData, Frames, TypeOK
    <2>4. error' \in Errors
      BY <2>1, <2>2, EventFields DEF Handled, SetFftState, ClearStaleError, Errors, TypeOK
    <2>5. running' \in BOOLEAN
      BY <2>1, <2>2, EventFields DEF Handled, SetFftState, ClearStaleError, TypeOK
    <2>6. active' \in BOOLEAN
      BY <2>1, <2>2, EventFields DEF Handled, TypeOK
    <2> QED BY <1>15, <2>1, <2>3, <2>4, <2>5, <2>6 DEF OnMessage, TypeOK
  <1>16. ASSUME NEW f \in {"default", "pass", "manual"}, Resubscribe(f)
         PROVE  /\ up' \in Seq({"fft_subscribe", "fft_unsubscribe"})
                /\ frequency' \in {"default", "pass", "manual"}
    <2>1. <<"fft_unsubscribe", "fft_subscribe">> \in Seq({"fft_subscribe", "fft_unsubscribe"})
      OBVIOUS
    <2> QED BY <1>16, <2>1, ConcatProperties DEF Resubscribe, TypeOK
  <1>17. \A d, a : GetCurrentFrequency(d, a) \in {"default", "pass", "manual"}
    BY DEF GetCurrentFrequency
  <1>18. CASE Render
    <2>1. rows' \in Seq(Frames) /\ Len(rows') <= MAX_HISTORY_ROWS
      <3>1. CASE latest \in {0, LastProcessed}
        BY <1>18, <3>1 DEF Render, AddRow, TypeOK
      <3>2. CASE latest \notin {0, LastProcessed}
        <4>1. latest \in Frames /\ rows' = Newest(Append(rows, latest), MAX_HISTORY_ROWS)
          BY <1>18, <3>2, SizesAssumption DEF Render, AddRow, TypeOK, Frames
        <4>2. rows \in Seq(Frames) /\ MAX_HISTORY_ROWS \in Limits
          BY DEF TypeOK, Limits
        <4>3. rows' \in Seq(Frames) /\ Len(rows') <= MAX_HISTORY_ROWS
          BY <4>1, <4>2, NewestType, NewestFacts
        <4> QED BY <4>3, SizesAssumption
      <3> QED BY <3>1, <3>2
    <2> QED BY <1>16, <1>17, <1>18, <2>1 DEF Render, TypeOK
  <1>19. CASE SwitchTab
    <2>1. rows' \in Seq(Frames) /\ Len(rows') <= MAX_HISTORY_ROWS
      BY <1>19, LastType, SizesAssumption DEF SwitchTab, TypeOK
    <2>2. mode' \in {"satellite", "sstv-2m"}
      BY <1>19 DEF SwitchTab
    <2> QED BY <1>16, <1>17, <1>19, <2>1, <2>2 DEF SwitchTab, TypeOK
  <1>20. CASE Reload
    <2>1. down' \in Seq(Events)
      BY <1>20, MessageTypes DEF Reload, LoadPage
    <2>2. frequency' \in {"default", "pass", "manual"}
      BY <1>17, <1>20 DEF Reload, LoadPage
    <2>3. /\ Len(rows') <= MAX_HISTORY_ROWS /\ rows' \in Seq(Frames) /\ latest' \in 0..MaxFrames
          /\ up' \in Seq({"fft_subscribe", "fft_unsubscribe"})
      BY <1>20, SizesAssumption DEF Reload, LoadPage
    <2> QED BY <1>20, <2>1, <2>2, <2>3 DEF Reload, LoadPage, TypeOK, Errors
  <1>21. CASE UNCHANGED vars
    BY <1>21 DEF vars, TypeOK
  <1> QED BY <1>1, <1>2, <1>3, <1>4, <1>5, <1>6, <1>7, <1>8, <1>9, <1>10, <1>11, <1>12,
             <1>13, <1>14, <1>15, <1>18, <1>19, <1>20, <1>21 DEF Next

(* What server, connection and page keep has its type, and no history      *)
(* grows beyond its limit, in every behaviour of the code.                 *)
THEOREM WaterfallTypeCorrect == Spec => []TypeOK
  BY InitTypeOK, NextTypeOK, PTL DEF Spec

----------------------------------------------------------------------------
(* The history of the server.                                              *)

LEMMA HistoryStep == TypeOK /\ HistoryIsTail /\ [Next]_vars => HistoryIsTail'
  <1> SUFFICES ASSUME TypeOK, HistoryIsTail, [Next]_vars PROVE HistoryIsTail'
    OBVIOUS
  <1>1. CASE Frame
    <2> DEFINE l == Len(fftHistoryBuffer)
               k == Len(fftHistoryBuffer')
    <2>1. /\ clock' = clock + 1 /\ k \in Nat \ {0} /\ k <= l + 1
          /\ fftHistoryBuffer' \in Seq(Frames)
          /\ fftHistoryBuffer'[k] = clock'
          /\ \A i \in 1..(k - 1) : fftHistoryBuffer'[i] = fftHistoryBuffer[l + 1 - k + i]
      BY <1>1, FrameFacts, SizesAssumption
    <2>2. l \in Nat /\ clock \in Int /\ DOMAIN fftHistoryBuffer = 1..l
      BY LenProperties DEF TypeOK
    <2>3. \A i \in 1..l : fftHistoryBuffer[i] = clock - l + i
      BY <2>2 DEF HistoryIsTail
    <2>4. DOMAIN fftHistoryBuffer' = 1..k
      BY <2>1, LenProperties
    <2> HIDE DEF k, l
    <2>5. \A i \in 1..k : fftHistoryBuffer'[i] = clock' - k + i
      <3> SUFFICES ASSUME NEW i \in 1..k PROVE fftHistoryBuffer'[i] = clock' - k + i
        OBVIOUS
      <3>1. CASE i = k
        BY <2>1, <2>2, <3>1
      <3>2. CASE i # k
        <4>1. l + 1 - k + i \in 1..l
          BY <2>1, <2>2, <3>2
        <4> QED BY <2>1, <2>2, <2>3, <3>2, <4>1
      <3> QED BY <3>1, <3>2
    <2> QED BY <2>4, <2>5 DEF HistoryIsTail, k
  <1>2. CASE StartTimer
    BY <1>2 DEF StartTimer, HistoryIsTail
  <1>3. CASE UNCHANGED <<clock, fftHistoryBuffer>>
    BY <1>3 DEF HistoryIsTail
  <1>4. Frame \/ StartTimer \/ UNCHANGED <<clock, fftHistoryBuffer>>
    BY DEF Next, vars, fft, server, Complaint, StreamEnds, StopComplete, Spawn, SomebodyTunes,
           CheckForError, Subscribe, Unsubscribe, StopTimer, StopForPass, StartPass,
           CompletePass, OnMessage, Render, SwitchTab, Reload
  <1> QED BY <1>1, <1>2, <1>3, <1>4

(* What is in a history that is not empty.                                 *)
LEMMA HistoryFacts ==
    ASSUME TypeOK, HistoryIsTail, fftHistoryBuffer # <<>>
    PROVE  Last(fftHistoryBuffer) = clock /\ clock \in Frames
  BY LastType, LenProperties DEF TypeOK, HistoryIsTail, Last

(* For any length of the history, any number of frames and whatever comes  *)
(* between them: broadcastFFTData leaves no gap in the buffer of the       *)
(* server, whose last frame is the last one of the stream.                 *)
THEOREM HistoryHasNoGap == Spec => []HistoryIsTail
  <1>1. Init => HistoryIsTail
    BY DEF Init, HistoryIsTail
  <1> QED BY <1>1, HistoryStep, WaterfallTypeCorrect, PTL DEF Spec

----------------------------------------------------------------------------
(* The rows of the waterfall.                                              *)

(* A row added after all others.                                           *)
LEMMA AddedInOrder ==
    ASSUME NEW s \in Seq(Frames), NEW e \in Frames, NEW n \in Limits,
           \A i, j \in DOMAIN s : i < j => s[i] < s[j],
           s # <<>> => Last(s) < e,
           NEW r \in Seq(Frames), r = Newest(Append(s, e), n)
    PROVE  \A i, j \in DOMAIN r : i < j => r[i] < r[j]
  <1> DEFINE l == Len(s)
             k == Len(r)
  <1>1. /\ r \in Seq(Frames) /\ k \in Nat \ {0} /\ k <= l + 1
        /\ r[k] = e /\ \A i \in 1..(k - 1) : r[i] = s[l + 1 - k + i]
    BY NewestFacts
  <1>2. l \in Nat /\ DOMAIN s = 1..l /\ DOMAIN r = 1..k
    BY <1>1, LenProperties
  <1>3. e \in Int /\ \A i \in 1..l : s[i] \in Int
    BY ElementOfSeq, SizesAssumption DEF Frames
  <1>8. s # <<>> => s[l] < e
    BY DEF Last
  <1>9. l # 0 => s # <<>>
    OBVIOUS
  <1> HIDE DEF l, k
  <1>4. \A i \in 1..l : s[i] < e
    <2> SUFFICES ASSUME NEW i \in 1..l PROVE s[i] < e
      OBVIOUS
    <2>1. s[l] < e /\ l \in 1..l
      BY <1>2, <1>8, <1>9
    <2>2. CASE i = l
      BY <2>1, <2>2
    <2>3. CASE i # l
      <3>1. i < l
        BY <1>2, <2>3
      <3>2. s[i] < s[l]
        BY <1>2, <2>1, <3>1
      <3> QED BY <1>3, <2>1, <3>2
    <2> QED BY <2>2, <2>3
  <1> SUFFICES ASSUME NEW i \in 1..k, NEW j \in 1..k, i < j PROVE r[i] < r[j]
    BY <1>2
  <1>5. l + 1 - k + i \in 1..l /\ r[i] = s[l + 1 - k + i]
    BY <1>1, <1>2
  <1>6. CASE j = k
    BY <1>1, <1>4, <1>5, <1>6
  <1>7. CASE j # k
    <2>1. /\ l + 1 - k + j \in 1..l /\ r[j] = s[l + 1 - k + j]
          /\ l + 1 - k + i < l + 1 - k + j
      BY <1>1, <1>2, <1>7
    <2> QED BY <1>2, <1>5, <2>1
  <1> QED BY <1>6, <1>7

(* Messages that carry no frame.                                           *)
LEMMA OtherMessages ==
    /\ ~ Carries([type |-> "fft_error", error |-> clock])
    /\ \A s \in {"fft_unsubscribed", "pass_start", "pass_complete"} : ~ Carries([type |-> s])
    /\ ~ Carries(InitMessage)
    /\ ~ Carries([type |-> "fft_subscribed", running |-> IsFFTStreamRunning,
                  error |-> StreamError])
  BY DEF Carries, InitMessage

LEMMA RowsStep ==
    ASSUME TypeOK, HistoryIsTail, FramesInOrder, RowsInOrder, [Next]_vars
    PROVE  FramesInOrder' /\ RowsInOrder'
  <1> USE DEF fft, server, state, view
  <1>1. /\ latest \in Int /\ clock \in Int /\ latest <= clock
        /\ down \in Seq(Events) /\ Ordered(down, latest, clock)
    BY DEF TypeOK, FramesInOrder
  <1>2. ASSUME UNCHANGED <<latest, rows, clock>>, NEW m \in Events, ~ Carries(m),
               down' = down \/ down' = down \o <<m>>
        PROVE  FramesInOrder' /\ RowsInOrder'
    <2>1. Ordered(down \o <<m>>, latest, clock)
      BY <1>1, <1>2, OrderedFacts
    <2> QED BY <1>1, <1>2, <2>1 DEF FramesInOrder, RowsInOrder
  <1>3. CASE Frame
    <2>1. /\ clock' = clock + 1 /\ clock' \in Frames
          /\ ToSubscriber([type |-> "fft_data", t |-> clock'])
      BY <1>3, FrameFacts
    <2> DEFINE m == [type |-> "fft_data", t |-> clock']
    <2>2. m \in Events /\ Stamp(m) = clock'
      BY <2>1, MessageTypes DEF Stamp
    <2>3. down' = down \/ down' = down \o <<m>>
      BY <2>1 DEF ToSubscriber, Send
    <2> HIDE DEF m
    <2>4. clock' \in Int /\ clock <= clock' /\ latest <= clock'
      BY <1>1, <2>1
    <2>5. Ordered(down \o <<m>>, latest, clock') /\ Ordered(down, latest, clock')
      BY <1>1, <2>2, <2>4, OrderedFacts
    <2>6. UNCHANGED <<latest, rows>>
      BY <1>3 DEF Frame
    <2> QED BY <2>3, <2>4, <2>5, <2>6 DEF FramesInOrder, RowsInOrder
  <1>4. CASE CheckForError
    BY <1>2, <1>4, MessageTypes, OtherMessages DEF CheckForError, ToSubscriber, Send
  <1>5. CASE Unsubscribe
    BY <1>2, <1>5, MessageTypes, OtherMessages DEF Unsubscribe, Send
  <1>6. CASE StartPass
    BY <1>2, <1>6, MessageTypes, OtherMessages DEF StartPass, Send
  <1>7. CASE CompletePass
    BY <1>2, <1>7, MessageTypes, OtherMessages DEF CompletePass, Send
  <1>8. CASE Subscribe
    <2> DEFINE h == [type |-> "fft_history", data |-> fftHistoryBuffer]
               a == [type |-> "fft_subscribed", running |-> IsFFTStreamRunning,
                     error |-> StreamError]
    <2>1. PICK q \in Seq(Events) :
            /\ down' = q \o <<a>>
            /\ \/ fftHistoryBuffer = <<>> /\ q = down
               \/ fftHistoryBuffer # <<>> /\ q = down \o <<h>>
      BY <1>8, SubscribeSends DEF Subscribed
    <2>2. a \in Events /\ ~ Carries(a)
      BY MessageTypes, OtherMessages DEF Subscribed
    <2>3. fftHistoryBuffer # <<>> => h \in Events /\ Stamp(h) = clock
      BY HistoryFacts, MessageTypes DEF History, Stamp
    <2> HIDE DEF a, h
    <2>4. Ordered(q, latest, clock)
      BY <1>1, <2>1, <2>3, OrderedFacts
    <2>5. Ordered(down', latest, clock)
      BY <1>1, <2>1, <2>2, <2>4, OrderedFacts
    <2>6. UNCHANGED <<latest, rows, clock>>
      BY <1>8 DEF Subscribe
    <2> QED BY <1>1, <2>5, <2>6 DEF FramesInOrder, RowsInOrder
  <1>9. CASE OnMessage
    <2>1. down # <<>> /\ down' = Tail(down) /\ Handled(Head(down)) /\ UNCHANGED <<rows, clock>>
      BY <1>9 DEF OnMessage
    <2>2. CASE Carries(Head(down))
      <3>1. latest' = Stamp(Head(down))
        BY <2>1, <2>2 DEF Handled, SetLatestFFTData, Stamp, Carries
      <3>2. latest <= latest' /\ latest' <= clock /\ Ordered(down', latest', clock)
        BY <1>1, <2>1, <2>2, <3>1, OrderedFacts
      <3>3. latest' \in Int
        BY NextTypeOK DEF TypeOK
      <3>4. rows # <<>> => Last(rows) <= latest'
        <4>1. rows # <<>> => Last(rows) \in Int /\ Last(rows) <= latest
          BY LastType, SizesAssumption DEF TypeOK, Frames, FramesInOrder
        <4> QED BY <1>1, <3>2, <3>3, <4>1
      <3> QED BY <2>1, <3>2, <3>4 DEF FramesInOrder, RowsInOrder
    <2>3. CASE ~ Carries(Head(down))
      <3>1. latest' = latest
        BY <2>1, <2>3 DEF Handled, Carries
      <3>2. Ordered(down', latest, clock)
        BY <1>1, <2>1, OrderedFacts
      <3> QED BY <1>1, <2>1, <3>1, <3>2 DEF FramesInOrder, RowsInOrder
    <2> QED BY <2>2, <2>3
  <1>10. CASE Render
    <2>1. UNCHANGED <<latest, clock, down>>
      BY <1>10 DEF Render
    <2>2. CASE latest \in {0, LastProcessed}
      <3>1. rows' = rows
        BY <1>10, <2>2 DEF Render, AddRow
      <3> QED BY <1>1, <2>1, <3>1 DEF FramesInOrder, RowsInOrder
    <2>3. CASE latest \notin {0, LastProcessed}
      <3>1. rows' = Newest(Append(rows, latest), MAX_HISTORY_ROWS)
        BY <1>10, <2>3 DEF Render, AddRow
      <3>2. rows \in Seq(Frames) /\ latest \in Frames /\ MAX_HISTORY_ROWS \in Limits
        BY <2>3, SizesAssumption DEF TypeOK, Frames, Limits
      <3>3. rows # <<>> => Last(rows) < latest
        <4>1. rows # <<>> => Last(rows) \in Int
          BY <3>2, LastType, SizesAssumption DEF Frames
        <4> QED BY <1>1, <2>3, <4>1 DEF LastProcessed, FramesInOrder
      <3>4. \A i, j \in DOMAIN rows' : i < j => rows'[i] < rows'[j]
        BY <3>1, <3>2, <3>3, NewestType, AddedInOrder DEF RowsInOrder
      <3>5. Last(rows') = latest
        BY <3>1, <3>2, NewestType, NewestFacts
      <3> QED BY <1>1, <2>1, <3>4, <3>5 DEF FramesInOrder, RowsInOrder
    <2> QED BY <2>2, <2>3
  <1>11. CASE SwitchTab
    <2>1. UNCHANGED <<latest, clock, down>>
      BY <1>11 DEF SwitchTab
    <2>2. CASE rows = <<>>
      BY <1>1, <1>11, <2>1, <2>2 DEF SwitchTab, FramesInOrder, RowsInOrder
    <2>3. CASE rows # <<>>
      <3>1. rows' = <<Last(rows)>>
        BY <1>11, <2>3 DEF SwitchTab
      <3>2. DOMAIN rows' = {1} /\ Last(rows') = Last(rows)
        BY <3>1 DEF Last
      <3> QED BY <1>1, <2>1, <2>3, <3>2 DEF FramesInOrder, RowsInOrder
    <2> QED BY <2>2, <2>3
  <1>12. CASE Reload
    <2>1. latest' = 0 /\ rows' = <<>> /\ down' = <<InitMessage>> /\ clock' = clock
      BY <1>12 DEF Reload, LoadPage
    <2>2. Ordered(down', 0, clock)
      BY <2>1, OtherMessages DEF Ordered
    <2>3. 0 <= clock
      BY DEF TypeOK
    <2> QED BY <2>1, <2>2, <2>3 DEF FramesInOrder, RowsInOrder
  <1>13. CASE UNCHANGED <<latest, rows, clock, down>>
    BY <1>1, <1>13 DEF FramesInOrder, RowsInOrder
  <1>14. \/ Frame \/ CheckForError \/ Unsubscribe \/ StartPass \/ CompletePass \/ Subscribe
         \/ OnMessage \/ Render \/ SwitchTab \/ Reload
         \/ UNCHANGED <<latest, rows, clock, down>>
    BY DEF Next, vars, Complaint, StreamEnds, StopComplete, Spawn, SomebodyTunes,
           StartTimer, StopTimer, StopForPass
  <1> QED BY <1>3, <1>4, <1>5, <1>6, <1>7, <1>8, <1>9, <1>10, <1>11, <1>12, <1>13, <1>14

(* For any number of frames, of messages and of rows: whatever is sent     *)
(* again to a page that subscribes anew, the waterfall of the page never   *)
(* runs backwards.                                                         *)
THEOREM WaterfallRunsForward == Spec => []RowsInOrder
  <1>1. Init => FramesInOrder /\ RowsInOrder
    BY OtherMessages DEF Init, FramesInOrder, RowsInOrder, Ordered
  <1>2. TypeOK /\ HistoryIsTail /\ FramesInOrder /\ RowsInOrder /\ [Next]_vars =>
          FramesInOrder' /\ RowsInOrder'
    BY RowsStep
  <1> QED BY <1>1, <1>2, WaterfallTypeCorrect, HistoryHasNoGap, PTL DEF Spec

----------------------------------------------------------------------------
(* What a subscriber sees.                                                 *)

LEMMA NewestStep ==
    ASSUME TypeOK, HistoryIsTail, FramesInOrder, NewestComes, [Next]_vars
    PROVE  NewestComes'
  <1> USE DEF fft, server, state, view
  <1>1. down \in Seq(Events)
    BY DEF TypeOK
  <1>2. ASSUME UNCHANGED <<latest, rows, clock, dirty, subscribed, fftHistoryBuffer>>,
               NEW m \in Events, down' = down \/ down' = down \o <<m>>
        PROVE  NewestComes'
    <2>1. Comes(down, NewestFrames) => Comes(down', NewestFrames)
      BY <1>1, <1>2, SentFacts
    <2>2. NewestFrames' = NewestFrames
      BY <1>2 DEF NewestFrames
    <2> QED BY <1>2, <2>1, <2>2 DEF NewestComes, Comes
  <1>3. CASE Frame
    <2> DEFINE m == [type |-> "fft_data", t |-> clock']
    <2>1. clock' \in Frames /\ ToSubscriber(m) /\ UNCHANGED <<subscribed, latest, rows, dirty>>
      BY <1>3, FrameFacts DEF Frame
    <2>2. m \in NewestFrames'
      BY <2>1, MessageTypes DEF NewestFrames, Carries, Stamp
    <2>3. m \in Events
      BY <2>1, MessageTypes
    <2>4. subscribed => down' = down \o <<m>>
      BY <2>1 DEF ToSubscriber, Send
    <2> HIDE DEF m
    <2>5. subscribed => Comes(down', NewestFrames')
      BY <1>1, <2>2, <2>3, <2>4, SentFacts
    <2> QED BY <2>1, <2>5 DEF NewestComes, Comes
  <1>4. CASE StartTimer
    BY <1>4 DEF StartTimer, NewestComes
  <1>5. CASE CheckForError
    BY <1>2, <1>5, MessageTypes DEF CheckForError, ToSubscriber, Send
  <1>6. CASE StartPass
    BY <1>2, <1>6, MessageTypes DEF StartPass, Send
  <1>7. CASE CompletePass
    BY <1>2, <1>7, MessageTypes DEF CompletePass, Send
  <1>8. CASE Unsubscribe
    BY <1>8 DEF Unsubscribe, NewestComes
  <1>9. CASE Subscribe
    <2> DEFINE h == [type |-> "fft_history", data |-> fftHistoryBuffer]
               a == [type |-> "fft_subscribed", running |-> IsFFTStreamRunning,
                     error |-> StreamError]
    <2>1. PICK q \in Seq(Events) :
            /\ down' = q \o <<a>>
            /\ fftHistoryBuffer # <<>> => q = down \o <<h>>
      BY <1>9, SubscribeSends DEF Subscribed
    <2>2. a \in Events
      BY MessageTypes DEF Subscribed
    <2>3. fftHistoryBuffer # <<>> => h \in Events /\ h \in NewestFrames
      BY HistoryFacts, MessageTypes DEF History, NewestFrames, Carries, Stamp
    <2> HIDE DEF a, h
    <2>4. fftHistoryBuffer # <<>> => Comes(q, NewestFrames)
      BY <1>1, <2>1, <2>3, SentFacts
    <2>5. fftHistoryBuffer # <<>> => Comes(down', NewestFrames)
      BY <2>1, <2>2, <2>4, SentFacts
    <2>6. UNCHANGED <<latest, rows, clock, dirty, fftHistoryBuffer>>
      BY <1>9 DEF Subscribe
    <2>7. NewestFrames' = NewestFrames
      BY <2>6 DEF NewestFrames
    <2> QED BY <2>5, <2>6, <2>7 DEF NewestComes, Comes
  <1>10. CASE OnMessage
    <2>1. /\ down # <<>> /\ down' = Tail(down) /\ Handled(Head(down)) /\ dirty' = TRUE
          /\ UNCHANGED <<rows, clock, subscribed, fftHistoryBuffer>>
      BY <1>10 DEF OnMessage
    <2>2. NewestFrames' = NewestFrames
      BY <2>1 DEF NewestFrames
    <2>3. CASE Carries(Head(down))
      <3>1. latest' = Stamp(Head(down))
        BY <2>1, <2>3 DEF Handled, SetLatestFFTData, Stamp, Carries
      <3>2. latest \in Int /\ clock \in Int /\ latest' \in Int
        BY NextTypeOK DEF TypeOK
      <3>3. latest <= latest' /\ latest' <= clock
        BY <1>1, <2>1, <2>3, <3>1, <3>2, OrderedFacts DEF FramesInOrder
      <3>4. Head(down) \in NewestFrames => latest' = clock
        BY <3>1 DEF NewestFrames
      <3>5. latest = clock => latest' = clock
        BY <3>2, <3>3
      <3>6. Comes(down, NewestFrames) =>
              Head(down) \in NewestFrames \/ Comes(down', NewestFrames)
        BY <1>1, <2>1, TakenFacts
      <3> QED BY <2>1, <2>2, <3>4, <3>5, <3>6 DEF NewestComes, Comes
    <2>4. CASE ~ Carries(Head(down))
      <3>1. latest' = latest /\ Head(down) \notin NewestFrames
        BY <2>1, <2>4 DEF Handled, Carries, NewestFrames
      <3>2. Comes(down, NewestFrames) => Comes(down', NewestFrames)
        BY <1>1, <2>1, <3>1, TakenFacts
      <3> QED BY <2>1, <2>2, <3>1, <3>2 DEF NewestComes, Comes
    <2> QED BY <2>3, <2>4
  <1>11. ASSUME UNCHANGED <<latest, clock, down, subscribed, fftHistoryBuffer>>,
                ~ dirty' => latest = 0 \/ (rows' # <<>> /\ Last(rows') = latest)
         PROVE  NewestComes'
    BY <1>11 DEF NewestComes, Comes, NewestFrames
  <1>12. CASE Render
    <2>1. CASE latest \in {0, LastProcessed}
      <3>1. rows' = rows
        BY <1>12, <2>1 DEF Render, AddRow
      <3> QED BY <1>11, <1>12, <2>1, <3>1 DEF Render, LastProcessed
    <2>2. CASE latest \notin {0, LastProcessed}
      <3>1. rows' = Newest(Append(rows, latest), MAX_HISTORY_ROWS)
        BY <1>12, <2>2 DEF Render, AddRow
      <3>2. rows \in Seq(Frames) /\ latest \in Frames /\ MAX_HISTORY_ROWS \in Limits
        BY <2>2, SizesAssumption DEF TypeOK, Frames, Limits
      <3>3. rows' # <<>> /\ Last(rows') = latest
        BY <3>1, <3>2, NewestType, NewestFacts
      <3> QED BY <1>11, <1>12, <3>3 DEF Render
    <2> QED BY <2>1, <2>2
  <1>13. CASE SwitchTab
    <2>1. rows # <<>> => rows' # <<>> /\ Last(rows') = Last(rows)
      BY <1>13 DEF SwitchTab, Last
    <2> QED BY <1>11, <1>13, <2>1 DEF SwitchTab, NewestComes
  <1>14. CASE Reload
    BY <1>14 DEF Reload, LoadPage, NewestComes
  <1>15. CASE UNCHANGED <<latest, rows, clock, dirty, subscribed, fftHistoryBuffer, down>>
    BY <1>11, <1>15 DEF NewestComes
  <1>16. \/ Frame \/ StartTimer \/ CheckForError \/ StartPass \/ CompletePass \/ Unsubscribe
         \/ Subscribe \/ OnMessage \/ Render \/ SwitchTab \/ Reload
         \/ UNCHANGED <<latest, rows, clock, dirty, subscribed, fftHistoryBuffer, down>>
    BY DEF Next, vars, Complaint, StreamEnds, StopComplete, Spawn, SomebodyTunes,
           StopTimer, StopForPass
  <1> QED BY <1>3, <1>4, <1>5, <1>6, <1>7, <1>8, <1>9, <1>10, <1>12, <1>13, <1>14, <1>15,
             <1>16

(* For any number of frames, messages and subscriptions: a page that has   *)
(* handled and rendered all it was sent shows the newest frame the server  *)
(* has, also when it had subscribed only after that frame.                 *)
THEOREM NewestIsShown == Spec => []NewestShown
  <1>1. Init => FramesInOrder /\ RowsInOrder /\ NewestComes
    BY OtherMessages DEF Init, FramesInOrder, RowsInOrder, Ordered, NewestComes
  <1>2. TypeOK /\ HistoryIsTail /\ FramesInOrder /\ RowsInOrder /\ NewestComes /\ [Next]_vars =>
          FramesInOrder' /\ RowsInOrder' /\ NewestComes'
    BY RowsStep, NewestStep
  <1>3. TypeOK /\ HistoryIsTail /\ NewestComes => NewestShown
    <2> SUFFICES ASSUME TypeOK, HistoryIsTail, NewestComes,
                        subscribed, down = <<>>, ~ dirty, fftHistoryBuffer # <<>>
                 PROVE  rows # <<>> /\ Last(rows) = Last(fftHistoryBuffer)
      BY DEF NewestShown, Rendered
    <2>1. ~ Comes(down, NewestFrames)
      BY DEF Comes
    <2>2. latest = clock
      BY <2>1 DEF NewestComes
    <2>3. latest # 0 /\ Last(fftHistoryBuffer) = latest
      BY <2>2, HistoryFacts, SizesAssumption DEF Frames
    <2> QED BY <2>3 DEF NewestComes
  <1> QED BY <1>1, <1>2, <1>3, WaterfallTypeCorrect, HistoryHasNoGap, PTL DEF Spec

(* What a message makes of the error.                                      *)
LEMMA HandledError ==
    ASSUME NEW m \in Events, Handled(m)
    PROVE  /\ m \in ErrorMessages => error' = ErrorOf(m)
           /\ m \notin ErrorMessages => error' = error
  BY DEF Handled, SetFftState, ClearStaleError, ErrorMessages, ErrorOf

LEMMA ErrorsStep ==
    ASSUME TypeOK, ErrorsEnd, [Next]_vars
    PROVE  ErrorsEnd'
  <1> USE DEF fft, server, state, view
  <1>1. down \in Seq(Events)
    BY DEF TypeOK
  <1>2. ErrorMessages' = ErrorMessages
    BY DEF ErrorMessages
  <1>3. clock' = clock => OldErrors' = OldErrors
    BY DEF OldErrors, ErrorMessages
  <1>4. ASSUME NEW q \in Seq(Events), NEW m \in ErrorMessages, m \notin OldErrors',
               down' = q \o <<m>>
        PROVE  ErrorsEnd'
    <2>1. m \in Events
      BY DEF ErrorMessages
    <2>2. Comes(down', ErrorMessages) /\ Replaced(down', OldErrors', ErrorMessages)
      BY <1>4, <2>1, SentFacts
    <2> QED BY <1>2, <2>2 DEF ErrorsEnd, Comes, Replaced
  <1>5. ASSUME UNCHANGED <<clock, error, subscribed>>,
               NEW m \in Events, m \notin ErrorMessages, down' = down \/ down' = down \o <<m>>
        PROVE  ErrorsEnd'
    <2>1. m \notin OldErrors
      BY <1>5 DEF OldErrors
    <2>2. /\ Comes(down, ErrorMessages) => Comes(down', ErrorMessages)
          /\ Replaced(down, OldErrors, ErrorMessages) =>
               Replaced(down', OldErrors, ErrorMessages)
      <3>1. CASE down' = down
        BY <3>1
      <3>2. CASE down' = down \o <<m>>
        BY <1>1, <2>1, <3>2, SentFacts
      <3> QED BY <1>5, <3>1, <3>2
    <2> QED BY <1>2, <1>3, <1>5, <2>2 DEF ErrorsEnd, Comes, Replaced
  <1>6. CASE Frame
    <2> DEFINE m == [type |-> "fft_data", t |-> clock']
    <2>1. clock' \in Frames /\ ToSubscriber(m) /\ subscribed' = subscribed
      BY <1>6, FrameFacts DEF Frame
    <2>2. m \in ErrorMessages /\ m \notin OldErrors'
      BY <2>1, MessageTypes DEF ErrorMessages, OldErrors, ErrorOf
    <2>3. subscribed => down' = down \o <<m>>
      BY <2>1 DEF ToSubscriber, Send
    <2>4. subscribed => ErrorsEnd'
      BY <1>1, <1>4, <2>2, <2>3
    <2> QED BY <2>1, <2>4 DEF ErrorsEnd
  <1>7. CASE CheckForError
    <2> DEFINE m == [type |-> "fft_error", error |-> clock]
    <2>1. m \in ErrorMessages /\ m \notin OldErrors
      BY MessageTypes DEF ErrorMessages, OldErrors, ErrorOf
    <2>2. UNCHANGED <<clock, error, subscribed>> /\ (down' = down \/ down' = down \o <<m>>)
      BY <1>7 DEF CheckForError, ToSubscriber, Send
    <2> HIDE DEF m
    <2>3. CASE down' = down \o <<m>>
      BY <1>1, <1>3, <1>4, <2>1, <2>2, <2>3
    <2>4. CASE down' = down
      BY <1>2, <1>3, <2>2, <2>4 DEF ErrorsEnd, Comes, Replaced
    <2> QED BY <2>2, <2>3, <2>4
  <1>8. CASE StartPass
    <2>1. [type |-> "pass_start"] \in Events /\ [type |-> "pass_start"] \notin ErrorMessages
      BY MessageTypes DEF ErrorMessages
    <2> QED BY <1>5, <1>8, <2>1 DEF StartPass, Send
  <1>9. CASE CompletePass
    <2>1. [type |-> "pass_complete"] \in Events /\ [type |-> "pass_complete"] \notin ErrorMessages
      BY MessageTypes DEF ErrorMessages
    <2> QED BY <1>5, <1>9, <2>1 DEF CompletePass, Send
  <1>10. CASE Unsubscribe
    BY <1>10 DEF Unsubscribe, ErrorsEnd
  <1>11. CASE Subscribe
    <2> DEFINE a == [type |-> "fft_subscribed", running |-> IsFFTStreamRunning,
                     error |-> StreamError]
    <2>1. PICK q \in Seq(Events) : down' = q \o <<a>>
      BY <1>11, SubscribeSends DEF Subscribed
    <2>2. clock' = clock
      BY <1>11 DEF Subscribe
    <2>3. a \in Events
      BY MessageTypes DEF Subscribed
    <2>4. a \in ErrorMessages
      BY <2>3 DEF ErrorMessages
    <2>5. a \notin OldErrors
      BY DEF OldErrors, ErrorOf, StreamError
    <2> HIDE DEF a
    <2> QED BY <1>3, <1>4, <2>1, <2>2, <2>4, <2>5
  <1>12. CASE OnMessage
    <2>1. /\ down # <<>> /\ down' = Tail(down) /\ Handled(Head(down))
          /\ UNCHANGED <<clock, subscribed>>
      BY <1>12 DEF OnMessage
    <2>2. Head(down) \in Events
      BY <1>1, <2>1, Taken
    <2>3. /\ Comes(down, ErrorMessages) => Head(down) \in ErrorMessages \/ Comes(down', ErrorMessages)
          /\ Replaced(down, OldErrors, ErrorMessages) =>
               /\ Replaced(down', OldErrors, ErrorMessages)
               /\ Head(down) \in OldErrors => Comes(down', ErrorMessages)
      BY <1>1, <2>1, TakenFacts
    <2>4. CASE Head(down) \in ErrorMessages
      <3>1. error' \in {None, clock} \/ Head(down) \in OldErrors
        BY <2>1, <2>2, <2>4, HandledError DEF OldErrors
      <3>2. None' = None
        BY DEF None
      <3> QED BY <1>2, <1>3, <2>1, <2>3, <3>1, <3>2 DEF ErrorsEnd, Comes, Replaced
    <2>5. CASE Head(down) \notin ErrorMessages
      <3>1. error' = error
        BY <2>1, <2>2, <2>5, HandledError
      <3> QED BY <1>2, <1>3, <2>1, <2>3, <2>5, <3>1 DEF ErrorsEnd, Comes, Replaced
    <2> QED BY <2>4, <2>5
  <1>13. CASE Reload
    BY <1>13 DEF Reload, ErrorsEnd
  <1>14. CASE UNCHANGED <<clock, error, subscribed, down>>
    BY <1>2, <1>3, <1>14 DEF ErrorsEnd, Comes, Replaced
  <1>15. \/ Frame \/ CheckForError \/ StartPass \/ CompletePass \/ Unsubscribe \/ Subscribe
         \/ OnMessage \/ Reload \/ UNCHANGED <<clock, error, subscribed, down>>
    BY DEF Next, vars, Complaint, StreamEnds, StopComplete, Spawn, SomebodyTunes,
           StartTimer, StopTimer, StopForPass, Render, SwitchTab
  <1> QED BY <1>6, <1>7, <1>8, <1>9, <1>10, <1>11, <1>12, <1>13, <1>14, <1>15

(* For any number of frames and of errors, reported in whatever order: the *)
(* frames that follow an error end it on every page that is subscribed,    *)
(* or the answer to its subscription does.                                 *)
THEOREM ErrorsAreCleared == Spec => []FramesEndErrors
  <1>1. Init => ErrorsEnd
    BY DEF Init, ErrorsEnd
  <1>2. TypeOK /\ ErrorsEnd /\ [Next]_vars => ErrorsEnd'
    BY ErrorsStep
  <1>3. ErrorsEnd => FramesEndErrors
    BY DEF ErrorsEnd, FramesEndErrors, Rendered, Comes
  <1> QED BY <1>1, <1>2, <1>3, WaterfallTypeCorrect, PTL DEF Spec

----------------------------------------------------------------------------
(* What is shown during a capture.                                         *)

(* What a message makes of the two states that explain a capture.          *)
LEMMA HandledPass ==
    ASSUME NEW m \in Events, Handled(m)
    PROVE  /\ m \in StartMessages => active'
           /\ m \in EndMessages => ~ active'
           /\ m \notin StartMessages /\ m \notin EndMessages => active' = active
  <1>1. m.type = "init" => m.pass \in BOOLEAN
    BY EventFields
  <1> QED BY <1>1 DEF Handled, StartMessages, EndMessages

LEMMA HandledRunning ==
    ASSUME NEW m \in Events, Handled(m)
    PROVE  /\ m \in OffMessages => ~ running'
           /\ m \notin OffMessages /\ m \notin OnMessages => running' = running
  <1>1. m.type \in {"init", "fft_subscribed"} => m.running \in BOOLEAN
    BY EventFields
  <1> QED BY <1>1 DEF Handled, SetFftState, ClearStaleError, OffMessages, OnMessages

(* Who tells what.                                                         *)
LEMMA MessageKinds ==
    ASSUME TypeOK
    PROVE  /\ [type |-> "pass_start"] \in StartMessages \ (EndMessages \cup OnMessages)
           /\ [type |-> "pass_complete"] \in EndMessages \ (StartMessages \cup OnMessages)
           /\ [type |-> "fft_unsubscribed"]
                 \in OffMessages \ (OnMessages \cup StartMessages \cup EndMessages)
           /\ [type |-> "fft_error", error |-> clock]
                 \in OffMessages \ (OnMessages \cup StartMessages \cup EndMessages)
           /\ \A t \in Frames : [type |-> "fft_data", t |-> t]
                 \in Events \ (StartMessages \cup EndMessages)
           /\ fftHistoryBuffer # <<>> =>
                [type |-> "fft_history", data |-> fftHistoryBuffer]
                   \in Events \ (OnMessages \cup StartMessages \cup EndMessages)
  <1>1. fftHistoryBuffer # <<>> => [type |-> "fft_history", data |-> fftHistoryBuffer] \in Events
    BY MessageTypes DEF History
  <1> QED BY <1>1, MessageTypes DEF StartMessages, EndMessages, OnMessages, OffMessages

LEMMA AnswerKind ==
    ASSUME TypeOK,
           NEW a, a = [type |-> "fft_subscribed", running |-> IsFFTStreamRunning,
                       error |-> StreamError]
    PROVE  /\ a \in Events \ (StartMessages \cup EndMessages)
           /\ phase # "on" => a \in OffMessages \ OnMessages
  <1>1. a \in Events
    BY MessageTypes DEF Subscribed
  <1>2. a.type = "fft_subscribed" /\ a.running = IsFFTStreamRunning
    BY DEF IsFFTStreamRunning
  <1> QED BY <1>1, <1>2
          DEF StartMessages, EndMessages, OnMessages, OffMessages, IsFFTStreamRunning

LEMMA PassToldStep ==
    ASSUME TypeOK, PassIsTold, [Next]_vars
    PROVE  PassIsTold'
  <1> USE DEF fft, server, state, view
  <1>1. down \in Seq(Events)
    BY DEF TypeOK
  <1>2. StartMessages' = StartMessages /\ EndMessages' = EndMessages
    BY DEF StartMessages, EndMessages
  <1>3. \A q \in Seq(Events), m \in Events \ (StartMessages \cup EndMessages) :
          /\ Comes(q, StartMessages) => Comes(q \o <<m>>, StartMessages)
          /\ Comes(q, EndMessages) => Comes(q \o <<m>>, EndMessages)
          /\ Replaced(q, StartMessages, EndMessages) =>
               Replaced(q \o <<m>>, StartMessages, EndMessages)
          /\ Replaced(q, EndMessages, StartMessages) =>
               Replaced(q \o <<m>>, EndMessages, StartMessages)
    BY SentFacts
  <1>4. CASE UNCHANGED <<active, capturing, down>>
    BY <1>2, <1>4 DEF PassIsTold, Comes, Replaced
  <1>5. ASSUME UNCHANGED <<active, capturing>>,
               NEW m \in Events \ (StartMessages \cup EndMessages),
               down' = down \/ down' = down \o <<m>>
        PROVE  PassIsTold'
    <2>1. CASE down' = down
      BY <1>4, <1>5, <2>1
    <2>2. CASE down' = down \o <<m>>
      BY <1>1, <1>2, <1>3, <1>5, <2>2 DEF PassIsTold, Comes, Replaced
    <2> QED BY <1>5, <2>1, <2>2
  <1>6. CASE Frame
    <2>1. clock' \in Frames /\ ToSubscriber([type |-> "fft_data", t |-> clock'])
      BY <1>6, FrameFacts
    <2> QED BY <1>5, <1>6, <2>1, MessageKinds DEF Frame, ToSubscriber, Send
  <1>7. CASE CheckForError
    <2>1. [type |-> "fft_error", error |-> clock] \in Events \ (StartMessages \cup EndMessages)
      BY MessageKinds, MessageTypes
    <2> QED BY <1>5, <1>7, <2>1 DEF CheckForError, ToSubscriber, Send
  <1>8. CASE Unsubscribe
    <2>1. [type |-> "fft_unsubscribed"] \in Events \ (StartMessages \cup EndMessages)
      BY MessageKinds, MessageTypes
    <2> QED BY <1>5, <1>8, <2>1 DEF Unsubscribe, Send
  <1>9. CASE Subscribe
    <2> DEFINE h == [type |-> "fft_history", data |-> fftHistoryBuffer]
               a == [type |-> "fft_subscribed", running |-> IsFFTStreamRunning,
                     error |-> StreamError]
    <2>1. PICK q \in Seq(Events) :
            /\ down' = q \o <<a>>
            /\ q = down \/ (fftHistoryBuffer # <<>> /\ q = down \o <<h>>)
      BY <1>9, SubscribeSends DEF Subscribed
    <2>2. a \in Events \ (StartMessages \cup EndMessages)
      BY AnswerKind
    <2>3. fftHistoryBuffer # <<>> => h \in Events \ (StartMessages \cup EndMessages)
      BY MessageKinds
    <2>4. UNCHANGED <<active, capturing>>
      BY <1>9 DEF Subscribe
    <2> HIDE DEF a, h
    <2>5. /\ Comes(down, StartMessages) => Comes(q, StartMessages)
          /\ Comes(down, EndMessages) => Comes(q, EndMessages)
          /\ Replaced(down, StartMessages, EndMessages) => Replaced(q, StartMessages, EndMessages)
          /\ Replaced(down, EndMessages, StartMessages) => Replaced(q, EndMessages, StartMessages)
      BY <1>1, <1>3, <2>1, <2>3
    <2>6. /\ Comes(q, StartMessages) => Comes(down', StartMessages)
          /\ Comes(q, EndMessages) => Comes(down', EndMessages)
          /\ Replaced(q, StartMessages, EndMessages) => Replaced(down', StartMessages, EndMessages)
          /\ Replaced(q, EndMessages, StartMessages) => Replaced(down', EndMessages, StartMessages)
      BY <1>3, <2>1, <2>2
    <2> QED BY <1>2, <2>4, <2>5, <2>6 DEF PassIsTold, Comes, Replaced
  <1>10. CASE StartPass
    <2> DEFINE m == [type |-> "pass_start"]
    <2>1. m \in Events /\ m \in StartMessages /\ m \notin EndMessages
      BY MessageTypes, MessageKinds
    <2>2. down' = down \o <<m>> /\ capturing' = TRUE
      BY <1>10 DEF StartPass, Send
    <2> HIDE DEF m
    <2>3. Comes(down', StartMessages) /\ Replaced(down', EndMessages, StartMessages)
      BY <1>1, <2>1, <2>2, SentFacts
    <2> QED BY <1>2, <2>2, <2>3 DEF PassIsTold, Comes, Replaced
  <1>11. CASE CompletePass
    <2> DEFINE m == [type |-> "pass_complete"]
    <2>1. m \in Events /\ m \in EndMessages /\ m \notin StartMessages
      BY MessageTypes, MessageKinds
    <2>2. down' = down \o <<m>> /\ capturing' = FALSE
      BY <1>11 DEF CompletePass, Send
    <2> HIDE DEF m
    <2>3. Comes(down', EndMessages) /\ Replaced(down', StartMessages, EndMessages)
      BY <1>1, <2>1, <2>2, SentFacts
    <2> QED BY <1>2, <2>2, <2>3 DEF PassIsTold, Comes, Replaced
  <1>12. CASE OnMessage
    <2>1. down # <<>> /\ down' = Tail(down) /\ Handled(Head(down)) /\ capturing' = capturing
      BY <1>12 DEF OnMessage
    <2>2. Head(down) \in Events
      BY <1>1, <2>1, Taken
    <2>3. /\ Comes(down, StartMessages) => Head(down) \in StartMessages \/ Comes(down', StartMessages)
          /\ Replaced(down, EndMessages, StartMessages) =>
               /\ Replaced(down', EndMessages, StartMessages)
               /\ Head(down) \in EndMessages => Comes(down', StartMessages)
      BY <1>1, <2>1, TakenFacts
    <2>4. /\ Comes(down, EndMessages) => Head(down) \in EndMessages \/ Comes(down', EndMessages)
          /\ Replaced(down, StartMessages, EndMessages) =>
               /\ Replaced(down', StartMessages, EndMessages)
               /\ Head(down) \in StartMessages => Comes(down', EndMessages)
      BY <1>1, <2>1, TakenFacts
    <2>5. /\ Head(down) \in StartMessages => active'
          /\ Head(down) \in EndMessages => ~ active'
          /\ Head(down) \notin StartMessages /\ Head(down) \notin EndMessages => active' = active
      BY <2>1, <2>2, HandledPass
    <2>6. CASE capturing
      BY <1>2, <2>1, <2>3, <2>5, <2>6 DEF PassIsTold, Comes, Replaced
    <2>7. CASE ~ capturing
      BY <1>2, <2>1, <2>4, <2>5, <2>7 DEF PassIsTold, Comes, Replaced
    <2> QED BY <2>6, <2>7
  <1>13. CASE Reload
    <2>1. InitMessage \in Events /\ InitMessage.type = "init" /\ InitMessage.pass = capturing
      BY MessageTypes DEF InitMessage
    <2>2. /\ capturing => InitMessage \in StartMessages /\ InitMessage \notin EndMessages
          /\ ~ capturing => InitMessage \in EndMessages /\ InitMessage \notin StartMessages
      BY <2>1 DEF StartMessages, EndMessages
    <2>3. down' = <<InitMessage>> /\ active' = FALSE /\ capturing' = capturing
      BY <1>13 DEF Reload, LoadPage
    <2>4. /\ capturing => /\ Comes(down', StartMessages)
                          /\ Replaced(down', EndMessages, StartMessages)
          /\ ~ capturing => Replaced(down', StartMessages, EndMessages)
      BY <2>1, <2>2, <2>3, FirstFacts
    <2> QED BY <1>2, <2>3, <2>4 DEF PassIsTold, Comes, Replaced
  <1>14. \/ Frame \/ CheckForError \/ Unsubscribe \/ Subscribe \/ StartPass \/ CompletePass
         \/ OnMessage \/ Reload \/ UNCHANGED <<active, capturing, down>>
    BY DEF Next, vars, Complaint, StreamEnds, StopComplete, Spawn, SomebodyTunes,
           StartTimer, StopTimer, StopForPass, Render, SwitchTab
  <1> QED BY <1>4, <1>6, <1>7, <1>8, <1>9, <1>10, <1>11, <1>12, <1>13, <1>14

LEMMA StreamOffStep ==
    ASSUME TypeOK, StreamOff, [Next]_vars
    PROVE  StreamOff'
  <1> USE DEF fft, server, state, view
  <1> DEFINE Live == {"on", "stopping", "retuning"}
  <1>1. down \in Seq(Events)
    BY DEF TypeOK
  <1>2. StartMessages' = StartMessages
    BY DEF StartMessages
  <1>3. \A q \in Seq(Events), m \in Events \ StartMessages :
          ~ Comes(q, StartMessages) => ~ Comes(q \o <<m>>, StartMessages)
    <2> SUFFICES ASSUME NEW q \in Seq(Events), NEW m \in Events \ StartMessages,
                        Comes(q \o <<m>>, StartMessages)
                 PROVE  Comes(q, StartMessages)
      OBVIOUS
    <2> DEFINE r == q \o <<m>>
    <2>1. /\ Len(q) \in Nat /\ DOMAIN q = 1..Len(q) /\ DOMAIN r = 1..(Len(q) + 1)
          /\ \A i \in 1..Len(q) : r[i] = q[i]
          /\ r[Len(q) + 1] = m
      BY Sent
    <2>2. PICK j \in DOMAIN r : r[j] \in StartMessages
      BY DEF Comes
    <2> HIDE DEF r
    <2>3. j # Len(q) + 1
      BY <2>1, <2>2
    <2>4. j \in DOMAIN q /\ q[j] \in StartMessages
      BY <2>1, <2>2, <2>3
    <2> QED BY <2>4 DEF Comes
  <1>4. ASSUME UNCHANGED <<phase, capturing, active, frequency>>,
               capturing => pendingFFTStart' = pendingFFTStart,
               NEW q \in Seq(Events), ~ Comes(down, StartMessages) => ~ Comes(q, StartMessages),
               NEW m \in Events \ StartMessages,
               down' = q \/ down' = q \o <<m>>
        PROVE  StreamOff'
    <2>1. ~ Comes(down, StartMessages) => ~ Comes(down', StartMessages)
      BY <1>3, <1>4
    <2> QED BY <1>2, <1>4, <2>1 DEF StreamOff, Comes
  <1>5. CASE Frame
    <2>1. clock' \in Frames /\ ToSubscriber([type |-> "fft_data", t |-> clock'])
      BY <1>5, FrameFacts
    <2>2. [type |-> "fft_data", t |-> clock'] \in Events \ StartMessages
      BY <2>1, MessageKinds
    <2> QED BY <1>1, <1>4, <1>5, <2>1, <2>2 DEF Frame, ToSubscriber, Send
  <1>6. CASE CheckForError
    <2>1. [type |-> "fft_error", error |-> clock] \in Events \ StartMessages
      BY MessageKinds, MessageTypes
    <2> QED BY <1>1, <1>4, <1>6, <2>1 DEF CheckForError, ToSubscriber, Send
  <1>7. CASE Unsubscribe
    <2>1. [type |-> "fft_unsubscribed"] \in Events \ StartMessages
      BY MessageKinds, MessageTypes
    <2> QED BY <1>1, <1>4, <1>7, <2>1 DEF Unsubscribe, Send
  <1>8. CASE Subscribe
    <2> DEFINE h == [type |-> "fft_history", data |-> fftHistoryBuffer]
               a == [type |-> "fft_subscribed", running |-> IsFFTStreamRunning,
                     error |-> StreamError]
    <2>1. PICK q \in Seq(Events) :
            /\ down' = q \o <<a>>
            /\ q = down \/ (fftHistoryBuffer # <<>> /\ q = down \o <<h>>)
      BY <1>8, SubscribeSends DEF Subscribed
    <2>2. a \in Events \ StartMessages
      BY AnswerKind
    <2>3. fftHistoryBuffer # <<>> => h \in Events \ StartMessages
      BY MessageKinds
    <2>4. UNCHANGED <<phase, capturing, active, frequency>>
      BY <1>8 DEF Subscribe
    <2>5. capturing => pendingFFTStart' = pendingFFTStart
      BY <1>8 DEF Subscribe, TypeOK
    <2> HIDE DEF a, h
    <2>6. ~ Comes(down, StartMessages) => ~ Comes(q, StartMessages)
      BY <1>1, <1>3, <2>1, <2>3
    <2> QED BY <1>4, <2>1, <2>2, <2>4, <2>5, <2>6
  <1>9. CASE Complaint
    BY <1>2, <1>9 DEF Complaint, StreamOff, Comes
  <1>10. CASE StreamEnds
    BY <1>10 DEF StreamEnds, StreamOff
  <1>11. CASE StopComplete
    BY <1>11 DEF StopComplete, StreamOff
  <1>12. CASE Spawn
    <2>1. PassOver => ~ active /\ frequency # "pass" /\ ~ Comes(down, StartMessages)
      BY DEF PassOver, Comes, StartMessages
    <2>2. ~ capturing'
      BY <1>12 DEF Spawn, StreamOff
    <2>3. PassOver /\ UNCHANGED <<active, frequency, down>>
      BY <1>12 DEF Spawn
    <2> QED BY <1>2, <2>1, <2>2, <2>3 DEF StreamOff, Comes
  <1>13. CASE SomebodyTunes
    BY <1>2, <1>13 DEF SomebodyTunes, StreamOff, Comes
  <1>14. CASE StartTimer
    <2>1. ~ capturing' /\ UNCHANGED <<active, frequency, down>>
      BY <1>14 DEF StartTimer, StreamOff
    <2>2. phase' \in Live => phase \in Live
      BY <1>14 DEF StartTimer
    <2> QED BY <1>2, <2>1, <2>2 DEF StreamOff, Comes
  <1>15. CASE StopTimer
    <2>1. /\ UNCHANGED <<capturing, pendingFFTStart, active, frequency, down>>
          /\ phase' \in Live => phase \in Live
          /\ phase = "off" => phase' = "off"
      BY <1>15 DEF StopTimer, IsFFTStreamRunning
    <2> QED BY <1>2, <2>1 DEF StreamOff, Comes
  <1>16. CASE StopForPass
    BY <1>2, <1>16 DEF StopForPass, StreamOff, Comes
  <1>17. CASE StartPass
    BY <1>17 DEF StartPass, StreamOff
  <1>18. CASE CompletePass
    BY <1>18 DEF CompletePass, StreamOff
  <1>19. CASE OnMessage
    <2>1. /\ down # <<>> /\ down' = Tail(down) /\ Handled(Head(down))
          /\ UNCHANGED <<phase, capturing, pendingFFTStart, frequency>>
      BY <1>19 DEF OnMessage
    <2>2. /\ Head(down) = down[1] /\ 1 \in DOMAIN down /\ Head(down) \in Events
          /\ \A i \in DOMAIN down' : \E j \in DOMAIN down : down'[i] = down[j]
      BY <1>1, <2>1, Taken
    <2>3. ~ Comes(down, StartMessages) =>
            Head(down) \notin StartMessages /\ ~ Comes(down', StartMessages)
      BY <2>2 DEF Comes
    <2>4. ~ active /\ Head(down) \notin StartMessages => ~ active'
      BY <2>1, <2>2, HandledPass
    <2> QED BY <1>2, <2>1, <2>3, <2>4 DEF StreamOff, Comes
  <1>20. ASSUME UNCHANGED <<phase, capturing, pendingFFTStart, active, down>>,
                NEW d, frequency' = GetCurrentFrequency(d, active)
         PROVE  StreamOff'
    <2>1. ~ active => frequency' # "pass"
      BY <1>20 DEF GetCurrentFrequency
    <2> QED BY <1>2, <1>20, <2>1 DEF StreamOff, Comes
  <1>21. CASE Render
    BY <1>20, <1>21 DEF Render, Resubscribe
  <1>22. CASE SwitchTab
    BY <1>20, <1>22 DEF SwitchTab, Resubscribe
  <1>23. CASE Reload
    <2>1. /\ UNCHANGED <<phase, capturing, pendingFFTStart>>
          /\ down' = <<InitMessage>> /\ ~ active' /\ frequency' = GetCurrentFrequency(mode, FALSE)
      BY <1>23 DEF Reload, LoadPage
    <2>2. InitMessage.type = "init" /\ InitMessage.pass = capturing
      BY DEF InitMessage
    <2>3. ~ capturing => InitMessage \notin StartMessages
      BY <2>2 DEF StartMessages
    <2>4. ~ capturing => ~ Comes(down', StartMessages)
      BY <2>1, <2>3 DEF Comes
    <2>5. frequency' # "pass"
      BY <2>1 DEF GetCurrentFrequency
    <2>6. phase \in Live => ~ capturing
      BY DEF StreamOff
    <2> QED BY <1>2, <2>1, <2>4, <2>5, <2>6 DEF StreamOff, Comes
  <1>24. CASE UNCHANGED vars
    BY <1>2, <1>24 DEF vars, StreamOff, Comes
  <1> QED BY <1>5, <1>6, <1>7, <1>8, <1>9, <1>10, <1>11, <1>12, <1>13, <1>14, <1>15, <1>16,
             <1>17, <1>18, <1>19, <1>21, <1>22, <1>23, <1>24 DEF Next

LEMMA ExplainedStep ==
    ASSUME TypeOK, StreamOff, PassExplained, [Next]_vars
    PROVE  PassExplained'
  <1> USE DEF fft, server, state, view
  <1>1. down \in Seq(Events)
    BY DEF TypeOK
  <1>2. OnMessages' = OnMessages /\ OffMessages' = OffMessages
    BY DEF OnMessages, OffMessages
  <1>3. ASSUME UNCHANGED <<dirty, frequency, mode, active>>, frequency # "pass"
        PROVE  PassExplained'
    BY <1>3 DEF PassExplained
  <1>4. ASSUME UNCHANGED <<dirty, frequency, mode, active>>,
               NEW q \in Seq(Events), NEW m \in Events, m \in OffMessages, m \notin OnMessages,
               down' = q \o <<m>>
        PROVE  PassExplained'
    <2>1. Comes(down', OffMessages) /\ Replaced(down', OnMessages, OffMessages)
      BY <1>4, SentFacts
    <2>2. OffIsTold'
      BY <1>2, <2>1 DEF OffIsTold, Comes, Replaced
    <2> QED BY <1>4, <2>2 DEF PassExplained
  <1>5. ASSUME UNCHANGED <<dirty, frequency, mode, active, up, running>>,
               NEW m \in Events, m \notin OnMessages, down' = down \/ down' = down \o <<m>>
        PROVE  PassExplained'
    <2>1. OffIsTold => OffIsTold'
      <3>1. CASE down' = down
        BY <1>2, <1>5, <3>1 DEF OffIsTold, Comes, Replaced
      <3>2. CASE down' = down \o <<m>>
        <4>1. /\ Comes(down, OffMessages) => Comes(down', OffMessages)
              /\ Replaced(down, OnMessages, OffMessages) =>
                   Replaced(down', OnMessages, OffMessages)
          BY <1>1, <1>5, <3>2, SentFacts
        <4> QED BY <1>2, <1>5, <4>1 DEF OffIsTold, Comes, Replaced
      <3> QED BY <1>5, <3>1, <3>2
    <2> QED BY <1>5, <2>1 DEF PassExplained
  <1>6. CASE UNCHANGED <<dirty, frequency, mode, active, up, running, down>>
    <2>1. OffIsTold => OffIsTold'
      BY <1>2, <1>6 DEF OffIsTold, Comes, Replaced
    <2> QED BY <1>6, <2>1 DEF PassExplained
  <1>7. CASE Frame
    <2>1. frequency # "pass"
      BY <1>7 DEF Frame, StreamOff
    <2> QED BY <1>3, <1>7, <2>1 DEF Frame
  <1>8. CASE CheckForError
    <2> DEFINE m == [type |-> "fft_error", error |-> clock]
    <2>1. m \in Events /\ m \notin OnMessages
      BY MessageKinds, MessageTypes
    <2> HIDE DEF m
    <2>2. UNCHANGED <<dirty, frequency, mode, active, up, running>>
      BY <1>8 DEF CheckForError
    <2>3. down' = down \/ down' = down \o <<m>>
      BY <1>8 DEF CheckForError, ToSubscriber, Send, m
    <2> QED BY <1>5, <2>1, <2>2, <2>3
  <1>9. CASE Unsubscribe
    <2>1. /\ [type |-> "fft_unsubscribed"] \in Events
          /\ [type |-> "fft_unsubscribed"] \in OffMessages
          /\ [type |-> "fft_unsubscribed"] \notin OnMessages
      BY MessageKinds, MessageTypes
    <2> QED BY <1>1, <1>4, <1>9, <2>1 DEF Unsubscribe, Send
  <1>10. CASE Subscribe
    <2> DEFINE a == [type |-> "fft_subscribed", running |-> IsFFTStreamRunning,
                     error |-> StreamError]
    <2>1. UNCHANGED <<dirty, frequency, mode, active>>
      BY <1>10 DEF Subscribe
    <2>2. CASE phase = "on"
      BY <1>3, <2>1, <2>2 DEF StreamOff
    <2>3. CASE phase # "on"
      <3>1. PICK q \in Seq(Events) : down' = q \o <<a>>
        BY <1>10, SubscribeSends DEF Subscribed
      <3>2. a \in Events /\ a \in OffMessages /\ a \notin OnMessages
        BY <2>3, AnswerKind
      <3> HIDE DEF a
      <3> QED BY <1>4, <2>1, <3>1, <3>2
    <2> QED BY <2>2, <2>3
  <1>11. CASE StartPass
    <2>1. [type |-> "pass_start"] \in Events /\ [type |-> "pass_start"] \notin OnMessages
      BY MessageKinds, MessageTypes
    <2> QED BY <1>5, <1>11, <2>1 DEF StartPass, Send
  <1>12. CASE CompletePass
    <2>1. [type |-> "pass_complete"] \in Events /\ [type |-> "pass_complete"] \notin OnMessages
      BY MessageKinds, MessageTypes
    <2> QED BY <1>5, <1>12, <2>1 DEF CompletePass, Send
  <1>13. CASE OnMessage
    <2>1. /\ down # <<>> /\ down' = Tail(down) /\ Handled(Head(down)) /\ dirty'
          /\ UNCHANGED <<frequency, up>>
      BY <1>13 DEF OnMessage
    <2>2. Head(down) \in Events
      BY <1>1, <2>1, Taken
    <2>3. /\ Comes(down, OffMessages) => Head(down) \in OffMessages \/ Comes(down', OffMessages)
          /\ Replaced(down, OnMessages, OffMessages) =>
               /\ Replaced(down', OnMessages, OffMessages)
               /\ Head(down) \in OnMessages => Comes(down', OffMessages)
      BY <1>1, <2>1, TakenFacts
    <2>4. /\ Head(down) \in OffMessages => ~ running'
          /\ Head(down) \notin OffMessages /\ Head(down) \notin OnMessages => running' = running
      BY <2>1, <2>2, HandledRunning
    <2>5. ASSUME OffIsTold PROVE OffIsTold'
      <3>1. Replaced(down', OnMessages, OffMessages)
        BY <2>3, <2>5 DEF OffIsTold
      <3>2. CASE Head(down) \in OffMessages
        BY <1>2, <2>4, <3>1, <3>2 DEF OffIsTold, Comes, Replaced
      <3>3. CASE Head(down) \in OnMessages
        BY <1>2, <2>3, <2>5, <3>1, <3>3 DEF OffIsTold, Comes, Replaced
      <3>4. CASE Head(down) \notin OffMessages /\ Head(down) \notin OnMessages
        BY <1>2, <2>3, <2>4, <2>5, <3>1, <3>4 DEF OffIsTold, Comes, Replaced
      <3> QED BY <3>2, <3>3, <3>4
    <2> QED BY <2>1, <2>5 DEF PassExplained
  <1>14. ASSUME UNCHANGED <<active, running, down>>, Resubscribe(GetCurrentFrequency(mode', active))
         PROVE  PassExplained'
    <2>1. frequency' = GetCurrentFrequency(mode', active')
      BY <1>14 DEF Resubscribe
    <2>2. CASE frequency' = frequency
      <3>1. up' = up
        BY <1>14, <2>2 DEF Resubscribe
      <3>2. OffIsTold => OffIsTold'
        BY <1>2, <1>14 DEF OffIsTold, Comes, Replaced
      <3> QED BY <2>1, <2>2, <3>1, <3>2 DEF PassExplained
    <2>3. CASE frequency' # frequency
      <3> DEFINE both == <<"fft_unsubscribe", "fft_subscribe">>
                 Requests == {"fft_subscribe", "fft_unsubscribe"}
      <3>1. up' = up \o both
        BY <1>14, <2>3 DEF Resubscribe
      <3>2. up \in Seq(Requests) /\ both \in Seq(Requests) /\ Len(both) = 2
            /\ both[2] = "fft_subscribe"
        BY DEF TypeOK
      <3>3. Len(up) \in Nat
        BY <3>2, LenProperties
      <3> HIDE DEF both, Requests
      <3>4. /\ up \o both \in Seq(Requests)
            /\ Len(up \o both) = Len(up) + Len(both)
            /\ \A i \in 1 .. Len(up) + Len(both) : (up \o both)[i] =
                     IF i <= Len(up) THEN up[i] ELSE both[i - Len(up)]
        BY <3>2, ConcatProperties
      <3>5. DOMAIN (up \o both) = 1..(Len(up) + 2)
        BY <3>2, <3>4, LenProperties
      <3>6. (up \o both)[Len(up) + 2] = "fft_subscribe"
        BY <3>2, <3>3, <3>4
      <3>7. \E k \in DOMAIN up' : up'[k] = "fft_subscribe"
        BY <3>1, <3>3, <3>5, <3>6
      <3> QED BY <2>1, <3>7 DEF PassExplained
    <2> QED BY <2>2, <2>3
  <1>15. CASE Render
    BY <1>14, <1>15 DEF Render
  <1>16. CASE SwitchTab
    BY <1>14, <1>16 DEF SwitchTab
  <1>17. CASE Reload
    BY <1>17 DEF Reload, LoadPage, PassExplained, GetCurrentFrequency
  <1>18. \/ Frame \/ CheckForError \/ Unsubscribe \/ Subscribe \/ StartPass \/ CompletePass
         \/ OnMessage \/ Render \/ SwitchTab \/ Reload
         \/ UNCHANGED <<dirty, frequency, mode, active, up, running, down>>
    BY DEF Next, vars, Complaint, StreamEnds, StopComplete, Spawn, SomebodyTunes,
           StartTimer, StopTimer, StopForPass
  <1> QED BY <1>6, <1>7, <1>8, <1>9, <1>10, <1>11, <1>12, <1>13, <1>15, <1>16, <1>17, <1>18

(* For any number of passes and of reloads of the page: a satellite page   *)
(* that has caught up explains a capture, or shows an error; what it was   *)
(* told of the stream before the pass is replaced by the answer to the     *)
(* subscription that the change of frequency makes it repeat.              *)
THEOREM CaptureIsExplained == Spec => []CaptureExplained
  <1>1. Init => StreamOff /\ PassIsTold /\ PassExplained
    <2> SUFFICES ASSUME Init PROVE StreamOff /\ PassIsTold /\ PassExplained
      OBVIOUS
    <2>1. InitMessage.type = "init" /\ ~ InitMessage.pass
      BY DEF Init, InitMessage
    <2>2. down = <<InitMessage>> /\ InitMessage \notin StartMessages
      BY <2>1 DEF Init, StartMessages
    <2>3. Replaced(down, StartMessages, EndMessages)
      BY <2>2 DEF Replaced
    <2>4. frequency # "pass" /\ frequency = GetCurrentFrequency(mode, active)
      BY DEF Init, GetCurrentFrequency
    <2> QED BY <2>3, <2>4 DEF Init, StreamOff, PassIsTold, PassExplained
  <1>2. TypeOK /\ StreamOff /\ PassIsTold /\ PassExplained /\ [Next]_vars =>
          StreamOff' /\ PassIsTold' /\ PassExplained'
    BY StreamOffStep, PassToldStep, ExplainedStep
  <1>3. PassIsTold /\ PassExplained => CaptureExplained
    <2> SUFFICES ASSUME PassIsTold, PassExplained, capturing, down = <<>>, ~ dirty, up = <<>>,
                        mode = "satellite"
                 PROVE  Screen \in {"capturing", "error"}
      BY DEF CaptureExplained, Rendered
    <2>1. \A Fix : ~ Comes(down, Fix)
      BY DEF Comes
    <2>2. active
      BY <2>1 DEF PassIsTold
    <2>3. frequency = "pass"
      BY <2>2 DEF PassExplained, GetCurrentFrequency
    <2>4. OffIsTold
      BY <2>3 DEF PassExplained
    <2>5. ~ running
      BY <2>1, <2>4 DEF OffIsTold
    <2> QED BY <2>2, <2>5 DEF Screen
  <1> QED BY <1>1, <1>2, <1>3, WaterfallTypeCorrect, PTL DEF Spec

----------------------------------------------------------------------------
(* The colour scales.                                                      *)

LEMMA LeastNat ==
    ASSUME NEW T, T \subseteq Nat, T # {}
    PROVE  \E x \in T : \A y \in T : x <= y
  <1> DEFINE R == OpToRel(<, Nat)
  <1>1. IsWellFoundedOn(R, Nat)
    BY NatLessThanWellFounded
  <1> HIDE DEF R
  <1>2. PICK x \in T : \A y \in T : ~ (<<y, x>> \in R)
    BY <1>1, WFMin
  <1>3. \A y \in T : <<y, x>> \in R <=> y < x
    BY DEF R, OpToRel
  <1>4. ASSUME NEW y \in T PROVE x <= y
    <2>1. x \in Nat /\ y \in Nat /\ ~ (y < x)
      BY <1>2, <1>3
    <2> QED BY <2>1
  <1> QED BY <1>4

(* A set of numbers that is bounded has a least and a greatest element.    *)
LEMMA MinFacts ==
    ASSUME NEW T, T \subseteq Int, T # {}, NEW lo \in Int, \A x \in T : lo <= x
    PROVE  Min(T) \in T /\ \A y \in T : Min(T) <= y
  <1> DEFINE U == {n \in Nat : lo + n \in T}
  <1>1. \A x \in T : x - lo \in U /\ lo + (x - lo) = x
    OBVIOUS
  <1>2. PICK n \in U : \A k \in U : n <= k
    BY <1>1, LeastNat
  <1>3. lo + n \in T /\ \A y \in T : lo + n <= y
    BY <1>1, <1>2
  <1> QED BY <1>3 DEF Min

LEMMA MaxFacts ==
    ASSUME NEW T, T \subseteq Int, T # {}, NEW hi \in Int, \A x \in T : x <= hi
    PROVE  Max(T) \in T /\ \A y \in T : Max(T) >= y
  <1> DEFINE U == {n \in Nat : hi - n \in T}
  <1>1. \A x \in T : hi - x \in U /\ hi - (hi - x) = x
    OBVIOUS
  <1>2. PICK n \in U : \A k \in U : n <= k
    BY <1>1, LeastNat
  <1>3. hi - n \in T /\ \A y \in T : hi - n >= y
    BY <1>1, <1>2
  <1> QED BY <1>3 DEF Max

(* The scale of WaterfallView, from what was measured or without it.       *)
LEMMA AutoScaleProper ==
    ASSUME NEW a \in Int, NEW b \in Int,
           \/ a = 0
           \/ -150 * Unit < a /\ a <= b /\ -120 * Unit <= b /\ b < 0
    PROVE  AutoScale(a, b).min < AutoScale(a, b).max
  <1>1. Unit \in Int /\ Unit > 0
    BY PowersAssumption
  <1> QED BY <1>1 DEF AutoScale, Larger, Smaller

LEMMA SpectrumAutoScaleProper ==
    ASSUME NEW a \in Int, NEW b \in Int, a <= -100 * Unit, -20 * Unit <= b
    PROVE  SpectrumAutoScale(a, b).min < SpectrumAutoScale(a, b).max
  <1>1. Unit \in Int /\ Unit > 0
    BY PowersAssumption
  <1> QED BY <1>1 DEF SpectrumAutoScale, Larger, Smaller

LEMMA ScalesProper ==
    ASSUME NEW shown \in SUBSET Frames
    PROVE  /\ WaterfallScale(shown).min < WaterfallScale(shown).max
           /\ SpectrumScale(shown).min < SpectrumScale(shown).max
  <1>1. Unit \in Int /\ Unit > 0
    BY PowersAssumption
  <1>2. \A t \in shown : /\ MinPower[t] \in Int /\ MaxPower[t] \in Int
                         /\ -150 * Unit < MinPower[t] /\ MinPower[t] <= MaxPower[t]
                         /\ -120 * Unit <= MaxPower[t] /\ MaxPower[t] < 0
    BY PowersAssumption
  <1>3. WaterfallScale(shown).min < WaterfallScale(shown).max
    <2> DEFINE L == {0} \cup Measured({MinPower[t] : t \in shown})
               H == {-150 * Unit} \cup Measured({MaxPower[t] : t \in shown})
    <2>1. /\ L \subseteq Int /\ 0 \in L /\ \A x \in L : -150 * Unit <= x
          /\ \A t \in shown : MinPower[t] \in L
          /\ \A x \in L : x = 0 \/ -150 * Unit < x
      BY <1>1, <1>2 DEF Measured
    <2>2. /\ H \subseteq Int /\ -150 * Unit \in H /\ \A x \in H : x < 0
          /\ \A t \in shown : MaxPower[t] \in H
      BY <1>1, <1>2 DEF Measured
    <2>3. \A x \in L : x = 0 \/ \E t \in shown : x = MinPower[t]
      BY DEF Measured
    <2>4. WaterfallScale(shown) = AutoScale(Min(L), Max(H))
      BY DEF WaterfallScale
    <2> HIDE DEF L, H
    <2>5. Min(L) \in L /\ \A y \in L : Min(L) <= y
      <3>1. -150 * Unit \in Int
        BY <1>1
      <3> QED BY <2>1, <3>1, MinFacts
    <2>6. Max(H) \in H /\ \A y \in H : Max(H) >= y
      <3>1. PICK hi \in Int : \A x \in H : x <= hi
        BY <2>2
      <3> QED BY <2>2, <3>1, MaxFacts
    <2>7. \/ Min(L) = 0
          \/ -150 * Unit < Min(L) /\ Min(L) <= Max(H) /\ -120 * Unit <= Max(H) /\ Max(H) < 0
      <3> SUFFICES ASSUME Min(L) # 0
                   PROVE  /\ -150 * Unit < Min(L) /\ Min(L) <= Max(H)
                          /\ -120 * Unit <= Max(H) /\ Max(H) < 0
        OBVIOUS
      <3>1. PICK t \in shown : Min(L) = MinPower[t]
        BY <2>3, <2>5
      <3>2. Max(H) \in Int /\ Max(H) < 0 /\ Max(H) >= MaxPower[t]
        BY <2>2, <2>6
      <3>3. -120 * Unit \in Int
        BY <1>1
      <3>4. /\ MinPower[t] \in Int /\ MaxPower[t] \in Int
            /\ -150 * Unit < MinPower[t] /\ MinPower[t] <= MaxPower[t]
            /\ -120 * Unit <= MaxPower[t]
        BY <1>2
      <3>5. Min(L) <= Max(H) /\ -120 * Unit <= Max(H)
        BY <3>1, <3>2, <3>3, <3>4
      <3> QED BY <3>1, <3>2, <3>4, <3>5
    <2>8. Min(L) \in Int /\ Max(H) \in Int
      BY <2>1, <2>2, <2>5, <2>6
    <2>9. AutoScale(Min(L), Max(H)).min < AutoScale(Min(L), Max(H)).max
      BY <2>7, <2>8, AutoScaleProper
    <2> QED BY <2>4, <2>9
  <1>4. SpectrumScale(shown).min < SpectrumScale(shown).max
    <2> DEFINE L == {-100 * Unit} \cup {x \in {MinPower[t] : t \in shown} : x > -120 * Unit}
               H == {-20 * Unit} \cup {MaxPower[t] : t \in shown}
    <2>1. L \subseteq Int /\ -100 * Unit \in L /\ \A x \in L : -120 * Unit <= x
      BY <1>1, <1>2
    <2>2. H \subseteq Int /\ -20 * Unit \in H /\ \A x \in H : x <= 0
      BY <1>1, <1>2
    <2>3. SpectrumScale(shown) = SpectrumAutoScale(Min(L), Max(H))
      BY DEF SpectrumScale
    <2> HIDE DEF L, H
    <2>4. Min(L) \in Int /\ Min(L) <= -100 * Unit
      <3>1. -120 * Unit \in Int
        BY <1>1
      <3> QED BY <2>1, <3>1, MinFacts
    <2>5. Max(H) \in Int /\ -20 * Unit <= Max(H)
      <3>1. PICK hi \in Int : \A x \in H : x <= hi
        BY <2>2
      <3>2. Max(H) \in H /\ Max(H) >= -20 * Unit
        BY <2>2, <3>1, MaxFacts
      <3> QED BY <1>1, <2>2, <3>2
    <2>6. SpectrumAutoScale(Min(L), Max(H)).min < SpectrumAutoScale(Min(L), Max(H)).max
      BY <2>4, <2>5, SpectrumAutoScaleProper
    <2> QED BY <2>3, <2>6
  <1> QED BY <1>3, <1>4

(* For any levels an 8-bit receiver can give (PowersAssumption) and any    *)
(* rows: the colour scales of WaterfallView and of SpectrumWaterfall have  *)
(* a positive length, by which the position of a level is divided.         *)
THEOREM ScalesAreProper == Spec => []ScaleIsProper
  <1>1. TypeOK => ScaleIsProper
    <2> SUFFICES ASSUME TypeOK PROVE ScaleIsProper
      OBVIOUS
    <2> DEFINE shown == {rows[i] : i \in DOMAIN rows}
    <2>1. shown \in SUBSET Frames
      BY ElementOfSeq, LenProperties DEF TypeOK
    <2> HIDE DEF shown
    <2>2. /\ WaterfallScale(shown).min < WaterfallScale(shown).max
          /\ SpectrumScale(shown).min < SpectrumScale(shown).max
      BY <2>1, ScalesProper
    <2> QED BY <2>2 DEF ScaleIsProper, shown
  <1> QED BY <1>1, WaterfallTypeCorrect, PTL
=============================================================================
