--------------------------- MODULE DashboardProof ---------------------------
(***************************************************************************)
(* Proofs about Dashboard, for any number of connections and of attempts,  *)
(* any number of passes and any length of the queues.                      *)
(***************************************************************************)
EXTENDS Dashboard, SequenceTheorems, TLAPS

(* Status, pass and scheduler go together between two steps of the state   *)
(* manager; pass_start is held back while the pass is being recorded.      *)
StationInv ==
    /\ currentPass <=> sched = "capture"
    /\ currentPass <=> status \in {"capturing", "decoding"}
    /\ held => status = "capturing"

(* A page that is connected is known to the server, and a page that shows  *)
(* nothing yet gets init first.                                            *)
LinkInv ==
    /\ conn = "none" <=> ws = None
    /\ conn = "open" => ws \in clients
    /\ ws \in clients /\ systemState = None =>
         down # <<>> /\ Head(down).type = "init"

(* What the server knows or will know of the subscription of the page.     *)
AskedInv ==
    /\ fftSubscribers \subseteq clients
    /\ ws \in Sockets /\ ~ asked => up[ws] = <<>> /\ ws \notin fftSubscribers
    /\ ws \in Sockets /\ asked /\ up[ws] = <<>> => ws \in fftSubscribers
    /\ ws \in Sockets /\ asked /\ up[ws] # <<>> => up[ws][Len(up[ws])] = "fft_subscribe"

(* Of the messages that are told apart as Tellers the last one in the      *)
(* queue q is one of Right, or none is in the queue and the page shows     *)
(* what is right already.                                                  *)
Told(Tellers, Right, Shown, v, q) ==
    \/ \E i \in DOMAIN q : q[i] \in Right /\ \A j \in DOMAIN q : i < j => q[j] \notin Tellers
    \/ v \in Shown /\ \A j \in DOMAIN q : q[j] \notin Tellers

StatusMessages == {m \in Events : m.type # "scanning_frequency"}
SaysStatus(st) ==
    {m \in Events :
        \/ m.type = "init" /\ m.state.status = st
        \/ m.type = "status_change" /\ m.status = st
        \/ m.type = "pass_start" /\ st = "capturing"
        \/ m.type = "pass_complete" /\ st = "idle"}
ShowsStatus(st) ==
    {v \in Views : v.status = st \/ (v.status = "recording" /\ st = "capturing")}

PassMessages == {m \in Events : m.type \in {"init", "pass_start", "pass_complete"}}
SaysPass   == {m \in Events : m.type = "pass_start" \/ (m.type = "init" /\ m.state.pass)}
SaysNoPass == {m \in Events : m.type = "pass_complete" \/ (m.type = "init" /\ ~ m.state.pass)}
ShowsPass   == {v \in Views : v.pass}
ShowsNoPass == {v \in Views : ~ v.pass}

(* What was sent to the page brings it up to date; the React page learns   *)
(* of a pass by other messages than of the status, the older page by the   *)
(* status.                                                                 *)
StatusTold ==
    ws \in clients /\ ~ held =>
        Told(StatusMessages, SaysStatus(status), ShowsStatus(status), systemState, down)

PassTold ==
    ws \in clients /\ ~ held /\ page = "react" =>
        /\ currentPass => Told(PassMessages, SaysPass, ShowsPass, systemState, down)
        /\ ~ currentPass => Told(PassMessages, SaysNoPass, ShowsNoPass, systemState, down)

LegacyView ==
    page = "legacy" /\ systemState # None =>
        /\ systemState.pass <=> systemState.status \in {"capturing", "decoding"}
        /\ systemState.status # "recording"

----------------------------------------------------------------------------
(* Queues.                                                                 *)

LEMMA Appended ==
    ASSUME NEW S, NEW q \in Seq(S), NEW m \in S, NEW r, r = Append(q, m)
    PROVE  /\ r \in Seq(S) /\ Len(q) \in Nat /\ Len(r) = Len(q) + 1
           /\ DOMAIN q = 1..Len(q) /\ DOMAIN r = 1..(Len(q) + 1)
           /\ \A i \in 1..Len(q) : r[i] = q[i]
           /\ r[Len(q) + 1] = m
           /\ q # <<>> => Head(r) = Head(q)
  BY AppendProperties

LEMMA Taken ==
    ASSUME NEW S, NEW q \in Seq(S), q # <<>>
    PROVE  /\ Tail(q) \in Seq(S) /\ Len(q) \in Nat \ {0} /\ Len(Tail(q)) = Len(q) - 1
           /\ DOMAIN q = 1..Len(q) /\ DOMAIN Tail(q) = 1..(Len(q) - 1)
           /\ \A i \in 1..(Len(q) - 1) : Tail(q)[i] = q[i + 1]
           /\ Head(q) = q[1] /\ Head(q) \in S
  <1>1. Tail(q) \in Seq(S) /\ Len(Tail(q)) = Len(q) - 1 /\ Head(q) \in S
    BY HeadTailProperties
  <1>2. \A i \in 1..Len(Tail(q)) : Tail(q)[i] = q[i + 1]
    BY HeadTailProperties
  <1>3. Len(q) \in Nat \ {0} /\ DOMAIN q = 1..Len(q) /\ DOMAIN Tail(q) = 1..Len(Tail(q))
    BY <1>1, EmptySeq, LenProperties
  <1> QED BY <1>1, <1>2, <1>3

(* A right message at the end of the queue brings the page up to date,     *)
LEMMA ToldByLast ==
    ASSUME NEW T, NEW R, NEW V, NEW v,
           NEW q \in Seq(Events), NEW m \in Events, m \in R
    PROVE  Told(T, R, V, v, Append(q, m))
  <1> DEFINE r == Append(q, m)
             k == Len(q) + 1
  <1>1. Len(q) \in Nat /\ DOMAIN r = 1..(Len(q) + 1) /\ r[Len(q) + 1] = m
    BY Appended
  <1>2. k \in DOMAIN r /\ r[k] \in R /\ \A j \in DOMAIN r : ~ (k < j)
    BY <1>1
  <1> HIDE DEF r, k
  <1>3. Told(T, R, V, v, r)
    BY <1>2 DEF Told
  <1> QED BY <1>3 DEF r

(* one that says nothing of the kind leaves it so,                         *)
LEMMA ToldBeside ==
    ASSUME NEW T, NEW R, NEW V, NEW v,
           NEW q \in Seq(Events), NEW m \in Events, m \notin T, Told(T, R, V, v, q)
    PROVE  Told(T, R, V, v, Append(q, m))
  <1> DEFINE r == Append(q, m)
  <1>1. /\ Len(q) \in Nat /\ DOMAIN q = 1..Len(q) /\ DOMAIN r = 1..(Len(q) + 1)
        /\ \A i \in 1..Len(q) : r[i] = q[i]
        /\ r[Len(q) + 1] = m
    BY Appended
  <1> HIDE DEF r
  <1>2. \A j \in DOMAIN r : j \in DOMAIN q \/ r[j] \notin T
    BY <1>1
  <1>3. \A j \in DOMAIN q : j \in DOMAIN r /\ r[j] = q[j]
    BY <1>1
  <1>4. CASE v \in V /\ \A j \in DOMAIN q : q[j] \notin T
    <2>1. \A j \in DOMAIN r : r[j] \notin T
      BY <1>2, <1>3, <1>4
    <2>2. Told(T, R, V, v, r)
      BY <1>4, <2>1 DEF Told
    <2> QED BY <2>2 DEF r
  <1>5. CASE \E i \in DOMAIN q : q[i] \in R /\ \A j \in DOMAIN q : i < j => q[j] \notin T
    <2>1. PICK i \in DOMAIN q : q[i] \in R /\ \A j \in DOMAIN q : i < j => q[j] \notin T
      BY <1>5
    <2>2. i \in DOMAIN r /\ r[i] \in R /\ \A j \in DOMAIN r : i < j => r[j] \notin T
      BY <1>2, <1>3, <2>1
    <2>3. Told(T, R, V, v, r)
      BY <2>2 DEF Told
    <2> QED BY <2>3 DEF r
  <1> QED BY <1>4, <1>5 DEF Told

(* and so does the first one when the page shows what it says.             *)
LEMMA ToldOn ==
    ASSUME NEW T, NEW R, NEW V, NEW v, NEW w,
           NEW q \in Seq(Events), q # <<>>, Told(T, R, V, v, q),
           Head(q) \in R => w \in V,
           Head(q) \notin T /\ v \in V => w \in V
    PROVE  Told(T, R, V, w, Tail(q))
  <1> DEFINE r == Tail(q)
  <1>1. /\ Len(q) \in Nat \ {0} /\ DOMAIN q = 1..Len(q) /\ DOMAIN r = 1..(Len(q) - 1)
        /\ \A i \in 1..(Len(q) - 1) : r[i] = q[i + 1]
        /\ Head(q) = q[1]
    BY Taken
  <1> HIDE DEF r
  <1>2. \A j \in DOMAIN r : j \in Int /\ j + 1 \in DOMAIN q /\ r[j] = q[j + 1] /\ 1 < j + 1
    BY <1>1
  <1>3. CASE v \in V /\ \A j \in DOMAIN q : q[j] \notin T
    <2>1. 1 \in DOMAIN q
      BY <1>1
    <2>2. w \in V
      BY <1>1, <1>3, <2>1
    <2>3. \A j \in DOMAIN r : r[j] \notin T
      BY <1>2, <1>3
    <2>4. Told(T, R, V, w, r)
      BY <2>2, <2>3 DEF Told
    <2> QED BY <2>4 DEF r
  <1>4. CASE \E i \in DOMAIN q : q[i] \in R /\ \A j \in DOMAIN q : i < j => q[j] \notin T
    <2>1. PICK i \in DOMAIN q : q[i] \in R /\ \A j \in DOMAIN q : i < j => q[j] \notin T
      BY <1>4
    <2>2. CASE i = 1
      <3>1. w \in V
        BY <1>1, <2>1, <2>2
      <3>2. \A j \in DOMAIN r : r[j] \notin T
        BY <1>2, <2>1, <2>2
      <3>3. Told(T, R, V, w, r)
        BY <3>1, <3>2 DEF Told
      <3> QED BY <3>3 DEF r
    <2>3. CASE i # 1
      <3> DEFINE k == i - 1
      <3>1. k \in DOMAIN r /\ k \in Int /\ k + 1 = i
        BY <1>1, <2>3
      <3> HIDE DEF k
      <3>2. r[k] \in R
        BY <1>2, <2>1, <3>1
      <3>3. \A j \in DOMAIN r : k < j => r[j] \notin T
        BY <1>2, <2>1, <3>1
      <3>4. Told(T, R, V, w, r)
        BY <3>1, <3>2, <3>3 DEF Told
      <3> QED BY <3>4 DEF r
    <2> QED BY <2>2, <2>3
  <1> QED BY <1>3, <1>4 DEF Told

----------------------------------------------------------------------------
(* Messages and what the page makes of them.                               *)

LEMMA MessageTypes ==
    /\ \A st \in Statuses : [type |-> "status_change", status |-> st] \in Events
    /\ \A s \in {"pass_start", "pass_complete", "scanning_frequency"} : [type |-> s] \in Events
    /\ \A v \in States : [type |-> "init", state |-> v] \in Events
  BY DEF Events

LEMMA EventFields ==
    ASSUME NEW m \in Events
    PROVE  /\ m.type \in {"init", "status_change", "pass_start", "pass_complete", "scanning_frequency"}
           /\ m.type = "init" => m.state \in States
           /\ m.type = "status_change" => m.status \in Statuses
  BY DEF Events

LEMMA ViewFields ==
    /\ \A v \in Views : v.status \in Statuses \cup {"recording"} /\ v.pass \in BOOLEAN
    /\ \A v \in States : v \in Views /\ v.status \in Statuses
  BY DEF Views, States

(* The React page.                                                         *)
LEMMA HandledFacts ==
    ASSUME NEW m \in Events, NEW v, v \in Views \/ m.type = "init"
    PROVE  LET w == Handled(v, m) IN
           /\ w \in Views
           /\ \A st \in Statuses : m \in SaysStatus(st) => w \in ShowsStatus(st)
           /\ \A st \in Statuses : m \notin StatusMessages /\ v \in ShowsStatus(st) =>
                w \in ShowsStatus(st)
           /\ m \in SaysPass => w \in ShowsPass
           /\ m \notin PassMessages /\ v \in ShowsPass => w \in ShowsPass
           /\ m \in SaysNoPass => w \in ShowsNoPass
           /\ m \notin PassMessages /\ v \in ShowsNoPass => w \in ShowsNoPass
  <1> DEFINE w == Handled(v, m)
  <1> USE DEF SaysStatus, ShowsStatus, StatusMessages, SaysPass, ShowsPass, PassMessages,
              SaysNoPass, ShowsNoPass
  <1>1. CASE m.type = "init"
    <2>1. w = m.state
      BY <1>1 DEF Handled
    <2> HIDE DEF w
    <2>2. w \in Views
      BY <1>1, <2>1, EventFields, ViewFields
    <2> QED BY <1>1, <2>1, <2>2 DEF w
  <1>2. CASE m.type = "status_change"
    <2>1. w = [v EXCEPT !.status = m.status] /\ m.status \in Statuses
      BY <1>2, EventFields DEF Handled
    <2> HIDE DEF w
    <2>2. w \in Views /\ w.status = m.status /\ w.pass = v.pass /\ v.pass \in BOOLEAN
      BY <1>2, <2>1 DEF Views
    <2> QED BY <1>2, <2>2 DEF w
  <1>3. CASE m.type = "pass_start"
    <2>1. w = [v EXCEPT !.status = "recording", !.pass = TRUE]
      BY <1>3 DEF Handled
    <2> HIDE DEF w
    <2>2. w \in Views /\ w.status = "recording" /\ w.pass = TRUE
      BY <1>3, <2>1 DEF Views
    <2> QED BY <1>3, <2>2 DEF w
  <1>4. CASE m.type = "pass_complete"
    <2>1. w = [v EXCEPT !.status = "idle", !.pass = FALSE] /\ "idle" \in Statuses
      BY <1>4 DEF Handled, Statuses
    <2> HIDE DEF w
    <2>2. w \in Views /\ w.status = "idle" /\ w.pass = FALSE
      BY <1>4, <2>1 DEF Views
    <2> QED BY <1>4, <2>2 DEF w
  <1>5. CASE m.type = "scanning_frequency"
    <2>1. w = [v EXCEPT !.scan = TRUE]
      BY <1>5 DEF Handled
    <2> HIDE DEF w
    <2>2. w \in Views /\ w.status = v.status /\ w.pass = v.pass /\ v.pass \in BOOLEAN
      BY <1>5, <2>1 DEF Views
    <2> QED BY <1>5, <2>2 DEF w
  <1> QED BY <1>1, <1>2, <1>3, <1>4, <1>5, EventFields

(* The older page.                                                         *)
LEMMA UpdateStatusFacts ==
    ASSUME NEW v \in Views, NEW st \in Statuses
    PROVE  /\ UpdateStatus(v, st) \in Views
           /\ UpdateStatus(v, st).status = st
           /\ UpdateStatus(v, st).pass <=> st \in {"capturing", "decoding"}
  <1> DEFINE b == st \in {"capturing", "decoding"}
  <1>1. b \in BOOLEAN
    OBVIOUS
  <1>2. UpdateStatus(v, st) = [v EXCEPT !.status = st, !.pass = b]
    BY DEF UpdateStatus
  <1> HIDE DEF b
  <1>3. /\ UpdateStatus(v, st) \in Views
        /\ UpdateStatus(v, st).status = st
        /\ UpdateStatus(v, st).pass = b
    <2>1. /\ [v EXCEPT !.status = st, !.pass = b] \in Views
          /\ [v EXCEPT !.status = st, !.pass = b].status = st
          /\ [v EXCEPT !.status = st, !.pass = b].pass = b
      BY <1>1 DEF Views
    <2> QED BY <1>2, <2>1
  <1> QED BY <1>3 DEF b

LEMMA HandleMessageFacts ==
    ASSUME NEW m \in Events, NEW v, v \in Views \/ m.type = "init"
    PROVE  LET w == HandleMessage(v, m) IN
           /\ w \in Views
           /\ \A st \in Statuses : m \in SaysStatus(st) => w \in ShowsStatus(st)
           /\ \A st \in Statuses : m \notin StatusMessages /\ v \in ShowsStatus(st) =>
                w \in ShowsStatus(st)
           /\ \/ w = v
              \/ w.status \in Statuses /\ (w.pass <=> w.status \in {"capturing", "decoding"})
  <1> DEFINE w == HandleMessage(v, m)
  <1> USE DEF SaysStatus, ShowsStatus, StatusMessages
  <1>1. CASE m.type = "init"
    <2>1. w = UpdateStatus(m.state, m.state.status)
      BY <1>1 DEF HandleMessage
    <2>2. m.state \in Views /\ m.state.status \in Statuses
      BY <1>1, EventFields, ViewFields
    <2> HIDE DEF w
    <2>3. w \in Views /\ w.status = m.state.status /\ (w.pass <=> w.status \in {"capturing", "decoding"})
      BY <2>1, <2>2, UpdateStatusFacts
    <2> QED BY <1>1, <2>2, <2>3 DEF w
  <1>2. CASE m.type = "status_change"
    <2>1. w = UpdateStatus(v, m.status) /\ m.status \in Statuses
      BY <1>2, EventFields DEF HandleMessage
    <2> HIDE DEF w
    <2>2. w \in Views /\ w.status = m.status /\ (w.pass <=> w.status \in {"capturing", "decoding"})
      BY <1>2, <2>1, UpdateStatusFacts
    <2> QED BY <1>2, <2>1, <2>2 DEF w
  <1>3. CASE m.type = "pass_start"
    <2>1. w = UpdateStatus(v, "capturing") /\ "capturing" \in Statuses
      BY <1>3 DEF HandleMessage, Statuses
    <2> HIDE DEF w
    <2>2. w \in Views /\ w.status = "capturing" /\ (w.pass <=> w.status \in {"capturing", "decoding"})
      BY <1>3, <2>1, UpdateStatusFacts
    <2> QED BY <1>3, <2>1, <2>2 DEF w
  <1>4. CASE m.type = "pass_complete"
    <2>1. w = UpdateStatus(v, "idle") /\ "idle" \in Statuses
      BY <1>4 DEF HandleMessage, HandlePassComplete, Statuses
    <2> HIDE DEF w
    <2>2. w \in Views /\ w.status = "idle" /\ (w.pass <=> w.status \in {"capturing", "decoding"})
      BY <1>4, <2>1, UpdateStatusFacts
    <2> QED BY <1>4, <2>1, <2>2 DEF w
  <1>5. CASE m.type = "scanning_frequency"
    <2>1. w = v
      BY <1>5 DEF HandleMessage
    <2> QED BY <1>5, <2>1
  <1> QED BY <1>1, <1>2, <1>3, <1>4, <1>5, EventFields

----------------------------------------------------------------------------
(* Type correctness, part by part.                                         *)

StationType ==
    /\ status \in Statuses
    /\ currentPass \in BOOLEAN
    /\ scanningFrequency \in BOOLEAN
    /\ sched \in {"between", "stopping", "capture"}
    /\ passes \in 0..MaxPasses

ServerType ==
    /\ clients \subseteq Sockets
    /\ fftSubscribers \subseteq Sockets
    /\ pendingFFTStart \in BOOLEAN
    /\ pendingFFTStop \in BOOLEAN
    /\ stream \in BOOLEAN
    /\ held \in BOOLEAN

QueueType ==
    /\ down \in Seq(Events) /\ Len(down) <= MaxQueue
    /\ up \in [Sockets -> Seq(Requests)]

PageType ==
    /\ page \in {"react", "legacy"}
    /\ ws \in Sockets \cup {None}
    /\ conn \in {"none", "connecting", "open"}
    /\ attempts \in 0..MaxAttempts
    /\ timer \in BOOLEAN
    /\ systemState \in Views \cup {None}
    /\ waterfallMode \in {"satellite", "sstv-2m"}
    /\ frequency \in Freqs
    /\ asked \in BOOLEAN

Typed == StationType /\ ServerType /\ QueueType /\ PageType

LEMMA TypeParts == TypeOK <=> Typed
  BY DEF Typed, TypeOK, StationType, ServerType, QueueType, PageType

LEMMA FrequencyType == \A v, mode : GetCurrentFrequency(v, mode) \in Freqs
  BY DEF GetCurrentFrequency, Freqs

LEMMA BroadcastType ==
    ASSUME TypeOK, NEW m \in Events, Broadcast(m)
    PROVE  down' \in Seq(Events) /\ Len(down') <= MaxQueue
  <1>1. CASE ws \in clients
    <2>1. down' = Append(down, m) /\ down \in Seq(Events) /\ Len(down) < MaxQueue
      BY <1>1 DEF Broadcast, Room, TypeOK
    <2>2. down' \in Seq(Events) /\ Len(down) \in Nat /\ Len(down') = Len(down) + 1
      BY <2>1, Appended
    <2> QED BY <2>1, <2>2, BoundsAssumption
  <1>2. CASE ws \notin clients
    BY <1>2 DEF Broadcast, TypeOK
  <1> QED BY <1>1, <1>2

LEMMA RequestedType ==
    ASSUME TypeOK, NEW x \in Sockets, NEW type, Requested(x, type)
    PROVE  up' \in [Sockets -> Seq(Requests)]
  <1>1. up[x] \in Seq(Requests) /\ up[x] # <<>>
    BY DEF TypeOK, Requested
  <1>2. Tail(up[x]) \in Seq(Requests)
    BY <1>1, Taken
  <1> QED BY <1>2 DEF TypeOK, Requested

(* A rendering asks the server at most, with an unsubscription and a       *)
(* subscription, on the connection that is open.                           *)
LEMMA ResubscribeFacts ==
    ASSUME NEW q \in Seq(Requests)
    PROVE  LET r == q \o Resubscribe IN
           r \in Seq(Requests) /\ r # <<>> /\ r[Len(r)] = "fft_subscribe"
  <1> DEFINE e == <<"fft_unsubscribe", "fft_subscribe">>
  <1>1. e \in Seq(Requests) /\ Len(e) = 2 /\ e[2] = "fft_subscribe"
    BY DEF Requests
  <1>2. Len(q) \in Nat
    BY LenProperties
  <1> HIDE DEF e
  <1>3. /\ q \o e \in Seq(Requests)
        /\ Len(q \o e) = Len(q) + Len(e)
        /\ \A i \in 1 .. Len(q) + Len(e) : (q \o e)[i] =
                     IF i <= Len(q) THEN q[i] ELSE e[i - Len(q)]
    BY <1>1, ConcatProperties
  <1>4. Len(q \o e) = Len(q) + 2 /\ (q \o e)[Len(q) + 2] = "fft_subscribe"
    BY <1>1, <1>2, <1>3
  <1>5. q \o e # <<>>
    BY <1>2, <1>3, <1>4, EmptySeq
  <1> QED BY <1>3, <1>4, <1>5 DEF e, Resubscribe

LEMMA RenderType ==
    ASSUME TypeOK, LinkInv, NEW v, NEW mode, Render(v, mode)
    PROVE  up' \in [Sockets -> Seq(Requests)] /\ asked' \in BOOLEAN /\ frequency' \in Freqs
  <1>1. frequency' \in Freqs
    BY FrequencyType DEF Render
  <1>2. CASE page = "react" /\ frequency' # frequency /\ conn = "open"
    <2>1. up' = [up EXCEPT ![ws] = @ \o Resubscribe] /\ asked' = TRUE
      BY <1>2 DEF Render
    <2>2. ws \in Sockets
      BY <1>2 DEF LinkInv, TypeOK
    <2>3. up[ws] \o Resubscribe \in Seq(Requests)
      BY <2>2, ResubscribeFacts DEF TypeOK
    <2> QED BY <1>1, <2>1, <2>2, <2>3 DEF TypeOK
  <1>3. CASE ~ (page = "react" /\ frequency' # frequency /\ conn = "open")
    BY <1>1, <1>3 DEF Render, TypeOK
  <1> QED BY <1>2, <1>3

(* What the page shows after the first message.                            *)
Shown == IF page = "react" THEN Handled(systemState, Head(down))
                           ELSE HandleMessage(systemState, Head(down))

LEMMA FirstMessage ==
    ASSUME TypeOK, LinkInv, OnMessage
    PROVE  /\ down \in Seq(Events) /\ down # <<>> /\ down' = Tail(down)
           /\ Head(down) \in Events
           /\ systemState \in Views \/ Head(down).type = "init"
           /\ systemState' = Shown /\ Shown \in Views
           /\ Render(Shown, waterfallMode)
  <1>1. down \in Seq(Events) /\ down # <<>> /\ Head(down) \in Events
    BY Taken DEF OnMessage, TypeOK
  <1>2. ws \in clients
    BY DEF OnMessage, LinkInv
  <1>3. systemState \in Views \/ Head(down).type = "init"
    BY <1>2 DEF LinkInv, TypeOK
  <1>4. Render(Shown, waterfallMode) /\ down' = Tail(down)
    BY DEF OnMessage, Shown
  <1>5. systemState' = Shown
    BY <1>4 DEF Render
  <1>6. Shown \in Views
    BY <1>1, <1>3, HandledFacts, HandleMessageFacts DEF Shown
  <1> QED BY <1>1, <1>3, <1>4, <1>5, <1>6

LEMMA InitTypeOK == Init => TypeOK
  <1> SUFFICES ASSUME Init PROVE TypeOK
    OBVIOUS
  <1>1. StationType
    <2>1. passes = MaxPasses /\ sched = "between" /\ status = "idle"
      BY DEF Init
    <2>2. currentPass \in BOOLEAN /\ scanningFrequency \in BOOLEAN
      BY DEF Init
    <2> QED BY <2>1, <2>2, BoundsAssumption DEF StationType, Statuses
  <1>2. ServerType
    BY DEF Init, ServerType
  <1>3. QueueType
    BY BoundsAssumption DEF Init, QueueType
  <1>4. PageType
    <2>1. timer \in BOOLEAN /\ asked \in BOOLEAN
      BY DEF Init
    <2>2. frequency \in Freqs /\ attempts \in 0..MaxAttempts
      BY BoundsAssumption, FrequencyType DEF Init
    <2>3. ws = None /\ conn = "none" /\ systemState = None
      BY DEF Init
    <2>4. page \in {"react", "legacy"} /\ waterfallMode \in {"satellite", "sstv-2m"}
      BY DEF Init
    <2> QED BY <2>1, <2>2, <2>3, <2>4 DEF PageType
  <1> QED BY <1>1, <1>2, <1>3, <1>4, TypeParts DEF Typed

LEMMA NextTypeOK == TypeOK /\ LinkInv /\ [Next]_vars => TypeOK'
  <1> SUFFICES ASSUME TypeOK, LinkInv, [Next]_vars PROVE Typed'
    BY DEF TypeOK, Typed, StationType, ServerType, QueueType, PageType
  <1> USE TypeParts DEF Typed
  <1>a. UNCHANGED station => StationType'
    BY DEF StationType, station
  <1>b. UNCHANGED server => ServerType'
    BY DEF ServerType, server
  <1>c. UNCHANGED <<down, up>> => QueueType'
    BY DEF QueueType
  <1>d. UNCHANGED <<page, link, view, asked>> => PageType'
    BY DEF PageType, link, view
  <1>1. ASSUME NEW st \in LoopStatuses, StatusChanges(st)
        PROVE  Typed'
    <2>1. st \in Statuses
      BY LoopAssumption DEF Statuses
    <2>2. StationType'
      BY <1>1, <2>1 DEF StatusChanges, SetStatus, StationType
    <2>3. QueueType'
      BY <1>1, <2>1, MessageTypes, BroadcastType DEF StatusChanges, SetStatus, QueueType
    <2> QED BY <1>1, <1>b, <1>d, <2>2, <2>3 DEF StatusChanges
  <1>2. CASE SetScanningFrequency
    <2>1. StationType'
      BY <1>2 DEF SetScanningFrequency, StationType
    <2>2. ServerType'
      BY <1>2 DEF SetScanningFrequency, ServerType
    <2>3. QueueType'
      BY <1>2, MessageTypes, BroadcastType DEF SetScanningFrequency, QueueType
    <2> QED BY <1>2, <1>d, <2>1, <2>2, <2>3 DEF SetScanningFrequency
  <1>3. CASE StopStreamForPass
    <2>1. StationType'
      BY <1>3 DEF StopStreamForPass, StationType
    <2>2. ServerType'
      BY <1>3 DEF StopStreamForPass, ServerType
    <2> QED BY <1>3, <1>c, <1>d, <2>1, <2>2 DEF StopStreamForPass
  <1>4. CASE StartPass
    <2>1. StationType'
      BY <1>4, BoundsAssumption DEF StartPass, StationType, Statuses
    <2>2. ServerType'
      BY <1>4 DEF StartPass, ServerType
    <2>3. QueueType'
      BY <1>4, MessageTypes, BroadcastType DEF StartPass, QueueType
    <2> QED BY <1>4, <1>d, <2>1, <2>2, <2>3 DEF StartPass
  <1>5. CASE PassStartSent
    <2>1. ServerType'
      BY <1>5 DEF PassStartSent, ServerType
    <2>2. QueueType'
      BY <1>5, MessageTypes, BroadcastType DEF PassStartSent, QueueType
    <2> QED BY <1>5, <1>a, <1>d, <2>1, <2>2 DEF PassStartSent
  <1>6. CASE DecodingBegins
    <2>1. "decoding" \in Statuses
      BY DEF Statuses
    <2>2. StationType'
      BY <1>6, <2>1 DEF DecodingBegins, SetStatus, StationType
    <2>3. QueueType'
      BY <1>6, <2>1, MessageTypes, BroadcastType DEF DecodingBegins, SetStatus, QueueType
    <2> QED BY <1>6, <1>b, <1>d, <2>2, <2>3 DEF DecodingBegins
  <1>7. CASE CompletePass
    <2>1. StationType'
      BY <1>7 DEF CompletePass, StationType, Statuses
    <2>2. QueueType'
      BY <1>7, MessageTypes, BroadcastType DEF CompletePass, QueueType
    <2> QED BY <1>7, <1>b, <1>d, <2>1, <2>2 DEF CompletePass
  <1>8. CASE ServerAccepts
    <2>1. [status |-> status, pass |-> currentPass, scan |-> scanningFrequency] \in States
      BY DEF States, StationType
    <2>2. QueueType'
      BY <1>8, <2>1, MessageTypes, BoundsAssumption DEF ServerAccepts, QueueType
    <2>3. ws \in Sockets
      BY <1>8 DEF ServerAccepts, LinkInv, PageType
    <2>4. ServerType'
      BY <1>8, <2>3 DEF ServerAccepts, ServerType
    <2> QED BY <1>8, <1>a, <1>d, <2>2, <2>4 DEF ServerAccepts
  <1>9. CASE StartTimer \/ StopTimer
    <2>1. ServerType'
      BY <1>9 DEF StartTimer, StopTimer, ServerType
    <2> QED BY <1>9, <1>a, <1>c, <1>d, <2>1 DEF StartTimer, StopTimer
  <1>10. ASSUME NEW x \in Sockets, ServerSeesClose(x)
         PROVE  Typed'
    <2>1. ServerType'
      BY <1>10 DEF ServerSeesClose, ServerType
    <2>2. QueueType'
      BY <1>10 DEF ServerSeesClose, QueueType
    <2> QED BY <1>10, <1>a, <1>d, <2>1, <2>2 DEF ServerSeesClose
  <1>11. ASSUME NEW x \in Sockets, ServerSubscribes(x) \/ ServerUnsubscribes(x)
         PROVE  Typed'
    <2>1. ServerType'
      BY <1>11 DEF ServerSubscribes, ServerUnsubscribes, ServerType
    <2>2. QueueType'
      BY <1>11, RequestedType DEF ServerSubscribes, ServerUnsubscribes, QueueType
    <2> QED BY <1>11, <1>a, <1>d, <2>1, <2>2 DEF ServerSubscribes, ServerUnsubscribes
  <1>12. CASE Connect
    <2>1. PageType'
      BY <1>12 DEF Connect, PageType, view
    <2>2. QueueType'
      BY <1>12, BoundsAssumption DEF Connect, QueueType
    <2> QED BY <1>12, <1>a, <1>b, <2>1, <2>2 DEF Connect
  <1>13. CASE OnOpen
    <2>1. PageType'
      BY <1>13, BoundsAssumption DEF OnOpen, PageType, view
    <2> QED BY <1>13, <1>a, <1>b, <1>c, <2>1 DEF OnOpen
  <1>14. CASE OnClose
    <2>1. timer' \in BOOLEAN /\ attempts' \in 0..MaxAttempts
      BY <1>14, BoundsAssumption DEF OnClose, AttemptReconnect, PageType
    <2>2. PageType'
      BY <1>14, <2>1 DEF OnClose, PageType, view
    <2>3. QueueType'
      BY <1>14, BoundsAssumption DEF OnClose, QueueType
    <2> QED BY <1>14, <1>a, <1>b, <2>2, <2>3 DEF OnClose
  <1>15. CASE OnMessage
    <2>1. /\ down \in Seq(Events) /\ down # <<>> /\ down' = Tail(down)
          /\ systemState' \in Views
          /\ Render(Shown, waterfallMode)
      BY <1>15, FirstMessage
    <2>2. down' \in Seq(Events) /\ Len(down') <= MaxQueue
      <3>1. Tail(down) \in Seq(Events) /\ Len(down) \in Nat /\ Len(Tail(down)) = Len(down) - 1
        BY <2>1, Taken
      <3> QED BY <2>1, <3>1, BoundsAssumption DEF QueueType
    <2>3. up' \in [Sockets -> Seq(Requests)] /\ asked' \in BOOLEAN /\ frequency' \in Freqs
      BY <2>1, RenderType
    <2>4. QueueType'
      BY <2>2, <2>3 DEF QueueType
    <2>5. PageType'
      BY <1>15, <2>1, <2>3 DEF OnMessage, Render, PageType, link
    <2> QED BY <1>15, <1>a, <1>b, <2>4, <2>5 DEF OnMessage
  <1>16. CASE SetWaterfallMode
    <2>1. PICK mode \in {"satellite", "sstv-2m"} : Render(systemState, mode)
      BY <1>16 DEF SetWaterfallMode
    <2>2. up' \in [Sockets -> Seq(Requests)] /\ asked' \in BOOLEAN /\ frequency' \in Freqs
      BY <2>1, RenderType
    <2>3. QueueType'
      BY <1>16, <2>2 DEF SetWaterfallMode, QueueType
    <2>4. PageType'
      BY <1>16, <2>1, <2>2 DEF SetWaterfallMode, Render, PageType, link
    <2> QED BY <1>16, <1>a, <1>b, <2>3, <2>4 DEF SetWaterfallMode
  <1>17. CASE UNCHANGED vars
    BY <1>17, <1>a, <1>b, <1>c, <1>d DEF vars
  <1> QED BY <1>1, <1>2, <1>3, <1>4, <1>5, <1>6, <1>7, <1>8, <1>9, <1>10, <1>11, <1>12,
             <1>13, <1>14, <1>15, <1>16, <1>17 DEF Next, StationNext, ServerNext, PageNext

----------------------------------------------------------------------------
(* The state manager.                                                      *)

LEMMA NextStationInv == TypeOK /\ StationInv /\ [Next]_vars => StationInv'
  <1> SUFFICES ASSUME StationType, ServerType, StationInv, [Next]_vars PROVE StationInv'
    BY TypeParts DEF Typed
  <1> USE DEF StationInv, StationType, ServerType
  <1>0. ASSUME UNCHANGED <<status, currentPass, sched, held>> PROVE StationInv'
    BY <1>0
  <1>1. ASSUME NEW st \in LoopStatuses, StatusChanges(st)
        PROVE  StationInv'
    BY <1>1, LoopAssumption DEF StatusChanges, SetStatus, server
  <1>2. CASE SetScanningFrequency
    BY <1>0, <1>2 DEF SetScanningFrequency
  <1>3. CASE StopStreamForPass
    BY <1>3 DEF StopStreamForPass
  <1>4. CASE StartPass
    BY <1>4 DEF StartPass
  <1>5. CASE PassStartSent
    BY <1>5 DEF PassStartSent, station
  <1>6. CASE DecodingBegins
    BY <1>6 DEF DecodingBegins, SetStatus, server
  <1>7. CASE CompletePass
    BY <1>7 DEF CompletePass, server
  <1>8. CASE ServerNext
    BY <1>0, <1>8
    DEF ServerNext, ServerAccepts, StartTimer, StopTimer, ServerSeesClose, ServerSubscribes,
        ServerUnsubscribes, station
  <1>9. CASE PageNext \/ UNCHANGED vars
    BY <1>0, <1>9
    DEF PageNext, Connect, OnOpen, OnClose, OnMessage, SetWaterfallMode, vars, station, server
  <1> QED BY <1>1, <1>2, <1>3, <1>4, <1>5, <1>6, <1>7, <1>8, <1>9 DEF Next, StationNext

----------------------------------------------------------------------------
(* The connection.                                                         *)

LEMMA BroadcastKeepsHead ==
    ASSUME QueueType, LinkInv, NEW m \in Events, Broadcast(m),
           UNCHANGED <<clients, link, view>>
    PROVE  LinkInv'
  <1>1. ASSUME down # <<>> PROVE down' # <<>> /\ Head(down') = Head(down)
    <2>1. CASE ws \in clients
      <3>1. down' = Append(down, m)
        BY <2>1 DEF Broadcast
      <3>2. down' \in Seq(Events) /\ Len(down) \in Nat /\ Len(down') = Len(down) + 1
              /\ Head(down') = Head(down)
        BY <1>1, <3>1, Appended DEF QueueType
      <3> QED BY <3>2, EmptySeq
    <2>2. CASE ws \notin clients
      BY <1>1, <2>2 DEF Broadcast
    <2> QED BY <2>1, <2>2
  <1> QED BY <1>1 DEF LinkInv, link, view

LEMMA NextLinkInv == TypeOK /\ LinkInv /\ [Next]_vars => LinkInv'
  <1> SUFFICES ASSUME TypeOK, LinkInv, [Next]_vars PROVE LinkInv'
    OBVIOUS
  <1>a. ServerType /\ QueueType /\ PageType
    BY TypeParts DEF Typed
  <1>b. None \notin clients
    BY <1>a, NoneAssumption DEF ServerType
  <1>0. ASSUME UNCHANGED <<clients, down, link, view>> PROVE LinkInv'
    BY <1>0 DEF LinkInv, link, view
  <1>1. ASSUME NEW st \in LoopStatuses, StatusChanges(st)
        PROVE  LinkInv'
    <2>1. [type |-> "status_change", status |-> st] \in Events
      BY LoopAssumption, MessageTypes DEF Statuses
    <2> QED BY <1>1, <1>a, <2>1, BroadcastKeepsHead DEF StatusChanges, SetStatus, server
  <1>2. CASE SetScanningFrequency
    BY <1>2, <1>a, MessageTypes, BroadcastKeepsHead DEF SetScanningFrequency
  <1>3. CASE StopStreamForPass
    BY <1>0, <1>3 DEF StopStreamForPass
  <1>4. CASE StartPass
    <2>1. CASE stream
      BY <1>0, <1>4, <2>1 DEF StartPass
    <2>2. CASE ~ stream
      BY <1>4, <1>a, <2>2, MessageTypes, BroadcastKeepsHead DEF StartPass
    <2> QED BY <2>1, <2>2
  <1>5. CASE PassStartSent
    BY <1>5, <1>a, MessageTypes, BroadcastKeepsHead DEF PassStartSent
  <1>6. CASE DecodingBegins
    <2>1. [type |-> "status_change", status |-> "decoding"] \in Events
      BY MessageTypes DEF Statuses
    <2> QED BY <1>6, <1>a, <2>1, BroadcastKeepsHead DEF DecodingBegins, SetStatus, server
  <1>7. CASE CompletePass
    BY <1>7, <1>a, MessageTypes, BroadcastKeepsHead DEF CompletePass, server
  <1>8. CASE ServerAccepts
    <2>1. PICK v : down' = <<[type |-> "init", state |-> v]>>
      BY <1>8 DEF ServerAccepts
    <2>2. down' # <<>> /\ Head(down').type = "init"
      BY <2>1
    <2> QED BY <1>8, <2>2 DEF ServerAccepts, LinkInv, link, view
  <1>9. CASE StartTimer \/ StopTimer
    BY <1>0, <1>9 DEF StartTimer, StopTimer
  <1>10. ASSUME NEW x \in Sockets, ServerSeesClose(x)
         PROVE  LinkInv'
    BY <1>10 DEF ServerSeesClose, LinkInv, link, view
  <1>11. ASSUME NEW x \in Sockets, ServerSubscribes(x) \/ ServerUnsubscribes(x)
         PROVE  LinkInv'
    BY <1>0, <1>11 DEF ServerSubscribes, ServerUnsubscribes
  <1>12. CASE Connect
    BY <1>12, <1>a, NoneAssumption DEF Connect, LinkInv, server
  <1>13. CASE OnOpen
    BY <1>13 DEF OnOpen, LinkInv, server, view
  <1>14. CASE OnClose
    BY <1>14, <1>b DEF OnClose, LinkInv, server
  <1>15. CASE OnMessage
    <2>1. systemState' \in Views /\ ws \in clients
      BY <1>15, FirstMessage DEF OnMessage, LinkInv
    <2>2. systemState' # None
      BY <2>1, NoneAssumption
    <2> QED BY <1>15, <2>2 DEF OnMessage, LinkInv, server, link
  <1>16. CASE SetWaterfallMode
    <2>1. systemState' = systemState
      BY <1>16 DEF SetWaterfallMode, Render
    <2> QED BY <1>16, <2>1 DEF SetWaterfallMode, LinkInv, server, link
  <1>17. CASE UNCHANGED vars
    BY <1>0, <1>17 DEF vars, server
  <1> QED BY <1>1, <1>2, <1>3, <1>4, <1>5, <1>6, <1>7, <1>8, <1>9, <1>10, <1>11, <1>12,
             <1>13, <1>14, <1>15, <1>16, <1>17 DEF Next, StationNext, ServerNext, PageNext

----------------------------------------------------------------------------
(* Subscriptions.                                                          *)

(* A request taken off the queue of connection x.                          *)
LEMMA RequestTaken ==
    ASSUME ServerType, QueueType, NEW x \in Sockets, NEW type, Requested(x, type)
    PROVE  /\ x \in clients /\ up[x] # <<>>
           /\ \A y \in Sockets \ {x} : up'[y] = up[y]
           /\ up'[x] = <<>> => up[x][Len(up[x])] = type
           /\ up'[x] # <<>> => up'[x][Len(up'[x])] = up[x][Len(up[x])]
  <1>1. up[x] \in Seq(Requests) /\ up[x] # <<>> /\ Head(up[x]) = type /\ x \in clients
    BY DEF Requested, QueueType
  <1>2. up'[x] = Tail(up[x]) /\ \A y \in Sockets \ {x} : up'[y] = up[y]
    BY DEF Requested, QueueType
  <1> DEFINE q == up[x]
             l == Len(q)
  <1>3. /\ Tail(q) \in Seq(Requests) /\ l \in Nat \ {0} /\ Len(Tail(q)) = l - 1
        /\ \A i \in 1..(l - 1) : Tail(q)[i] = q[i + 1]
        /\ Head(q) = q[1]
    BY <1>1, Taken
  <1> HIDE DEF q, l
  <1>4. Tail(q) = <<>> => l = 1
    <2>1. PICK t \in Seq(Requests) : t = Tail(q) /\ Len(t) = l - 1
      BY <1>3
    <2>2. t = <<>> => l - 1 = 0
      BY <2>1, EmptySeq
    <2> QED BY <1>3, <2>1, <2>2
  <1>5. Tail(q) # <<>> => Tail(q)[l - 1] = q[l]
    BY <1>3, EmptySeq
  <1> QED BY <1>1, <1>2, <1>3, <1>4, <1>5 DEF q, l

LEMMA NextAskedInv == TypeOK /\ LinkInv /\ AskedInv /\ [Next]_vars => AskedInv'
  <1> SUFFICES ASSUME TypeOK, LinkInv, AskedInv, [Next]_vars PROVE AskedInv'
    OBVIOUS
  <1>a. ServerType /\ QueueType /\ PageType
    BY TypeParts DEF Typed
  <1>0. ASSUME UNCHANGED <<clients, fftSubscribers, up, ws, asked>> PROVE AskedInv'
    BY <1>0 DEF AskedInv
  <1>1. CASE StationNext
    BY <1>0, <1>1
    DEF StationNext, StatusChanges, SetScanningFrequency, StopStreamForPass, StartPass,
        PassStartSent, DecodingBegins, CompletePass, server, link
  <1>2. CASE ServerAccepts
    BY <1>2 DEF ServerAccepts, AskedInv, link
  <1>3. CASE StartTimer \/ StopTimer
    BY <1>0, <1>3 DEF StartTimer, StopTimer, link
  <1>4. ASSUME NEW x \in Sockets, ServerSeesClose(x)
        PROVE  AskedInv'
    <2>1. /\ ws # x /\ ws' = ws /\ asked' = asked
          /\ clients' = clients \ {x} /\ fftSubscribers' = fftSubscribers \ {x}
          /\ \A y \in Sockets \ {x} : up'[y] = up[y]
      BY <1>4, <1>a DEF ServerSeesClose, QueueType, link
    <2> QED BY <2>1 DEF AskedInv
  <1>5. ASSUME NEW x \in Sockets, ServerSubscribes(x)
        PROVE  AskedInv'
    <2>1. /\ x \in clients /\ up[x] # <<>>
          /\ \A y \in Sockets \ {x} : up'[y] = up[y]
          /\ up'[x] # <<>> => up'[x][Len(up'[x])] = up[x][Len(up[x])]
      BY <1>5, <1>a, RequestTaken DEF ServerSubscribes
    <2>2. /\ fftSubscribers' = fftSubscribers \cup {x}
          /\ UNCHANGED <<clients, ws, asked>>
      BY <1>5 DEF ServerSubscribes, link
    <2> QED BY <2>1, <2>2 DEF AskedInv
  <1>6. ASSUME NEW x \in Sockets, ServerUnsubscribes(x)
        PROVE  AskedInv'
    <2>1. /\ x \in clients /\ up[x] # <<>>
          /\ \A y \in Sockets \ {x} : up'[y] = up[y]
          /\ up'[x] = <<>> => up[x][Len(up[x])] = "fft_unsubscribe"
          /\ up'[x] # <<>> => up'[x][Len(up'[x])] = up[x][Len(up[x])]
      BY <1>6, <1>a, RequestTaken DEF ServerUnsubscribes
    <2>2. /\ fftSubscribers' = fftSubscribers \ {x}
          /\ UNCHANGED <<clients, ws, asked>>
      BY <1>6 DEF ServerUnsubscribes, link
    <2> QED BY <2>1, <2>2 DEF AskedInv
  <1>7. CASE Connect
    <2>1. PICK x \in Sockets \ clients : ws' = x /\ up' = [up EXCEPT ![x] = <<>>]
      BY <1>7 DEF Connect
    <2>2. up'[x] = <<>>
      BY <1>a, <2>1 DEF QueueType
    <2>3. asked' = FALSE /\ UNCHANGED <<clients, fftSubscribers>>
      BY <1>7 DEF Connect, server
    <2> QED BY <2>1, <2>2, <2>3 DEF AskedInv
  <1>8. CASE OnOpen
    BY <1>0, <1>8 DEF OnOpen, server
  <1>9. CASE OnClose
    BY <1>9, NoneAssumption DEF OnClose, AskedInv, server
  <1>10. ASSUME NEW v, NEW mode, Render(v, mode), UNCHANGED <<server, link>>
         PROVE  AskedInv'
    <2>1. CASE page = "react" /\ frequency' # frequency /\ conn = "open"
      <3>1. up' = [up EXCEPT ![ws] = @ \o Resubscribe] /\ asked' = TRUE
        BY <1>10, <2>1 DEF Render
      <3>2. ws \in Sockets /\ up[ws] \in Seq(Requests)
        BY <2>1, <1>a DEF LinkInv, ServerType, QueueType
      <3>3. up'[ws] = up[ws] \o Resubscribe
        BY <1>a, <3>1, <3>2 DEF QueueType
      <3>4. up'[ws] # <<>> /\ up'[ws][Len(up'[ws])] = "fft_subscribe"
        BY <3>2, <3>3, ResubscribeFacts
      <3> QED BY <1>10, <3>1, <3>2, <3>4 DEF AskedInv, server, link
    <2>2. CASE ~ (page = "react" /\ frequency' # frequency /\ conn = "open")
      BY <1>0, <1>10, <2>2 DEF Render, server, link
    <2> QED BY <2>1, <2>2
  <1>11. CASE OnMessage \/ SetWaterfallMode
    BY <1>10, <1>11 DEF OnMessage, SetWaterfallMode
  <1>12. CASE UNCHANGED vars
    BY <1>0, <1>12 DEF vars, server, link
  <1> QED BY <1>1, <1>2, <1>3, <1>4, <1>5, <1>6, <1>7, <1>8, <1>9, <1>11, <1>12
          DEF Next, ServerNext, PageNext

----------------------------------------------------------------------------
(* What the page shows.                                                    *)

(* Steps of which the page is told nothing, as there is nothing to tell.   *)
LEMMA NothingTold ==
    ASSUME StatusTold, PassTold,
           UNCHANGED <<status, currentPass, held, clients, ws, page, systemState, down>>
    PROVE  StatusTold' /\ PassTold'
  BY DEF StatusTold, PassTold

(* A status of the loop is sent while no pass is captured, or of the       *)
(* decoder while one is: the pass is as it was.                            *)
LEMMA StatusSent ==
    ASSUME QueueType, StatusTold, PassTold, NEW st \in Statuses, SetStatus(st),
           UNCHANGED <<currentPass, held, clients, ws, page, systemState>>
    PROVE  StatusTold' /\ PassTold'
  <1> DEFINE m == [type |-> "status_change", status |-> st]
  <1>1. m \in Events /\ m \in SaysStatus(st) /\ m \notin PassMessages
    BY MessageTypes DEF SaysStatus, PassMessages
  <1>2. Broadcast(m) /\ status' = st
    BY DEF SetStatus
  <1> HIDE DEF m
  <1> SUFFICES ASSUME ws \in clients, ~ held
               PROVE  StatusTold' /\ PassTold'
    BY DEF StatusTold, PassTold
  <1>3. down' = Append(down, m) /\ down \in Seq(Events)
    BY <1>2 DEF Broadcast, QueueType
  <1>4. StatusTold'
    BY <1>1, <1>2, <1>3, ToldByLast DEF StatusTold
  <1>5. PassTold'
    BY <1>1, <1>3, ToldBeside DEF PassTold
  <1> QED BY <1>4, <1>5

(* A pass that starts or ends is told with its status.                     *)
LEMMA PassSent ==
    ASSUME QueueType, Broadcast([type |-> "pass_start"]), status' = "capturing", currentPass',
           UNCHANGED <<clients, ws, page, systemState>>
    PROVE  StatusTold' /\ PassTold'
  <1> DEFINE m == [type |-> "pass_start"]
  <1>1. m \in Events /\ m \in SaysStatus("capturing") /\ m \in SaysPass
    BY MessageTypes DEF SaysStatus, SaysPass
  <1>2. Broadcast(m)
    OBVIOUS
  <1> HIDE DEF m
  <1> SUFFICES ASSUME ws \in clients
               PROVE  StatusTold' /\ PassTold'
    BY DEF StatusTold, PassTold
  <1>3. down' = Append(down, m) /\ down \in Seq(Events)
    BY <1>2 DEF Broadcast, QueueType
  <1>4. StatusTold'
    BY <1>1, <1>3, ToldByLast DEF StatusTold
  <1>5. PassTold'
    BY <1>1, <1>3, ToldByLast DEF PassTold
  <1> QED BY <1>4, <1>5

LEMMA EndSent ==
    ASSUME QueueType, Broadcast([type |-> "pass_complete"]), status' = "idle", ~ currentPass',
           UNCHANGED <<clients, ws, page, systemState>>
    PROVE  StatusTold' /\ PassTold'
  <1> DEFINE m == [type |-> "pass_complete"]
  <1>1. m \in Events /\ m \in SaysStatus("idle") /\ m \in SaysNoPass
    BY MessageTypes DEF SaysStatus, SaysNoPass
  <1>2. Broadcast(m)
    OBVIOUS
  <1> HIDE DEF m
  <1> SUFFICES ASSUME ws \in clients
               PROVE  StatusTold' /\ PassTold'
    BY DEF StatusTold, PassTold
  <1>3. down' = Append(down, m) /\ down \in Seq(Events)
    BY <1>2 DEF Broadcast, QueueType
  <1>4. StatusTold'
    BY <1>1, <1>3, ToldByLast DEF StatusTold
  <1>5. PassTold'
    BY <1>1, <1>3, ToldByLast DEF PassTold
  <1> QED BY <1>4, <1>5

(* The whole state is sent to a new connection.                            *)
LEMMA StateSent ==
    ASSUME StationType, ServerAccepts
    PROVE  StatusTold' /\ PassTold'
  <1> DEFINE v == [status |-> status, pass |-> currentPass, scan |-> scanningFrequency]
             m == [type |-> "init", state |-> v]
             none == <<>>
  <1>1. v \in States
    BY DEF StationType, States
  <1>2. v.status = status /\ (v.pass <=> currentPass)
    BY DEF StationType
  <1>3. m.type = "init" /\ m.state = v
    OBVIOUS
  <1>4. down' = <<m>>
    BY DEF ServerAccepts
  <1>5. m \in Events
    BY <1>1, MessageTypes
  <1> HIDE DEF v, m
  <1>6. none \in Seq(Events) /\ down' = Append(none, m)
    BY <1>4
  <1> HIDE DEF none
  <1>7. /\ m \in SaysStatus(status)
        /\ currentPass => m \in SaysPass
        /\ ~ currentPass => m \in SaysNoPass
    BY <1>2, <1>3, <1>5 DEF SaysStatus, SaysPass, SaysNoPass
  <1>8. status' = status /\ currentPass' = currentPass
    BY DEF ServerAccepts, station
  <1>9. StatusTold'
    BY <1>5, <1>6, <1>7, <1>8, ToldByLast DEF StatusTold
  <1>10. PassTold'
    BY <1>5, <1>6, <1>7, <1>8, ToldByLast DEF PassTold
  <1> QED BY <1>9, <1>10

(* The page handles the first message.                                     *)
LEMMA FirstShown ==
    ASSUME TypeOK, LinkInv, StatusTold, PassTold, OnMessage
    PROVE  StatusTold' /\ PassTold'
  <1>1. /\ down \in Seq(Events) /\ down # <<>> /\ down' = Tail(down)
        /\ Head(down) \in Events
        /\ systemState \in Views \/ Head(down).type = "init"
        /\ systemState' = Shown
    BY FirstMessage
  <1>2. UNCHANGED <<status, currentPass, held, clients, ws, page>>
    BY DEF OnMessage, station, server, link
  <1> SUFFICES ASSUME ws \in clients, ~ held
               PROVE  StatusTold' /\ PassTold'
    BY <1>2 DEF StatusTold, PassTold
  <1>3. status \in Statuses
    BY DEF TypeOK
  <1>4. StatusTold'
    <2>1. Told(StatusMessages, SaysStatus(status), ShowsStatus(status), systemState, down)
      BY DEF StatusTold
    <2>2. /\ Head(down) \in SaysStatus(status) => Shown \in ShowsStatus(status)
          /\ Head(down) \notin StatusMessages /\ systemState \in ShowsStatus(status) =>
               Shown \in ShowsStatus(status)
      <3>1. CASE page = "react"
        BY <1>1, <1>3, <3>1, HandledFacts DEF Shown
      <3>2. CASE page # "react"
        BY <1>1, <1>3, <3>2, HandleMessageFacts DEF Shown
      <3> QED BY <3>1, <3>2
    <2>3. Told(StatusMessages, SaysStatus(status), ShowsStatus(status), Shown, Tail(down))
      BY <1>1, <2>1, <2>2, ToldOn
    <2> QED BY <1>1, <1>2, <2>3 DEF StatusTold
  <1>5. PassTold'
    <2> SUFFICES ASSUME page = "react"
                 PROVE  PassTold'
      BY <1>2 DEF PassTold
    <2>1. Shown = Handled(systemState, Head(down))
      BY DEF Shown
    <2>2. /\ Head(down) \in SaysPass => Shown \in ShowsPass
          /\ Head(down) \notin PassMessages /\ systemState \in ShowsPass => Shown \in ShowsPass
          /\ Head(down) \in SaysNoPass => Shown \in ShowsNoPass
          /\ Head(down) \notin PassMessages /\ systemState \in ShowsNoPass => Shown \in ShowsNoPass
      BY <1>1, <2>1, HandledFacts
    <2>3. CASE currentPass
      <3>1. Told(PassMessages, SaysPass, ShowsPass, Shown, Tail(down))
        BY <1>1, <2>2, <2>3, ToldOn DEF PassTold
      <3> QED BY <1>1, <1>2, <2>3, <3>1 DEF PassTold
    <2>4. CASE ~ currentPass
      <3>1. Told(PassMessages, SaysNoPass, ShowsNoPass, Shown, Tail(down))
        BY <1>1, <2>2, <2>4, ToldOn DEF PassTold
      <3> QED BY <1>1, <1>2, <2>4, <3>1 DEF PassTold
    <2> QED BY <2>3, <2>4
  <1> QED BY <1>4, <1>5

LEMMA NextTold ==
    TypeOK /\ StationInv /\ LinkInv /\ StatusTold /\ PassTold /\ [Next]_vars
        => StatusTold' /\ PassTold'
  <1> SUFFICES ASSUME TypeOK, StationInv, LinkInv, StatusTold, PassTold, [Next]_vars
               PROVE  StatusTold' /\ PassTold'
    OBVIOUS
  <1>a. StationType /\ ServerType /\ QueueType /\ PageType
    BY TypeParts DEF Typed
  <1>1. ASSUME NEW st \in LoopStatuses, StatusChanges(st)
        PROVE  StatusTold' /\ PassTold'
    <2>1. st \in Statuses
      BY LoopAssumption DEF Statuses
    <2> QED BY <1>1, <1>a, <2>1, StatusSent DEF StatusChanges, server, link, view
  <1>2. CASE SetScanningFrequency
    <2> DEFINE m == [type |-> "scanning_frequency"]
    <2>1. m \in Events /\ m \notin StatusMessages /\ m \notin PassMessages
      BY MessageTypes DEF StatusMessages, PassMessages
    <2>2. /\ Broadcast(m)
          /\ UNCHANGED <<status, currentPass, held, clients, ws, page, systemState>>
      BY <1>2 DEF SetScanningFrequency, link, view
    <2> HIDE DEF m
    <2>3. CASE ws \in clients
      <3>1. down' = Append(down, m) /\ down \in Seq(Events)
        BY <1>a, <2>2, <2>3 DEF Broadcast, QueueType
      <3>2. StatusTold'
        BY <2>1, <2>2, <3>1, ToldBeside DEF StatusTold
      <3>3. PassTold'
        BY <2>1, <2>2, <3>1, ToldBeside DEF PassTold
      <3> QED BY <3>2, <3>3
    <2>4. CASE ws \notin clients
      BY <2>2, <2>4 DEF StatusTold, PassTold
    <2> QED BY <2>3, <2>4
  <1>3. CASE StopStreamForPass
    BY <1>3, NothingTold DEF StopStreamForPass, link, view
  <1>4. CASE StartPass
    <2>1. CASE stream
      <3>1. held'
        BY <1>4, <2>1 DEF StartPass
      <3> QED BY <3>1 DEF StatusTold, PassTold
    <2>2. CASE ~ stream
      BY <1>4, <1>a, <2>2, PassSent DEF StartPass, link, view
    <2> QED BY <2>1, <2>2
  <1>5. CASE PassStartSent
    <2>1. status = "capturing" /\ currentPass
      BY <1>5 DEF PassStartSent, StationInv
    <2> QED BY <1>5, <1>a, <2>1, PassSent DEF PassStartSent, station, link, view
  <1>6. CASE DecodingBegins
    <2>1. "decoding" \in Statuses
      BY DEF Statuses
    <2> QED BY <1>6, <1>a, <2>1, StatusSent DEF DecodingBegins, server, link, view
  <1>7. CASE CompletePass
    BY <1>7, <1>a, EndSent DEF CompletePass, server, link, view
  <1>8. CASE ServerAccepts
    BY <1>8, <1>a, StateSent
  <1>9. CASE StartTimer \/ StopTimer
    BY <1>9, NothingTold DEF StartTimer, StopTimer, station, link, view
  <1>10. ASSUME NEW x \in Sockets, ServerSeesClose(x)
         PROVE  StatusTold' /\ PassTold'
    BY <1>10 DEF ServerSeesClose, StatusTold, PassTold, station, link, view
  <1>11. ASSUME NEW x \in Sockets, ServerSubscribes(x) \/ ServerUnsubscribes(x)
         PROVE  StatusTold' /\ PassTold'
    BY <1>11, NothingTold DEF ServerSubscribes, ServerUnsubscribes, station, link, view
  <1>12. CASE Connect \/ OnClose
    <2>1. ws' \notin clients'
      BY <1>12, <1>a, NoneAssumption DEF Connect, OnClose, ServerType, server
    <2> QED BY <2>1 DEF StatusTold, PassTold
  <1>13. CASE OnOpen
    BY <1>13, NothingTold DEF OnOpen, station, server, view
  <1>14. CASE OnMessage
    BY <1>14, FirstShown
  <1>15. CASE SetWaterfallMode
    BY <1>15, NothingTold DEF SetWaterfallMode, Render, station, server, link
  <1>16. CASE UNCHANGED vars
    BY <1>16, NothingTold DEF vars, station, server, link, view
  <1> QED BY <1>1, <1>2, <1>3, <1>4, <1>5, <1>6, <1>7, <1>8, <1>9, <1>10, <1>11, <1>12,
             <1>13, <1>14, <1>15, <1>16 DEF Next, StationNext, ServerNext, PageNext

LEMMA NextLegacyView == TypeOK /\ LinkInv /\ LegacyView /\ [Next]_vars => LegacyView'
  <1> SUFFICES ASSUME TypeOK, LinkInv, LegacyView, [Next]_vars PROVE LegacyView'
    OBVIOUS
  <1>0. ASSUME UNCHANGED <<page, systemState>> PROVE LegacyView'
    BY <1>0 DEF LegacyView
  <1>1. CASE StationNext
    BY <1>0, <1>1
    DEF StationNext, StatusChanges, SetScanningFrequency, StopStreamForPass, StartPass,
        PassStartSent, DecodingBegins, CompletePass, view
  <1>2. CASE ServerNext
    BY <1>0, <1>2
    DEF ServerNext, ServerAccepts, StartTimer, StopTimer, ServerSeesClose, ServerSubscribes,
        ServerUnsubscribes, view
  <1>3. CASE OnMessage
    <2> SUFFICES ASSUME page = "legacy"
                 PROVE  LegacyView'
      BY <1>3 DEF OnMessage, LegacyView
    <2>1. /\ systemState' = HandleMessage(systemState, Head(down))
          /\ Head(down) \in Events
          /\ systemState \in Views \/ Head(down).type = "init"
      BY <1>3, FirstMessage DEF Shown
    <2>2. \/ systemState' = systemState
          \/ /\ systemState'.status \in Statuses
             /\ systemState'.pass <=> systemState'.status \in {"capturing", "decoding"}
      BY <2>1, HandleMessageFacts
    <2> QED BY <1>3, <2>2 DEF OnMessage, LegacyView, Statuses
  <1>4. CASE Connect \/ OnOpen \/ OnClose \/ SetWaterfallMode \/ UNCHANGED vars
    BY <1>0, <1>4 DEF Connect, OnOpen, OnClose, SetWaterfallMode, Render, vars, view
  <1> QED BY <1>1, <1>2, <1>3, <1>4 DEF Next, PageNext

----------------------------------------------------------------------------
IInv ==
    /\ TypeOK /\ StationInv /\ LinkInv /\ AskedInv
    /\ StatusTold /\ PassTold /\ LegacyView

LEMMA InitIInv == Init => IInv
  <1> SUFFICES ASSUME Init PROVE IInv
    OBVIOUS
  <1>1. ws = None /\ conn = "none" /\ clients = {} /\ fftSubscribers = {}
    BY DEF Init
  <1>2. StationInv
    BY DEF Init, StationInv
  <1>3. LinkInv /\ AskedInv /\ StatusTold /\ PassTold
    BY <1>1, NoneAssumption DEF LinkInv, AskedInv, StatusTold, PassTold
  <1>4. LegacyView
    BY DEF Init, LegacyView
  <1> QED BY <1>2, <1>3, <1>4, InitTypeOK DEF IInv

(* The inductive invariant.                                                *)
THEOREM Invariance == Spec => []IInv
  <1>1. IInv /\ [Next]_vars => IInv'
    BY NextTypeOK, NextStationInv, NextLinkInv, NextAskedInv, NextTold, NextLegacyView DEF IInv
  <1> QED BY InitIInv, <1>1, PTL DEF Spec

(* Station, server, queues and page are type correct, for any number of    *)
(* connections, attempts and passes and any length of the queues.          *)
THEOREM DashboardTypeCorrect == Spec => []TypeOK
  <1>1. IInv => TypeOK
    BY DEF IInv
  <1> QED BY Invariance, <1>1, PTL

(* A page that has received everything shows the status and the pass the   *)
(* station is in, after any number of lost connections and reconnections.  *)
THEOREM PagesAreCurrent == Spec => []ViewIsCurrent
  <1>1. IInv => ViewIsCurrent
    <2> SUFFICES ASSUME IInv, conn = "open", down = <<>>, ~ held
                 PROVE  /\ systemState # None
                        /\ systemState.pass = currentPass
                        /\ \/ systemState.status = status
                           \/ systemState.status = "recording" /\ status = "capturing"
      BY DEF ViewIsCurrent
    <2>1. ws \in clients
      BY DEF IInv, LinkInv
    <2>2. DOMAIN down = {}
      OBVIOUS
    <2>3. systemState \in ShowsStatus(status)
      BY <2>1, <2>2 DEF IInv, StatusTold, Told
    <2>4. /\ systemState \in Views
          /\ \/ systemState.status = status
             \/ systemState.status = "recording" /\ status = "capturing"
      BY <2>3 DEF ShowsStatus
    <2>5. systemState.pass \in BOOLEAN /\ currentPass \in BOOLEAN
      BY <2>4, ViewFields DEF IInv, TypeOK
    <2>6. CASE page = "react"
      <3>1. systemState \in IF currentPass THEN ShowsPass ELSE ShowsNoPass
        BY <2>1, <2>2, <2>6 DEF IInv, PassTold, Told
      <3>2. systemState.pass <=> currentPass
        BY <3>1 DEF ShowsPass, ShowsNoPass
      <3> QED BY <2>4, <2>5, <3>2, NoneAssumption
    <2>7. CASE page = "legacy"
      <3>1. systemState # None
        BY <2>4, NoneAssumption
      <3>2. systemState.pass <=> systemState.status \in {"capturing", "decoding"}
        BY <2>7, <3>1 DEF IInv, LegacyView
      <3>3. currentPass <=> status \in {"capturing", "decoding"}
        BY DEF IInv, StationInv
      <3>4. systemState.status # "recording"
        BY <2>7, <3>1 DEF IInv, LegacyView
      <3> QED BY <2>4, <2>5, <3>1, <3>2, <3>3, <3>4
    <2> QED BY <2>6, <2>7 DEF IInv, TypeOK
  <1> QED BY Invariance, <1>1, PTL

(* Page and server agree on who watches the stream, whatever old           *)
(* connections still deliver.                                              *)
THEOREM SubscriptionsDoAgree == Spec => []SubscriptionsAgree
  <1>1. IInv => SubscriptionsAgree
    <2> SUFFICES ASSUME IInv PROVE SubscriptionsAgree
      OBVIOUS
    <2>1. conn = "open" => ws \in Sockets
      BY DEF IInv, LinkInv, TypeOK
    <2> QED BY <2>1 DEF IInv, AskedInv, SubscriptionsAgree
  <1> QED BY Invariance, <1>1, PTL
=============================================================================
