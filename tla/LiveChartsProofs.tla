-------------------------- MODULE LiveChartsProofs --------------------------
(***************************************************************************)
(* The live half of the dashboard for any charts, any number of updates,   *)
(* failures and EventSource objects: the page is fed by one stream, its    *)
(* charts never go back in time, and no alarm is passed over.              *)
(***************************************************************************)
EXTENDS LiveCharts, TLAPS, FiniteSetTheorems, SequenceTheorems

Points  == [at : Nat, value : Int]
Streams == [state : {"none", "connecting", "open", "broken"}, wire : Seq(Events)]

\* A history answer: as many points as labels, no more than the store keeps.
Answered(h) ==
  /\ h.kind = "history"
  /\ h.labels \in Seq(Nat)
  /\ Len(h.labels) <= HistorySize
  /\ \A x \in SeriesNames : \A i \in 1..Len(h.labels) : h.points[x][i] \in Int

\* The latest label of a history, LastAt of the charts it fills.
LastLabel(q) == IF q = <<>> THEN 0 ELSE q[Len(q)]

ServerInv ==
  /\ published \in Seq(Snapshots)
  /\ clock \in 0..MaxUpdates
  /\ published # <<>> => published[Len(published)].at = clock

LoadingInv ==
  /\ historyCall \in {"none", "asked", "answered", "done"}
  /\ IF historyCall = "answered"
     THEN Answered(answer) /\ LastLabel(answer.labels) <= clock
     ELSE answer = NoAnswer

StreamInv ==
  /\ source \in [Sources -> Streams]
  /\ \A s \in Sources : Len(source[s].wire) <= MaxWire
  /\ backoff \in 1..MaxBackoff
  /\ connected \in BOOLEAN

\* There is one stream, or one timeout that will open one, and neither before
\* the history was loaded.
OneInv ==
  /\ timers \in {0, 1}
  /\ \A s, t \in Sources : source[s] # NoSource /\ source[t] # NoSource => s = t
  /\ timers = 1 \/ historyCall # "done" => \A s \in Sources : source[s] = NoSource
  /\ historyCall # "done" => timers = 0

ChartsInv ==
  /\ data \in [SeriesNames -> Seq(Points)]
  /\ \A x \in SeriesNames : Len(data[x]) <= ChartSize
  /\ labelsOf \in [SeriesNames -> SeriesNames \cup {Loaded}]
  /\ DOMAIN labels = SeriesNames \cup {Loaded}
  /\ historyCall # "done" => \A x \in SeriesNames : data[x] = <<>>

\* What is on its way to the page comes in order, after what the charts show
\* and before the present.
OrderInv ==
  /\ \A x \in SeriesNames : LastAt(data, x) <= clock
  /\ \A s \in Sources : \A i \in 1..Len(source[s].wire) :
       /\ source[s].wire[i].at <= clock
       /\ \A x \in SeriesNames : LastAt(data, x) <= source[s].wire[i].at
       /\ \A j \in i..Len(source[s].wire) : source[s].wire[i].at <= source[s].wire[j].at

\* The alarm not to be repeated is that of the last event, if there was one.
AlarmInv ==
  /\ handled \in Events
  /\ toasted \in BOOLEAN
  /\ lastCritical \subseteq SeriesNames \X Int
  /\ \/ lastCritical = Alarm(handled)
     \/ lastCritical = NoAlarm /\ handled = NoEvent

IInv ==
  /\ ServerInv
  /\ LoadingInv
  /\ StreamInv
  /\ OneInv
  /\ ChartsInv
  /\ OrderInv
  /\ AlarmInv
  /\ faults \in 0..MaxFaults

LEMMA InitIInv == Init => IInv
<1> SUFFICES ASSUME Init PROVE IInv
  OBVIOUS
<1>1. ServerInv /\ LoadingInv /\ faults \in 0..MaxFaults
  BY ChartsAssumption DEF Init, ServerInv, LoadingInv
<1>2. NoSource \in Streams /\ NoSource.wire = <<>>
  BY DEF NoSource, Streams
<1>3. StreamInv /\ OneInv
  <2>1. Len(NoSource.wire) = 0
    BY <1>2
  <2>2. source = [s \in Sources |-> NoSource] /\ timers = 0 /\ backoff = 1 /\ connected = FALSE
    BY DEF Init
  <2>3. source \in [Sources -> Streams] /\ \A s \in Sources : source[s] = NoSource
    BY <1>2, <2>2
  <2>4. StreamInv
    <3>1. \A s \in Sources : Len(source[s].wire) <= MaxWire
      BY <2>1, <2>3, ChartsAssumption
    <3>2. backoff \in 1..MaxBackoff
      BY <2>2, ChartsAssumption
    <3>3. connected \in BOOLEAN
      BY <2>2, Zenon
    <3> QED
      BY <2>3, <3>1, <3>2, <3>3 DEF StreamInv
  <2>5. OneInv
    BY <2>2 DEF OneInv
  <2> QED
    BY <2>4, <2>5
<1>4. ChartsInv
  BY ChartsAssumption DEF Init, ChartsInv
<1>5. OrderInv
  BY <1>1, <1>2 DEF Init, OrderInv, LastAt, ServerInv
<1>6. AlarmInv
  <2>1. NoEvent \in Events
    BY DEF NoEvent, Events
  <2> QED
    BY <2>1 DEF Init, AlarmInv, NoAlarm
<1> QED
  BY <1>1, <1>3, <1>4, <1>5, <1>6 DEF IInv

-----------------------------------------------------------------------------
(* What the store answers                                                  *)

\* The latest n elements of a sequence end with its last.
LEMMA LatestEnds ==
  ASSUME NEW S, NEW q \in Seq(S), NEW n \in Nat \ {0}
  PROVE  /\ Store!LatestOf(q, n) \in Seq(S)
         /\ Len(Store!LatestOf(q, n)) <= n
         /\ q = <<>> <=> Store!LatestOf(q, n) = <<>>
         /\ q # <<>> => Store!LatestOf(q, n)[Len(Store!LatestOf(q, n))] = q[Len(q)]
<1>1. CASE Len(q) > n
  <2> DEFINE t == SubSeq(q, Len(q) - n + 1, Len(q))
  <2>1. /\ t \in Seq(S) /\ Len(t) = n /\ t[n] = q[Len(q)]
        /\ q # <<>> /\ t # <<>>
    <3> DEFINE m == Len(q) - n + 1
    <3>1. m \in 1..Len(q) /\ Len(q) \in Nat /\ Len(q) - m + 1 = n
      BY <1>1
    <3>2. \A i \in m..Len(q) : q[i] \in S
      BY <3>1
    <3>3. t \in Seq(S) /\ Len(t) = n /\ \A i \in 1..n : t[i] = q[m + i - 1]
      BY <3>1, <3>2, SubSeqProperties
    <3> HIDE DEF t
    <3>4. t[n] = q[Len(q)] /\ q # <<>> /\ t # <<>>
      BY <1>1, <3>1, <3>3
    <3> QED
      BY <3>3, <3>4
  <2>2. Store!LatestOf(q, n) = t
    BY <1>1 DEF Store!LatestOf
  <2> HIDE DEF t
  <2> QED
    BY <2>1, <2>2
<1>2. CASE Len(q) <= n
  BY <1>2 DEF Store!LatestOf
<1> QED
  BY <1>1, <1>2

\* A history answer is well formed, and ends with the present.
LEMMA HistoryAnswered ==
  ASSUME ServerInv
  PROVE  /\ Answered(Store!HistoryOf(published))
         /\ LastLabel(Store!HistoryOf(published).labels) <= clock
<1> DEFINE latest == Store!LatestOf(published, HistorySize)
           h == Store!HistoryOf(published)
<1>1. /\ latest \in Seq(Snapshots) /\ Len(latest) <= HistorySize
      /\ published = <<>> <=> latest = <<>>
      /\ published # <<>> => latest[Len(latest)] = published[Len(published)]
  BY LatestEnds, ChartsAssumption DEF ServerInv
<1>2. /\ h.kind = "history"
      /\ h.labels = [i \in 1..Len(latest) |-> latest[i].at]
      /\ h.points = [x \in SeriesNames |-> [i \in 1..Len(latest) |-> latest[i].value[x]]]
  BY DEF Store!HistoryOf
<1> HIDE DEF latest, h
<1>3. \A i \in 1..Len(latest) : latest[i].at \in Nat /\ latest[i].value \in [SeriesNames -> Int]
  BY <1>1, ChartsAssumption, SMTT(30)
<1>4. Len(latest) \in Nat
  BY <1>1
<1>5. h.labels \in Seq(Nat) /\ Len(h.labels) = Len(latest)
  BY <1>2, <1>3, <1>4
<1>6. Answered(h)
  BY <1>1, <1>2, <1>3, <1>5 DEF Answered
<1>7. LastLabel(h.labels) <= clock
  BY <1>1, <1>2, <1>4, <1>5 DEF LastLabel, ServerInv
<1> QED
  BY <1>6, <1>7 DEF h

\* An event is of the present.
LEMMA EventIsNow ==
  ASSUME ServerInv
  PROVE  LiveEvent \in Events /\ LiveEvent.at = clock
<1> DEFINE live == Store!LiveOf(published)
<1>1. CASE published = <<>>
  <2>1. \A x \in SeriesNames : live.sensors[x].value = 0
    BY <1>1 DEF Store!LiveOf
  <2> QED
    BY <1>1, <2>1 DEF LiveEvent, Events, ServerInv
<1>2. CASE published # <<>>
  <2> DEFINE last == published[Len(published)]
  <2>1. last \in Snapshots /\ last.at = clock
    BY <1>2 DEF ServerInv
  <2>2. live.at = last.at /\ \A x \in SeriesNames : live.sensors[x].value = last.value[x]
    BY <1>2 DEF Store!LiveOf
  <2> QED
    BY <1>2, <2>1, <2>2, ChartsAssumption DEF LiveEvent, Events, ServerInv
<1> QED
  BY <1>1, <1>2

-----------------------------------------------------------------------------
(* The streams                                                             *)

\* A stream changes into another one.
LEMMA SourceBecomes ==
  ASSUME StreamInv, NEW s \in Sources, NEW r \in Streams, Len(r.wire) <= MaxWire,
         source' = [source EXCEPT ![s] = r]
  PROVE  /\ source' \in [Sources -> Streams]
         /\ \A t \in Sources : Len(source'[t].wire) <= MaxWire
         /\ \A t \in Sources : source'[t] = IF t = s THEN r ELSE source[t]
  BY DEF StreamInv

\* Whatever becomes of the one stream, no other comes about.
LEMMA OneStays ==
  ASSUME OneInv, NEW s \in Sources, source[s] # NoSource,
         \A t \in Sources \ {s} : source'[t] = source[t],
         UNCHANGED <<timers, historyCall>>
  PROVE  /\ OneInv'
         /\ historyCall = "done"
         /\ \A t \in Sources \ {s} : source[t] = NoSource
  BY DEF OneInv

\* Where there is no stream, connectSSE makes the one there is.
LEMMA ConnectOne ==
  ASSUME StreamInv, \A s \in Sources : source[s] = NoSource, ConnectSSE,
         timers' = 0, historyCall' = "done", UNCHANGED <<backoff, connected>>
  PROVE  /\ StreamInv' /\ OneInv'
         /\ \A s \in Sources : source'[s].wire = <<>>
<1>1. PICK s \in Sources : source' = [source EXCEPT ![s].state = "connecting"]
  BY DEF ConnectSSE
<1> DEFINE r == [NoSource EXCEPT !.state = "connecting"]
<1>2. source' = [source EXCEPT ![s] = r]
  BY <1>1
<1>3. r \in Streams /\ r.wire = <<>> /\ Len(r.wire) <= MaxWire
  <2>1. r = [state |-> "connecting", wire |-> <<>>]
    BY DEF NoSource
  <2>2. <<>> \in Seq(Events) /\ Len(<<>>) = 0
    OBVIOUS
  <2> HIDE DEF r
  <2> QED
    BY <2>1, <2>2, ChartsAssumption DEF Streams
<1> HIDE DEF r
<1>4. /\ source' \in [Sources -> Streams]
      /\ \A t \in Sources : Len(source'[t].wire) <= MaxWire
      /\ \A t \in Sources : source'[t] = IF t = s THEN r ELSE source[t]
  BY <1>2, <1>3, SourceBecomes
<1>5. NoSource.wire = <<>>
  BY DEF NoSource
<1> QED
  BY <1>3, <1>4, <1>5 DEF StreamInv, OneInv

\* A broken stream delivers what did arrive.
LEMMA BrokenDelivers ==
  ASSUME NEW src \in Streams, NEW n \in Nat
  PROVE  /\ Broken(src, n) \in Streams
         /\ Broken(src, n) # NoSource
         /\ Len(Broken(src, n).wire) <= Len(src.wire)
         /\ \A i \in 1..Len(Broken(src, n).wire) : Broken(src, n).wire[i] = src.wire[i]
<1> DEFINE k == Lesser(n, Len(src.wire))
           w == SubSeq(src.wire, 1, k)
<1>1. src.wire \in Seq(Events) /\ Len(src.wire) \in Nat
  BY DEF Streams
<1>2. k \in Nat /\ k <= Len(src.wire)
  BY <1>1 DEF Lesser
<1> HIDE DEF k
<1>3. \A i \in 1..k : src.wire[i] \in Events
  BY <1>1, <1>2
<1>4. /\ w \in Seq(Events) /\ Len(w) = (IF 1 <= k THEN k - 1 + 1 ELSE 0)
      /\ \A i \in 1..(k - 1 + 1) : w[i] = src.wire[1 + i - 1]
  BY <1>2, <1>3, SubSeqProperties
<1>5. /\ w \in Seq(Events) /\ Len(w) = k
      /\ \A i \in 1..k : w[i] = src.wire[i]
  <2> HIDE DEF w
  <2>1. Len(w) = k
    BY <1>2, <1>4
  <2>2. \A i \in 1..k : w[i] = src.wire[i]
    BY <1>2, <1>4
  <2> QED
    BY <1>4, <2>1, <2>2
<1>6. Broken(src, n) = [state |-> "broken", wire |-> w]
  BY DEF Broken, k
<1> HIDE DEF w
<1> QED
  BY <1>2, <1>5, <1>6 DEF Streams, NoSource

\* Streams that lost some of their latest events are still in order.
LEMMA OrderStays ==
  ASSUME OrderInv, StreamInv, source' \in [Sources -> Streams],
         clock \in Nat, clock' \in Nat, clock <= clock',
         \A x \in SeriesNames : LastAt(data, x) \in Nat,
         \A x \in SeriesNames : LastAt(data', x) = LastAt(data, x),
         \A s \in Sources :
           /\ Len(source'[s].wire) <= Len(source[s].wire)
           /\ \A i \in 1..Len(source'[s].wire) : source'[s].wire[i] = source[s].wire[i]
  PROVE  OrderInv'
<1>1. \A x \in SeriesNames : LastAt(data', x) <= clock'
  BY DEF OrderInv
<1>2. ASSUME NEW s \in Sources, NEW i \in 1..Len(source'[s].wire)
      PROVE  /\ source'[s].wire[i].at <= clock'
             /\ \A x \in SeriesNames : LastAt(data', x) <= source'[s].wire[i].at
             /\ \A j \in i..Len(source'[s].wire) :
                  source'[s].wire[i].at <= source'[s].wire[j].at
  <2>1. /\ source[s].wire \in Seq(Events) /\ source'[s].wire \in Seq(Events)
        /\ Len(source[s].wire) \in Nat /\ Len(source'[s].wire) \in Nat
    BY DEF StreamInv, Streams
  <2>2. i \in 1..Len(source[s].wire)
    BY <2>1
  <2>3. source'[s].wire[i] = source[s].wire[i] /\ source[s].wire[i].at \in Nat
    <3>1. source'[s].wire[i] = source[s].wire[i]
      OBVIOUS
    <3>2. source[s].wire[i] \in Events
      BY <2>1, <2>2
    <3> QED
      BY <3>1, <3>2 DEF Events
  <2>4. source'[s].wire[i].at <= clock'
    BY <2>2, <2>3 DEF OrderInv
  <2>5. ASSUME NEW j \in i..Len(source'[s].wire)
        PROVE  source'[s].wire[i].at <= source'[s].wire[j].at
    <3>1. j \in 1..Len(source'[s].wire) /\ j \in i..Len(source[s].wire)
      BY <2>1
    <3>2. source'[s].wire[j] = source[s].wire[j]
      BY <3>1, Zenon
    <3> QED
      BY <2>2, <2>3, <3>1, <3>2 DEF OrderInv
  <2>6. \A x \in SeriesNames : LastAt(data', x) <= source'[s].wire[i].at
    BY <2>2, <2>3 DEF OrderInv
  <2> QED
    BY <2>4, <2>5, <2>6
<1> QED
  BY <1>1, <1>2 DEF OrderInv

\* What a chart shows last is a time.
LEMMA LastIsTime ==
  ASSUME ChartsInv
  PROVE  \A x \in SeriesNames : LastAt(data, x) \in Nat
<1> SUFFICES ASSUME NEW x \in SeriesNames PROVE LastAt(data, x) \in Nat
  OBVIOUS
<1>1. data[x] \in Seq(Points)
  BY DEF ChartsInv
<1>2. data[x] # <<>> => data[x][Len(data[x])] \in Points
  BY <1>1
<1> QED
  BY <1>2 DEF LastAt, Points

\* Where nothing becomes of the streams and the charts, they stay in order.
LEMMA OrderAdvances ==
  ASSUME IInv, UNCHANGED <<source, data>>, clock' \in Nat, clock <= clock'
  PROVE  OrderInv'
<1>1. clock \in Nat
  BY ChartsAssumption DEF IInv, ServerInv
<1>2. \A x \in SeriesNames : LastAt(data, x) \in Nat
  BY LastIsTime DEF IInv
<1>3. source' \in [Sources -> Streams]
  BY DEF IInv, StreamInv
<1>4. \A s \in Sources : source[s].wire \in Seq(Events) /\ Len(source[s].wire) \in Nat
  BY DEF IInv, StreamInv, Streams
<1>5. \A s \in Sources :
        /\ Len(source'[s].wire) <= Len(source[s].wire)
        /\ \A i \in 1..Len(source'[s].wire) : source'[s].wire[i] = source[s].wire[i]
  BY <1>4
<1>6. \A x \in SeriesNames : LastAt(data', x) = LastAt(data, x)
  OBVIOUS
<1> QED
  BY <1>1, <1>2, <1>3, <1>5, <1>6, OrderStays DEF IInv

-----------------------------------------------------------------------------
(* The program                                                             *)

LEMMA PublishSafe ==
  ASSUME IInv, NEW s \in Snapshots, Publish(s)
  PROVE  IInv'
<1> USE DEF IInv
<1>1. /\ published' = Append(published, s) /\ clock' = clock + 1 /\ clock' = s.at
      /\ clock < MaxUpdates
      /\ UNCHANGED <<loading, stream, charts, alarm, faults>>
  BY DEF Publish
<1>2. clock \in Nat /\ clock' \in 0..MaxUpdates /\ clock <= clock'
  BY <1>1, ChartsAssumption DEF ServerInv
<1>3. ServerInv'
  <2>1. /\ published' \in Seq(Snapshots) /\ published' # <<>>
        /\ published'[Len(published')] = s
    BY <1>1 DEF ServerInv
  <2> QED
    BY <1>1, <1>2, <2>1 DEF ServerInv
<1>4. LoadingInv'
  <2>1. CASE historyCall = "answered"
    <3>1. LastLabel(answer.labels) \in Nat /\ LastLabel(answer.labels) <= clock
      <4>1. answer.labels \in Seq(Nat)
        BY <2>1 DEF LoadingInv, Answered
      <4>2. answer.labels # <<>> => answer.labels[Len(answer.labels)] \in Nat
        BY <4>1
      <4> QED
        BY <2>1, <4>2 DEF LoadingInv, LastLabel
    <3> QED
      BY <1>1, <1>2, <2>1, <3>1, SMTT(30) DEF LoadingInv, loading, Answered
  <2>2. CASE historyCall # "answered"
    BY <1>1, <2>2 DEF LoadingInv, loading
  <2> QED
    BY <2>1, <2>2
<1>5. OrderInv'
  BY <1>1, <1>2, OrderAdvances DEF stream, charts
<1> QED
  BY <1>1, <1>3, <1>4, <1>5
     DEF loading, stream, charts, alarm, StreamInv, OneInv, ChartsInv, AlarmInv, Alarm

LEMMA HandleHistorySafe ==
  ASSUME IInv, HandleHistory
  PROVE  IInv'
<1> USE DEF IInv
<1>1. /\ historyCall = "asked" /\ historyCall' = "answered"
      /\ answer' = Store!HistoryOf(published)
      /\ UNCHANGED <<published, clock, stream, charts, alarm, faults>>
  BY DEF HandleHistory, server
<1>2. LoadingInv'
  BY <1>1, HistoryAnswered DEF LoadingInv
<1>3. OrderInv'
  BY <1>1, OrderAdvances, ChartsAssumption DEF stream, charts, ServerInv
<1> QED
  BY <1>1, <1>2, <1>3
     DEF stream, charts, alarm, ServerInv, StreamInv, OneInv, ChartsInv, AlarmInv, Alarm

\* handleLive and its ticker put an event of the present on the wire.
LEMMA EventSent ==
  ASSUME IInv, NEW s \in Sources, NEW before,
         \/ before = <<>>
         \/ before = source[s].wire /\ Len(before) < MaxWire,
         source[s] # NoSource,
         source' = [source EXCEPT ![s] = [state |-> "open", wire |-> Append(before, LiveEvent)]],
         UNCHANGED <<published, clock, historyCall, answer, timers, charts, alarm, faults>>,
         backoff' \in 1..MaxBackoff, connected' \in BOOLEAN
  PROVE  IInv'
<1> USE DEF IInv
<1> DEFINE w == Append(before, LiveEvent)
           r == [state |-> "open", wire |-> w]
<1>1. LiveEvent \in Events /\ LiveEvent.at = clock /\ clock \in Nat
  BY EventIsNow, ChartsAssumption DEF ServerInv
<1>2. before \in Seq(Events) /\ Len(before) < MaxWire
  <2>1. CASE before = <<>>
    BY <2>1, ChartsAssumption
  <2>2. CASE before = source[s].wire /\ Len(before) < MaxWire
    BY <2>2 DEF StreamInv, Streams
  <2> QED
    BY <2>1, <2>2
<1>3. /\ w \in Seq(Events) /\ Len(w) = Len(before) + 1 /\ Len(w) <= MaxWire
      /\ Len(before) \in Nat
      /\ \A i \in 1..Len(before) : w[i] = before[i]
      /\ w[Len(before) + 1] = LiveEvent
  BY <1>1, <1>2, ChartsAssumption
<1> HIDE DEF w
<1>4. r \in Streams /\ r.wire = w
  BY <1>3 DEF Streams
<1>5. /\ source' \in [Sources -> Streams]
      /\ \A t \in Sources : Len(source'[t].wire) <= MaxWire
      /\ \A t \in Sources : source'[t] = IF t = s THEN r ELSE source[t]
  <2> HIDE DEF r
  <2>1. source' = [source EXCEPT ![s] = r]
    BY DEF r, w
  <2> QED
    BY <1>3, <1>4, <2>1, SourceBecomes
<1> HIDE DEF r
<1>6. StreamInv'
  BY <1>5 DEF StreamInv
<1>7. OneInv' /\ \A t \in Sources \ {s} : source[t] = NoSource
  BY <1>5, OneStays
<1>8. OrderInv'
  <2>1. \A x \in SeriesNames : LastAt(data', x) = LastAt(data, x) /\ LastAt(data, x) <= clock'
                               /\ LastAt(data, x) \in Nat
    BY LastIsTime DEF charts, OrderInv
  <2>2. ASSUME NEW t \in Sources, t # s, NEW i \in 1..Len(source'[t].wire)
        PROVE  FALSE
    <3>1. source'[t].wire = <<>>
      BY <1>5, <1>7, <2>2 DEF NoSource
    <3> QED
      BY <3>1
  <2>3. ASSUME NEW i \in 1..Len(before)
        PROVE  /\ before[i].at \in Nat /\ before[i].at <= clock
               /\ \A x \in SeriesNames : LastAt(data, x) <= before[i].at
               /\ \A j \in i..Len(before) : before[i].at <= before[j].at
    <3>1. before = source[s].wire
      BY <1>3
    <3>2. before[i] \in Events
      BY <1>2
    <3> QED
      BY <3>1, <3>2 DEF OrderInv, Events
  <2>4. ASSUME NEW i \in 1..Len(w)
        PROVE  /\ w[i].at <= clock'
               /\ \A x \in SeriesNames : LastAt(data', x) <= w[i].at
               /\ \A j \in i..Len(w) : w[i].at <= w[j].at
    <3>1. CASE i = Len(w)
      BY <1>1, <1>3, <2>1, <3>1
    <3>2. CASE i # Len(w)
      <4>1. i \in 1..Len(before) /\ w[i] = before[i]
        BY <1>3, <3>2
      <4>2. ASSUME NEW j \in i..Len(w) PROVE w[i].at <= w[j].at
        <5>1. CASE j = Len(w)
          BY <1>1, <1>3, <2>3, <4>1, <5>1
        <5>2. CASE j # Len(w)
          <6>1. j \in i..Len(before) /\ w[j] = before[j]
            BY <1>3, <4>1, <4>2, <5>2, SMTT(30)
          <6> QED
            BY <2>3, <4>1, <6>1
        <5> QED
          BY <5>1, <5>2
      <4> QED
        BY <2>1, <2>3, <4>1, <4>2
    <3> QED
      BY <3>1, <3>2
  <2>5. source'[s].wire = w
    BY <1>4, <1>5
  <2> QED
    BY <2>1, <2>2, <2>4, <2>5 DEF OrderInv
<1>9. ServerInv' /\ LoadingInv' /\ ChartsInv' /\ AlarmInv'
  BY DEF charts, alarm, ServerInv, LoadingInv, ChartsInv, AlarmInv, Alarm
<1> QED
  BY <1>6, <1>7, <1>8, <1>9

LEMMA HandleLiveSafe ==
  ASSUME IInv, NEW s \in Sources, HandleLive(s)
  PROVE  IInv'
<1>1. source[s] # NoSource
  BY DEF HandleLive, NoSource
<1>2. source' = [source EXCEPT ![s] = [state |-> "open", wire |-> Append(<<>>, LiveEvent)]]
  BY DEF HandleLive
<1>3. /\ UNCHANGED <<published, clock, historyCall, answer, timers, charts, alarm, faults>>
      /\ backoff' \in 1..MaxBackoff /\ connected' \in BOOLEAN
  BY ChartsAssumption DEF HandleLive, server, loading
<1> QED
  BY <1>1, <1>2, <1>3, EventSent

LEMMA PushEventSafe ==
  ASSUME IInv, NEW s \in Sources, PushEvent(s)
  PROVE  IInv'
<1>1. source[s] # NoSource /\ source[s] \in Streams /\ source[s].state = "open"
  BY DEF PushEvent, NoSource, IInv, StreamInv
<1>2. source' = [source EXCEPT ![s] =
                   [state |-> "open", wire |-> Append(source[s].wire, LiveEvent)]]
  <2>1. [source[s] EXCEPT !.wire = Append(@, LiveEvent)] =
          [state |-> "open", wire |-> Append(source[s].wire, LiveEvent)]
    <3> DEFINE w == Append(source[s].wire, LiveEvent)
    <3> HIDE DEF w
    <3>1. [source[s] EXCEPT !.wire = w] = [state |-> "open", wire |-> w]
      BY <1>1 DEF Streams
    <3> QED
      BY <3>1 DEF w
  <2> QED
    BY <2>1 DEF PushEvent
<1>3. /\ UNCHANGED <<published, clock, historyCall, answer, timers, charts, alarm, faults>>
      /\ backoff' \in 1..MaxBackoff /\ connected' \in BOOLEAN
      /\ Len(source[s].wire) < MaxWire
  BY DEF PushEvent, server, loading, IInv, StreamInv
<1> QED
  BY <1>1, <1>2, <1>3, EventSent

-----------------------------------------------------------------------------
(* The page                                                                *)

LEMMA LoadPageSafe ==
  ASSUME IInv, LoadPage
  PROVE  IInv'
<1> USE DEF IInv
<1>1. /\ historyCall = "none" /\ historyCall' = "asked"
      /\ UNCHANGED <<published, clock, answer, stream, charts, alarm, faults>>
  BY DEF LoadPage, server
<1>2. OrderInv'
  BY <1>1, OrderAdvances, ChartsAssumption DEF stream, charts, ServerInv
<1> QED
  BY <1>1, <1>2
     DEF stream, charts, alarm, ServerInv, LoadingInv, StreamInv, OneInv, ChartsInv, AlarmInv, Alarm

\* A chart that is filled shows the points and the last label of the history.
LEMMA ChartFilled ==
  ASSUME NEW h, Answered(h), NEW x \in SeriesNames, NEW d,
         d = [i \in 1..Len(h.labels) |-> [at |-> h.labels[i], value |-> h.points[x][i]]]
  PROVE  /\ d \in Seq(Points) /\ Len(d) = Len(h.labels)
         /\ (IF d = <<>> THEN 0 ELSE d[Len(d)].at) = LastLabel(h.labels)
<1>1. h.labels \in Seq(Nat) /\ Len(h.labels) \in Nat
  BY DEF Answered
<1>2. \A i \in 1..Len(h.labels) :
        [at |-> h.labels[i], value |-> h.points[x][i]] \in Points
  BY <1>1 DEF Answered, Points
<1>3. d \in Seq(Points) /\ Len(d) = Len(h.labels)
  BY <1>1, <1>2
<1>4. h.labels # <<>> => d[Len(d)].at = h.labels[Len(h.labels)]
  BY <1>1, <1>3
<1>5. d = <<>> <=> h.labels = <<>>
  BY <1>1, <1>3
<1> QED
  BY <1>3, <1>4, <1>5 DEF LastLabel

LEMMA UpdateChartsSafe ==
  ASSUME IInv, UpdateCharts
  PROVE  IInv' /\ \A x \in SeriesNames : LastAt(data', x) >= LastAt(data, x)
<1> USE DEF IInv
<1>1. /\ historyCall = "answered" /\ historyCall' = "done" /\ answer' = NoAnswer
      /\ Answered(answer) /\ LastLabel(answer.labels) <= clock
      /\ labelsOf' = [x \in SeriesNames |-> Loaded]
      /\ labels' = [labels EXCEPT ![Loaded] = answer.labels]
      /\ UNCHANGED <<published, clock, timers, backoff, connected, alarm, faults>>
  BY DEF UpdateCharts, server, LoadingInv
<1>2. /\ timers = 0
      /\ \A s \in Sources : source[s] = NoSource
      /\ \A x \in SeriesNames : data[x] = <<>>
  BY <1>1 DEF OneInv, ChartsInv
<1>3. StreamInv' /\ OneInv' /\ \A s \in Sources : source'[s].wire = <<>>
  BY <1>1, <1>2, ConnectOne DEF UpdateCharts
<1>4. /\ data' \in [SeriesNames -> Seq(Points)]
      /\ \A x \in SeriesNames :
           Len(data'[x]) <= ChartSize /\ LastAt(data', x) = LastLabel(answer.labels)
  <2>1. data' = [x \in SeriesNames |->
                   [i \in 1..Len(answer.labels) |->
                      [at |-> answer.labels[i], value |-> answer.points[x][i]]]]
    BY DEF UpdateCharts
  <2>2. ASSUME NEW x \in SeriesNames
        PROVE  /\ data'[x] \in Seq(Points)
               /\ Len(data'[x]) = Len(answer.labels)
               /\ LastAt(data', x) = LastLabel(answer.labels)
    <3>1. data'[x] = [i \in 1..Len(answer.labels) |->
                        [at |-> answer.labels[i], value |-> answer.points[x][i]]]
      BY <2>1
    <3> DEFINE d == data'[x]
    <3> HIDE DEF d
    <3>2. /\ d \in Seq(Points) /\ Len(d) = Len(answer.labels)
          /\ (IF d = <<>> THEN 0 ELSE d[Len(d)].at) = LastLabel(answer.labels)
      BY <1>1, <3>1, ChartFilled DEF d
    <3> QED
      BY <3>2 DEF LastAt, d
  <2>3. Len(answer.labels) <= HistorySize /\ Len(answer.labels) \in Nat
    BY <1>1 DEF Answered
  <2>4. data' = [x \in SeriesNames |-> data'[x]]
    BY <2>1
  <2> QED
    BY <2>2, <2>3, <2>4, ChartsAssumption
<1>5. ChartsInv'
  BY <1>1, <1>4 DEF ChartsInv
<1>6. OrderInv'
  BY <1>1, <1>3, <1>4 DEF OrderInv
<1>7. LastLabel(answer.labels) \in Nat
  <2>1. answer.labels # <<>> => answer.labels[Len(answer.labels)] \in Nat
    BY <1>1 DEF Answered
  <2> QED
    BY <2>1 DEF LastLabel
<1>8. \A x \in SeriesNames : LastAt(data', x) >= LastAt(data, x)
  BY <1>2, <1>4, <1>7 DEF LastAt
<1>9. ServerInv' /\ LoadingInv' /\ AlarmInv'
  BY <1>1 DEF alarm, ServerInv, LoadingInv, AlarmInv, Alarm
<1> QED
  BY <1>1, <1>3, <1>5, <1>6, <1>8, <1>9

\* A chart that takes up an event shows it last.
LEMMA PointAppended ==
  ASSUME NEW d \in Seq(Points), Len(d) <= ChartSize, NEW p \in Points
  PROVE  LET longer == Append(d, p)
             new    == IF Len(d) >= ChartSize THEN Tail(longer) ELSE longer
         IN  /\ new \in Seq(Points) /\ Len(new) <= ChartSize
             /\ new # <<>> /\ new[Len(new)] = p
<1> DEFINE longer == Append(d, p)
           new    == IF Len(d) >= ChartSize THEN Tail(longer) ELSE longer
<1>1. /\ longer \in Seq(Points) /\ longer # <<>>
      /\ Len(longer) = Len(d) + 1 /\ longer[Len(d) + 1] = p /\ Len(d) \in Nat
  OBVIOUS
<1> HIDE DEF longer
<1>2. CASE Len(d) >= ChartSize
  <2>1. /\ Tail(longer) \in Seq(Points) /\ Len(Tail(longer)) = Len(longer) - 1
        /\ \A i \in 1..Len(Tail(longer)) : Tail(longer)[i] = longer[i + 1]
    BY <1>1, HeadTailProperties
  <2>2. new = Tail(longer) /\ Len(d) \in 1..ChartSize
    BY <1>1, <1>2, ChartsAssumption
  <2> HIDE DEF new
  <2>3. Len(new) = Len(d) /\ new[Len(d)] = p /\ new # <<>>
    BY <1>1, <2>1, <2>2
  <2> QED
    BY <2>1, <2>2, <2>3 DEF new, longer
<1>3. CASE ~(Len(d) >= ChartSize)
  BY <1>1, <1>3, ChartsAssumption DEF longer
<1> QED
  BY <1>2, <1>3

\* The event taken off the wire is the oldest of those under way.
LEMMA OnMessageSafe ==
  ASSUME IInv, NEW s \in Sources, OnMessage(s)
  PROVE  IInv' /\ \A x \in SeriesNames : LastAt(data', x) >= LastAt(data, x)
<1> USE DEF IInv
<1> DEFINE w == source[s].wire
           e == Head(w)
           r == [source[s] EXCEPT !.wire = Tail(w)]
<1>1. /\ w # <<>> /\ AppendPoints(e) /\ RaiseAlarm(e) /\ handled' = e
      /\ source' = [source EXCEPT ![s] = r]
      /\ UNCHANGED <<published, clock, historyCall, answer, timers, backoff, connected,
                     labelsOf, faults>>
  BY DEF OnMessage, server, loading
<1>2. /\ source[s] \in Streams /\ w \in Seq(Events) /\ Len(w) \in Nat /\ Len(w) <= MaxWire
      /\ clock \in Nat
  BY ChartsAssumption DEF StreamInv, Streams, ServerInv
<1>3. /\ e \in Events /\ e = w[1]
      /\ Tail(w) \in Seq(Events) /\ Len(Tail(w)) = Len(w) - 1
      /\ \A i \in 1..Len(Tail(w)) : Tail(w)[i] = w[i + 1]
      /\ Len(w) >= 1
  BY <1>1, <1>2, HeadTailProperties
<1>4. source[s] # NoSource
  BY <1>1 DEF NoSource
<1>5. r \in Streams /\ r.wire = Tail(w)
  BY <1>2, <1>3 DEF Streams
<1>6. /\ source' \in [Sources -> Streams]
      /\ \A t \in Sources : Len(source'[t].wire) <= MaxWire
      /\ \A t \in Sources : source'[t] = IF t = s THEN r ELSE source[t]
  <2> HIDE DEF r
  <2>1. Len(r.wire) <= MaxWire
    BY <1>2, <1>3, <1>5, ChartsAssumption
  <2> QED
    BY <1>1, <1>5, <2>1, SourceBecomes
<1>7. OneInv' /\ historyCall = "done" /\ \A t \in Sources \ {s} : source[t] = NoSource
  <2> HIDE DEF r
  <2> QED
    BY <1>1, <1>4, <1>6, OneStays
<1> HIDE DEF r, e
<1>8. /\ data' \in [SeriesNames -> Seq(Points)]
      /\ \A x \in SeriesNames : Len(data'[x]) <= ChartSize /\ LastAt(data', x) = e.at
  <2>1. ASSUME NEW x \in SeriesNames
        PROVE  /\ data'[x] \in Seq(Points) /\ Len(data'[x]) <= ChartSize
               /\ LastAt(data', x) = e.at
    <3> DEFINE p == [at |-> e.at, value |-> e.value[x]]
    <3>1. p \in Points /\ p.at = e.at
      BY <1>3 DEF Events, Points
    <3> HIDE DEF p
    <3>2. data[x] \in Seq(Points) /\ Len(data[x]) <= ChartSize
      BY DEF ChartsInv
    <3>3. data'[x] = IF Len(data[x]) >= ChartSize THEN Tail(Append(data[x], p))
                                                ELSE Append(data[x], p)
      BY <1>1 DEF AppendPoints, p
    <3>4. /\ data'[x] \in Seq(Points) /\ Len(data'[x]) <= ChartSize
          /\ data'[x] # <<>> /\ data'[x][Len(data'[x])] = p
      BY <3>1, <3>2, <3>3, PointAppended
    <3> QED
      BY <3>1, <3>4 DEF LastAt
  <2>2. data' = [x \in SeriesNames |-> data'[x]]
    BY <1>1 DEF AppendPoints
  <2> QED
    BY <2>1, <2>2
<1>9. \A x \in SeriesNames : LastAt(data', x) >= LastAt(data, x)
  <2>1. \A x \in SeriesNames : LastAt(data, x) <= w[1].at
    BY <1>2, <1>3 DEF OrderInv
  <2>2. w[1].at \in Nat
    BY <1>3 DEF Events
  <2> QED
    BY <1>3, <1>8, <2>1, <2>2, LastIsTime
<1>10. OrderInv'
  <2>1. e.at <= clock'
    BY <1>1, <1>2, <1>3 DEF OrderInv
  <2>2. ASSUME NEW i \in 1..Len(Tail(w))
        PROVE  /\ Tail(w)[i].at <= clock'
               /\ e.at <= Tail(w)[i].at
               /\ \A j \in i..Len(Tail(w)) : Tail(w)[i].at <= Tail(w)[j].at
    <3>1. i + 1 \in 1..Len(w) /\ Tail(w)[i] = w[i + 1]
      BY <1>2, <1>3
    <3>2. \A j \in i..Len(Tail(w)) : j + 1 \in i + 1 .. Len(w) /\ Tail(w)[j] = w[j + 1]
      BY <1>2, <1>3
    <3>3. w[i + 1].at <= clock /\ \A j \in i + 1 .. Len(w) : w[i + 1].at <= w[j].at
      BY <3>1 DEF OrderInv
    <3>4. 1 \in 1..Len(w) /\ i + 1 \in 1..Len(w)
      BY <1>2, <1>3, <3>1
    <3>5. w[1].at <= w[i + 1].at
      BY <3>4 DEF OrderInv
    <3> QED
      BY <1>1, <1>3, <3>1, <3>2, <3>3, <3>5
  <2>3. source'[s].wire = Tail(w)
    BY <1>5, <1>6
  <2>4. \A t \in Sources \ {s} : source'[t].wire = <<>>
    BY <1>6, <1>7 DEF NoSource
  <2>5. \A t \in Sources \ {s} : 1..Len(source'[t].wire) = {}
    BY <2>4
  <2> HIDE DEF w
  <2> QED
    BY <1>8, <2>1, <2>2, <2>3, <2>5 DEF OrderInv
<1>11. AlarmInv'
  <2>1. Alarm(e) \subseteq SeriesNames \X Int
    BY <1>3, ChartsAssumption DEF Alarm, Events
  <2>2. toasted' \in BOOLEAN
    BY <1>1 DEF RaiseAlarm
  <2>3. lastCritical' = Alarm(e) /\ handled' = e
    BY <1>1 DEF RaiseAlarm
  <2>4. lastCritical' = Alarm(handled')
    BY <2>3
  <2>5. handled' \in Events /\ lastCritical' \subseteq SeriesNames \X Int
    BY <1>3, <2>1, <2>3
  <2> QED
    BY <2>2, <2>4, <2>5, Zenon DEF AlarmInv
<1>12. ChartsInv'
  <2>1. DOMAIN labels' = DOMAIN labels
    BY <1>1 DEF AppendPoints
  <2> QED
    BY <1>1, <1>7, <1>8, <2>1 DEF ChartsInv
<1>13. ServerInv' /\ LoadingInv' /\ StreamInv'
  BY <1>1, <1>6 DEF ServerInv, LoadingInv, StreamInv
<1> QED
  BY <1>1, <1>7, <1>9, <1>10, <1>11, <1>12, <1>13

\* A stream that is closed, or broken, delivers no more than it had.
LEMMA StreamEnds ==
  ASSUME IInv, NEW s \in Sources, NEW r \in Streams, source[s] # NoSource,
         source' = [source EXCEPT ![s] = r],
         Len(r.wire) <= Len(source[s].wire),
         \A i \in 1..Len(r.wire) : r.wire[i] = source[s].wire[i],
         UNCHANGED <<clock, charts, historyCall>>
  PROVE  /\ OrderInv'
         /\ \A t \in Sources : source'[t] = IF t = s THEN r ELSE source[t]
         /\ source' \in [Sources -> Streams]
         /\ \A t \in Sources : Len(source'[t].wire) <= MaxWire
         /\ timers = 0 /\ historyCall = "done"
         /\ \A t \in Sources \ {s} : source[t] = NoSource
<1> USE DEF IInv
<1>1. clock \in Nat /\ Len(source[s].wire) <= MaxWire /\ Len(source[s].wire) \in Nat
      /\ Len(r.wire) \in Nat
  BY ChartsAssumption DEF ServerInv, StreamInv, Streams
<1>2. /\ source' \in [Sources -> Streams]
      /\ \A t \in Sources : Len(source'[t].wire) <= MaxWire
      /\ \A t \in Sources : source'[t] = IF t = s THEN r ELSE source[t]
  <2>1. Len(r.wire) <= MaxWire
    BY <1>1, ChartsAssumption
  <2> QED
    BY <2>1, SourceBecomes
<1>3. \A t \in Sources :
        /\ Len(source'[t].wire) <= Len(source[t].wire)
        /\ \A i \in 1..Len(source'[t].wire) : source'[t].wire[i] = source[t].wire[i]
  <2> SUFFICES ASSUME NEW t \in Sources
               PROVE  /\ Len(source'[t].wire) <= Len(source[t].wire)
                      /\ \A i \in 1..Len(source'[t].wire) : source'[t].wire[i] = source[t].wire[i]
    OBVIOUS
  <2>1. CASE t = s
    BY <1>2, <2>1
  <2>2. CASE t # s
    <3>1. source'[t] = source[t] /\ Len(source[t].wire) \in Nat
      BY <1>2, <2>2 DEF StreamInv, Streams
    <3> QED
      BY <3>1
  <2> QED
    BY <2>1, <2>2
<1>4. OrderInv'
  <2>1. \A x \in SeriesNames : LastAt(data, x) \in Nat /\ LastAt(data', x) = LastAt(data, x)
    BY LastIsTime DEF charts
  <2>2. clock' \in Nat /\ clock <= clock'
    BY <1>1
  <2> QED
    BY <1>1, <1>2, <1>3, <2>1, <2>2, OrderStays
<1> QED
  BY <1>2, <1>4 DEF OneInv

LEMMA OnErrorSafe ==
  ASSUME IInv, NEW s \in Sources, OnError(s)
  PROVE  IInv'
<1> USE DEF IInv
<1>1. /\ source' = [source EXCEPT ![s] = NoSource] /\ timers' = timers + 1
      /\ connected' = FALSE /\ backoff' = Lesser(2 * backoff, MaxBackoff)
      /\ UNCHANGED <<published, clock, historyCall, answer, charts, alarm, faults>>
  BY DEF OnError, server, loading
<1>2. source[s] # NoSource /\ source[s].wire = <<>>
  BY DEF OnError, NoSource
<1>3. NoSource \in Streams /\ NoSource.wire = <<>> /\ Len(<<>>) = 0
  BY DEF NoSource, Streams
<1>4. /\ OrderInv'
      /\ \A t \in Sources : source'[t] = IF t = s THEN NoSource ELSE source[t]
      /\ source' \in [Sources -> Streams]
      /\ \A t \in Sources : Len(source'[t].wire) <= MaxWire
      /\ timers = 0 /\ historyCall = "done"
      /\ \A t \in Sources \ {s} : source[t] = NoSource
  <2>1. Len(NoSource.wire) <= Len(source[s].wire)
    BY <1>2, <1>3
  <2>2. \A i \in 1..Len(NoSource.wire) : NoSource.wire[i] = source[s].wire[i]
    BY <1>3
  <2> QED
    BY <1>1, <1>2, <1>3, <2>1, <2>2, StreamEnds
<1>5. backoff' \in 1..MaxBackoff
  BY <1>1, ChartsAssumption DEF StreamInv, Lesser
<1>6. StreamInv' /\ OneInv'
  <2>1. connected' \in BOOLEAN
    BY <1>1, Zenon
  <2>2. StreamInv'
    BY <1>4, <1>5, <2>1 DEF StreamInv
  <2>3. OneInv'
    BY <1>1, <1>4 DEF OneInv
  <2> QED
    BY <2>2, <2>3
<1> QED
  BY <1>1, <1>4, <1>6
     DEF charts, alarm, ServerInv, LoadingInv, ChartsInv, AlarmInv, Alarm

LEMMA DisconnectSafe ==
  ASSUME IInv, NEW s \in Sources, Disconnect(s)
  PROVE  IInv'
<1> USE DEF IInv
<1>1. PICK n \in 0..Len(source[s].wire) : source' = [source EXCEPT ![s] = Broken(source[s], n)]
  BY DEF Disconnect
<1>2. /\ faults' \in 0..MaxFaults
      /\ UNCHANGED <<published, clock, historyCall, answer, timers, backoff, connected,
                     charts, alarm>>
  BY ChartsAssumption DEF Disconnect, Fault, server, loading
<1>3. source[s] # NoSource /\ source[s] \in Streams /\ n \in Nat
  BY DEF Disconnect, NoSource, StreamInv, Streams
<1> DEFINE r == Broken(source[s], n)
<1>4. /\ r \in Streams /\ r # NoSource /\ Len(r.wire) <= Len(source[s].wire)
      /\ \A i \in 1..Len(r.wire) : r.wire[i] = source[s].wire[i]
  BY <1>3, BrokenDelivers
<1>5. source' = [source EXCEPT ![s] = r]
  BY <1>1
<1> HIDE DEF r
<1>6. /\ OrderInv'
      /\ \A t \in Sources : source'[t] = IF t = s THEN r ELSE source[t]
      /\ source' \in [Sources -> Streams]
      /\ \A t \in Sources : Len(source'[t].wire) <= MaxWire
  BY <1>2, <1>3, <1>4, <1>5, StreamEnds
<1>7. OneInv'
  BY <1>2, <1>3, <1>6, OneStays
<1> QED
  BY <1>2, <1>6, <1>7
     DEF charts, alarm, ServerInv, LoadingInv, StreamInv, ChartsInv, AlarmInv, Alarm

LEMMA TimeoutSafe ==
  ASSUME IInv, Timeout
  PROVE  IInv'
<1> USE DEF IInv
<1>1. /\ timers > 0 /\ timers' = timers - 1 /\ ConnectSSE
      /\ UNCHANGED <<published, clock, historyCall, answer, backoff, connected,
                     charts, alarm, faults>>
  BY DEF Timeout, server, loading
<1>2. /\ timers = 1 /\ timers' = 0 /\ historyCall = "done"
      /\ \A s \in Sources : source[s] = NoSource
  BY <1>1 DEF OneInv
<1>3. StreamInv' /\ OneInv' /\ \A s \in Sources : source'[s].wire = <<>>
  BY <1>1, <1>2, ConnectOne
<1>4. OrderInv'
  <2>1. \A s \in Sources : 1..Len(source'[s].wire) = {}
    BY <1>3
  <2> QED
    BY <1>1, <2>1 DEF OrderInv, LastAt, charts
<1> QED
  BY <1>1, <1>3, <1>4
     DEF charts, alarm, ServerInv, LoadingInv, ChartsInv, AlarmInv, Alarm

-----------------------------------------------------------------------------
(* What may fail                                                           *)

LEMMA LoseHistorySafe ==
  ASSUME IInv, LoseHistory
  PROVE  IInv'
<1> USE DEF IInv
<1>1. /\ historyCall # "done" /\ historyCall' = "done" /\ answer' = NoAnswer
      /\ faults' \in 0..MaxFaults /\ ConnectSSE
      /\ UNCHANGED <<published, clock, timers, backoff, connected, charts, alarm>>
  BY ChartsAssumption DEF LoseHistory, Fault, server
<1>2. timers = 0 /\ \A s \in Sources : source[s] = NoSource
  BY <1>1 DEF OneInv
<1>3. StreamInv' /\ OneInv' /\ \A s \in Sources : source'[s].wire = <<>>
  BY <1>1, <1>2, ConnectOne
<1>4. OrderInv'
  <2>1. \A s \in Sources : 1..Len(source'[s].wire) = {}
    BY <1>3
  <2> QED
    BY <1>1, <2>1 DEF OrderInv, LastAt, charts
<1> QED
  BY <1>1, <1>3, <1>4
     DEF charts, alarm, ServerInv, LoadingInv, ChartsInv, AlarmInv, Alarm

\* A restart of the program breaks the stream that is open.
LEMMA RestartSafe ==
  ASSUME IInv, Restart
  PROVE  IInv'
<1> USE DEF IInv
<1>1. /\ published' = <<>> /\ faults' \in 0..MaxFaults
      /\ UNCHANGED <<clock, historyCall, answer, timers, backoff, connected, charts, alarm>>
  BY ChartsAssumption DEF Restart, Fault, loading
<1>2. PICK n \in 0..MaxWire :
        source' = [s \in Sources |->
          IF source[s].state = "open" THEN Broken(source[s], n) ELSE source[s]]
  BY DEF Restart
<1>3. ASSUME NEW s \in Sources
      PROVE  /\ source'[s] \in Streams
             /\ source'[s] # NoSource <=> source[s] # NoSource
             /\ Len(source'[s].wire) <= Len(source[s].wire)
             /\ \A i \in 1..Len(source'[s].wire) : source'[s].wire[i] = source[s].wire[i]
  <2>1. source[s] \in Streams /\ n \in Nat /\ Len(source[s].wire) \in Nat
    BY ChartsAssumption DEF StreamInv, Streams
  <2>2. CASE source[s].state = "open"
    <3>1. source'[s] = Broken(source[s], n) /\ source[s] # NoSource
      BY <1>2, <2>2 DEF NoSource
    <3> QED
      BY <2>1, <3>1, BrokenDelivers
  <2>3. CASE source[s].state # "open"
    <3>1. source'[s] = source[s]
      BY <1>2, <2>3
    <3> QED
      BY <2>1, <3>1
  <2> QED
    BY <2>2, <2>3
<1>4. source' \in [Sources -> Streams]
  <2>1. source' = [s \in Sources |-> source'[s]]
    BY <1>2
  <2> QED
    BY <1>3, <2>1
<1>5. OrderInv'
  <2>1. \A x \in SeriesNames : LastAt(data, x) \in Nat /\ LastAt(data', x) = LastAt(data, x)
    BY <1>1, LastIsTime DEF charts
  <2>2. clock \in Nat /\ clock' \in Nat /\ clock <= clock'
    BY <1>1, ChartsAssumption DEF ServerInv
  <2> QED
    BY <1>3, <1>4, <2>1, <2>2, OrderStays
<1>6. StreamInv'
  <2>1. ASSUME NEW s \in Sources PROVE Len(source'[s].wire) <= MaxWire
    <3>1. Len(source'[s].wire) \in Nat /\ Len(source[s].wire) \in Nat
      BY <1>3 DEF StreamInv, Streams
    <3> QED
      BY <1>3, <3>1, ChartsAssumption DEF StreamInv
  <2> QED
    BY <1>1, <1>4, <2>1 DEF StreamInv
<1>7. OneInv'
  BY <1>1, <1>3 DEF OneInv
<1>8. ServerInv'
  BY <1>1 DEF ServerInv
<1> QED
  BY <1>1, <1>5, <1>6, <1>7, <1>8 DEF charts, alarm, LoadingInv, ChartsInv, AlarmInv, Alarm

-----------------------------------------------------------------------------
(* What follows                                                            *)

LEMMA NextIInv == IInv /\ [Next]_vars => IInv'
<1> SUFFICES ASSUME IInv, [Next]_vars PROVE IInv'
  OBVIOUS
<1>1. ASSUME NEW s \in Snapshots, Publish(s) PROVE IInv'
  BY <1>1, PublishSafe
<1>2. CASE HandleHistory \/ LoadPage \/ UpdateCharts \/ Timeout \/ LoseHistory \/ Restart
  BY <1>2, HandleHistorySafe, LoadPageSafe, UpdateChartsSafe, TimeoutSafe, LoseHistorySafe,
     RestartSafe
<1>3. ASSUME NEW s \in Sources,
             HandleLive(s) \/ PushEvent(s) \/ OnMessage(s) \/ OnError(s) \/ Disconnect(s)
      PROVE  IInv'
  BY <1>3, HandleLiveSafe, PushEventSafe, OnMessageSafe, OnErrorSafe, DisconnectSafe
<1>4. CASE UNCHANGED vars
  <2>1. UNCHANGED <<published, clock, historyCall, answer, source, timers, backoff, connected,
                    data, labelsOf, labels, lastCritical, handled, toasted, faults>>
    BY <1>4 DEF vars, server, loading, stream, charts, alarm
  <2> QED
    BY <2>1 DEF IInv, ServerInv, LoadingInv, StreamInv, OneInv, ChartsInv, OrderInv, AlarmInv,
       LastAt, Alarm
<1> QED
  BY <1>1, <1>2, <1>3, <1>4 DEF Next

LEMMA Invariance == Spec => []IInv
  BY InitIInv, NextIInv, PTL DEF Spec

\* Server, stream and page keep to their types: in particular no chart holds
\* more points than ChartSize, no stream more events than fit, and the pause is
\* never longer than the longest one (index.html, appendPoint, connectSSE).
THEOREM TypeCorrect == Spec => []TypeOK
<1>1. IInv => TypeOK
  <2> SUFFICES ASSUME IInv PROVE TypeOK
    OBVIOUS
  <2> USE DEF IInv
  <2>1. \A i \in DOMAIN published : published[i] \in Snapshots
    BY DEF ServerInv
  <2>2. answer.kind = IF historyCall = "answered" THEN "history" ELSE "none"
    BY DEF LoadingInv, Answered, NoAnswer
  <2>3. \A s \in Sources :
          /\ source[s].state \in {"none", "connecting", "open", "broken"}
          /\ Len(source[s].wire) <= MaxWire
          /\ \A i \in DOMAIN source[s].wire : source[s].wire[i] \in Events
    BY DEF StreamInv, Streams
  <2>4. \A x \in SeriesNames :
          /\ Len(data[x]) <= ChartSize
          /\ \A i \in DOMAIN data[x] : data[x][i] \in [at : Nat, value : Int]
    <3> SUFFICES ASSUME NEW x \in SeriesNames
                 PROVE  /\ Len(data[x]) <= ChartSize
                        /\ \A i \in DOMAIN data[x] : data[x][i] \in Points
      BY DEF Points
    <3> QED
      BY DEF ChartsInv
  <2>5. timers \in Nat
    BY DEF OneInv
  <2> QED
    BY <2>1, <2>2, <2>3, <2>4, <2>5
       DEF TypeOK, ServerInv, LoadingInv, StreamInv, ChartsInv, AlarmInv
<1> QED
  BY <1>1, Invariance, PTL

\* The page is never fed twice, however often connections are lost: there is one
\* stream, or one timeout pending that will open one (index.html, connectSSE).
THEOREM OneStreamAtATime == Spec => []OneStream
<1>1. IInv => OneStream
  <2> SUFFICES ASSUME IInv PROVE OneStream
    OBVIOUS
  <2> DEFINE S == {s \in Sources : source[s] # NoSource}
  <2>1. CASE S = {}
    <3>1. Cardinality(S) = 0
      BY <2>1, FS_EmptySet
    <3> QED
      BY <3>1 DEF IInv, OneInv, OneStream
  <2>2. CASE S # {}
    <3>1. PICK s \in Sources : S = {s}
      BY <2>2 DEF IInv, OneInv
    <3>2. Cardinality(S) = 1
      BY <3>1, FS_Singleton
    <3>3. timers = 0
      BY <3>1 DEF IInv, OneInv
    <3> QED
      BY <3>2, <3>3 DEF OneStream
  <2> QED
    BY <2>1, <2>2
<1> QED
  BY <1>1, Invariance, PTL

\* No chart ever goes back in time: what is on the wire is no older than what
\* the charts show, and the history is loaded before any stream is opened
\* (index.html:969, loadHistory().then(connectSSE)).
THEOREM ChartsAdvance == Spec => NeverGoesBack
<1> DEFINE Advance == \A x \in SeriesNames : LastAt(data', x) >= LastAt(data, x)
<1>1. IInv /\ [Next]_vars => [Advance]_vars
  <2> SUFFICES ASSUME IInv, Next PROVE Advance
    OBVIOUS
  <2>1. CASE UpdateCharts
    BY <2>1, UpdateChartsSafe
  <2>2. ASSUME NEW s \in Sources, OnMessage(s) PROVE Advance
    BY <2>2, OnMessageSafe
  <2>3. CASE UNCHANGED data
    <3>1. \A x \in SeriesNames : LastAt(data', x) = LastAt(data, x) /\ LastAt(data, x) \in Nat
      BY <2>3, LastIsTime DEF IInv
    <3> QED
      BY <3>1
  <2> QED
    BY <2>1, <2>2, <2>3
       DEF Next, charts, Publish, HandleHistory, LoadPage, Timeout, LoseHistory, Restart,
           HandleLive, PushEvent, OnError, Disconnect
<1> QED
  BY <1>1, Invariance, PTL DEF Spec, NeverGoesBack

\* Each time a metric becomes critical, or is critical with another value than
\* in the event before, the page puts up an alarm (index.html:952-955).
THEOREM AlarmsRaised == Spec => AlarmRaised
<1> DEFINE Raise == /\ handled' # handled
                    /\ Alarm(handled') # NoAlarm
                    /\ Alarm(handled') # Alarm(handled)
                    => toasted'
<1>1. IInv /\ [Next]_vars => [Raise]_vars
  <2> SUFFICES ASSUME IInv, Next, handled' # handled,
                      Alarm(handled') # NoAlarm, Alarm(handled') # Alarm(handled)
               PROVE  toasted'
    OBVIOUS
  <2>1. PICK s \in Sources : OnMessage(s)
    BY DEF Next, alarm, Publish, HandleHistory, LoadPage, Timeout, LoseHistory, Restart,
           HandleLive, PushEvent, OnError, Disconnect, UpdateCharts
  <2>2. handled' = Head(source[s].wire) /\ RaiseAlarm(Head(source[s].wire))
    BY <2>1 DEF OnMessage
  <2>3. toasted' = (Alarm(handled') # NoAlarm /\ Alarm(handled') # lastCritical)
    BY <2>2 DEF RaiseAlarm
  <2>4. Alarm(handled') # lastCritical
    BY DEF IInv, AlarmInv
  <2> QED
    BY <2>3, <2>4, Zenon
<1> QED
  BY <1>1, Invariance, PTL DEF Spec, AlarmRaised
=============================================================================
