----------------------------- MODULE LiveCharts -----------------------------
(***************************************************************************)
(* The live half of the dashboard: the charts of web/index.html, first     *)
(* filled from the history (loadHistory) and then fed by the event stream  *)
(* (connectSSE), and handleHistory and handleLive of dashboard/server.go,  *)
(* which answer from the store as AtomicStore says.                        *)
(*                                                                         *)
(* A point of a chart is kept with the time it was measured, which is what *)
(* its label should say; the scale of the network charts, the sensor table *)
(* and the disk health list, drawn anew from every event, are left out.    *)
(* The stream is opened again after a pause of backoff units; time passes  *)
(* by the pause ending, so its length is kept but bounds nothing.          *)
(***************************************************************************)
EXTENDS Integers, Sequences, FiniteSets

CONSTANTS
  SeriesNames,   \* the charts, and the series they show
  Snapshots,     \* the snapshots the store may ingest
  HistorySize,   \* points of a series the store keeps
  ChartSize,     \* points of a chart the page keeps, 60 in the code
  CriticalFrom,  \* series with an alarm -> the value it is raised from
  MaxBackoff,    \* longest pause, in units of the first one
  Sources,       \* EventSource objects that may exist at a time
  MaxWire,       \* bound on the events under way in a stream
  MaxUpdates,    \* bound on the updates of the store
  MaxFaults      \* bound on failures: lost calls and streams, restarts

ASSUME ChartsAssumption ==
  /\ Snapshots \subseteq [at : Nat, value : [SeriesNames -> Int]]
  /\ DOMAIN CriticalFrom \subseteq SeriesNames
  /\ HistorySize \in Nat \ {0}
  /\ ChartSize \in Nat
  /\ ChartSize >= HistorySize
  /\ MaxBackoff \in Nat \ {0}
  /\ MaxWire \in Nat \ {0}
  /\ MaxUpdates \in Nat
  /\ MaxFaults \in Nat

VARIABLES
  published,     \* the snapshots the store was updated with since it started
  clock,         \* time: the number of snapshots taken so far
  historyCall,   \* loadHistory: "none", "asked", "answered" or "done"
  answer,        \* the history answer on its way to the page
  source,        \* EventSource -> its state, and the events on their way to it
  timers,        \* pending timeouts that will call connectSSE
  backoff,       \* sseBackoff
  connected,     \* the badge: "Live" or "Reconnecting"
  data,          \* chart -> its points
  labelsOf,      \* chart -> the array its labels are kept in
  labels,        \* array -> the labels in it
  lastCritical,  \* the alarm not to be repeated
  handled,       \* history: the last event handled
  toasted,       \* history: that event put up an alarm
  faults         \* failures so far

server  == <<published, clock>>
loading == <<historyCall, answer>>
stream  == <<source, timers, backoff, connected>>
charts  == <<data, labelsOf, labels>>
alarm   == <<lastCritical, handled, toasted>>
vars    == <<server, loading, stream, charts, alarm, faults>>

Store == INSTANCE AtomicStore WITH
  Clients <- {"page"},
  answer  <- [c \in {"page"} |-> answer]

NoAnswer == [kind |-> "none"]
NoEvent  == [at |-> 0, value |-> [x \in SeriesNames |-> 0]]
NoSource == [state |-> "none", wire |-> <<>>]
Loaded   == "loaded"   \* the one array of labels a history answer brings

Lesser(a, b) == IF a < b THEN a ELSE b

\* The event pushEvent writes: before the first update all values are zero and
\* the time is the present one.
LiveEvent ==
  LET live == Store!LiveOf(published)
  IN  [at    |-> IF published = <<>> THEN clock ELSE live.at,
       value |-> [x \in SeriesNames |-> live.sensors[x].value]]

\* The alarm an event calls for: the critical metrics and their values.
NoAlarm == {}
Alarm(e) ==
  {<<x, e.value[x]>> : x \in {y \in DOMAIN CriticalFrom : e.value[y] >= CriticalFrom[y]}}

Init ==
  /\ published = <<>>
  /\ clock = 0
  /\ historyCall = "none"
  /\ answer = NoAnswer
  /\ source = [s \in Sources |-> NoSource]
  /\ timers = 0
  /\ backoff = 1
  /\ connected = FALSE
  /\ data = [x \in SeriesNames |-> <<>>]
  /\ labelsOf = [x \in SeriesNames |-> x]
  /\ labels = [a \in SeriesNames \cup {Loaded} |-> <<>>]
  /\ lastCritical = NoAlarm
  /\ handled = NoEvent
  /\ toasted = FALSE
  /\ faults = 0

-----------------------------------------------------------------------------
(* The program                                                             *)

\* MetricsStore.Update
Publish(s) ==
  /\ clock < MaxUpdates
  /\ s.at = clock + 1
  /\ clock' = s.at
  /\ published' = Append(published, s)
  /\ UNCHANGED <<loading, stream, charts, alarm, faults>>

\* handleHistory
HandleHistory ==
  /\ historyCall = "asked"
  /\ answer' = Store!HistoryOf(published)
  /\ historyCall' = "answered"
  /\ UNCHANGED <<server, stream, charts, alarm, faults>>

\* handleLive is called, and pushes its first event at once.  The page hears of
\* the connection with it: onopen.
HandleLive(s) ==
  /\ source[s].state = "connecting"
  /\ source' = [source EXCEPT ![s] = [state |-> "open", wire |-> <<LiveEvent>>]]
  /\ connected' = TRUE
  /\ backoff' = 1
  /\ UNCHANGED <<server, loading, timers, charts, alarm, faults>>

\* A tick of handleLive: pushEvent.  It blocks while the client does not read.
PushEvent(s) ==
  /\ source[s].state = "open"
  /\ Len(source[s].wire) < MaxWire
  /\ source' = [source EXCEPT ![s].wire = Append(@, LiveEvent)]
  /\ UNCHANGED <<server, loading, timers, backoff, connected, charts, alarm, faults>>

-----------------------------------------------------------------------------
(* The page                                                                *)

\* loadHistory and connectSSE started side by side.
MutLoadPageConnects ==
  /\ historyCall = "none"
  /\ historyCall' = "asked"
  /\ \E s \in Sources :
       source' = [source EXCEPT ![s].state = "connecting"]
  /\ UNCHANGED <<server, answer, timers, backoff, connected, charts, alarm, faults>>

\* The script of the page starts: loadHistory().
LoadPage ==
  /\ historyCall = "none"
  /\ historyCall' = "asked"
  /\ UNCHANGED <<server, answer, stream, charts, alarm, faults>>

\* connectSSE: a new EventSource.
ConnectSSE ==
  \E s \in Sources :
    /\ source[s] = NoSource
    /\ source' = [source EXCEPT ![s].state = "connecting"]

\* The answer to loadHistory arrives.  Every chart takes its series for data,
\* and the very array of labels that all of them take.
UpdateCharts ==
  /\ historyCall = "answered"
  /\ historyCall' = "done"
  /\ answer' = NoAnswer
  /\ data' = [x \in SeriesNames |->
       [i \in 1..Len(answer.labels) |->
          [at |-> answer.labels[i], value |-> answer.points[x][i]]]]
  /\ labelsOf' = [x \in SeriesNames |-> Loaded]
  /\ labels' = [labels EXCEPT ![Loaded] = answer.labels]
  /\ ConnectSSE
  /\ UNCHANGED <<server, timers, backoff, connected, alarm, faults>>

\* Points are pushed and never shifted.
MutAppendPointsUnbounded(e) ==
  /\ data' = [x \in SeriesNames |->
       Append(data[x], [at |-> e.at, value |-> e.value[x]])]
  /\ labels' = [a \in DOMAIN labels |->
       LET sharers == {x \in SeriesNames : labelsOf[x] = a}
       IN  labels[a] \o [i \in 1..Cardinality(sharers) |-> e.at]]

\* appendPoint, chart after chart: each pushes the point and the label, and
\* shifts both when it then has more points than ChartSize.
AppendPoints(e) ==
  LET Full(x) == Len(data[x]) >= ChartSize
  IN
  /\ data' = [x \in SeriesNames |->
       LET longer == Append(data[x], [at |-> e.at, value |-> e.value[x]])
       IN  IF Full(x) THEN Tail(longer) ELSE longer]
  /\ labels' = [a \in DOMAIN labels |->
       LET sharers == {x \in SeriesNames : labelsOf[x] = a}
           longer  == labels[a] \o [i \in 1..Cardinality(sharers) |-> e.at]
           shifts  == Cardinality({x \in sharers : Full(x)})
       IN  SubSeq(longer, shifts + 1, Len(longer))]

\* An event without an alarm leaves the last one in place.
MutRaiseAlarmSticky(e) ==
  /\ lastCritical' = IF Alarm(e) = NoAlarm THEN lastCritical ELSE Alarm(e)
  /\ toasted' = (Alarm(e) # NoAlarm /\ Alarm(e) # lastCritical)

\* The alarm is put up unless it is the last one; an event without one ends it.
RaiseAlarm(e) ==
  /\ lastCritical' = Alarm(e)
  /\ toasted' = (Alarm(e) # NoAlarm /\ Alarm(e) # lastCritical)

\* onmessage
OnMessage(s) ==
  /\ source[s].wire # <<>>
  /\ LET e == Head(source[s].wire)
     IN  /\ AppendPoints(e)
         /\ RaiseAlarm(e)
         /\ handled' = e
  /\ source' = [source EXCEPT ![s].wire = Tail(@)]
  /\ UNCHANGED <<server, loading, timers, backoff, connected, labelsOf, faults>>

\* The EventSource is left open, and connects again by itself.
MutOnErrorKeepsSource(s) ==
  /\ source[s].state = "broken"
  /\ source[s].wire = <<>>
  /\ source' = [source EXCEPT ![s].state = "connecting"]
  /\ timers' = timers + 1
  /\ connected' = FALSE
  /\ backoff' = Lesser(2 * backoff, MaxBackoff)
  /\ UNCHANGED <<server, loading, charts, alarm, faults>>

\* The page does not try again.
MutOnErrorGivesUp(s) ==
  /\ source[s].state = "broken"
  /\ source[s].wire = <<>>
  /\ source' = [source EXCEPT ![s] = NoSource]
  /\ connected' = FALSE
  /\ backoff' = Lesser(2 * backoff, MaxBackoff)
  /\ UNCHANGED <<server, loading, timers, charts, alarm, faults>>

\* onerror, when the events that did arrive have been handled.
OnError(s) ==
  /\ source[s].state = "broken"
  /\ source[s].wire = <<>>
  /\ source' = [source EXCEPT ![s] = NoSource]
  /\ timers' = timers + 1
  /\ connected' = FALSE
  /\ backoff' = Lesser(2 * backoff, MaxBackoff)
  /\ UNCHANGED <<server, loading, charts, alarm, faults>>

\* The timeout set by onerror.
Timeout ==
  /\ timers > 0
  /\ timers' = timers - 1
  /\ ConnectSSE
  /\ UNCHANGED <<server, loading, backoff, connected, charts, alarm, faults>>

-----------------------------------------------------------------------------
(* What may fail                                                           *)

Fault ==
  /\ faults < MaxFaults
  /\ faults' = faults + 1

\* The call of loadHistory, or its answer, is lost or refused; the page goes on
\* without a history.
LoseHistory ==
  /\ Fault
  /\ historyCall \in {"asked", "answered"}
  /\ historyCall' = "done"
  /\ answer' = NoAnswer
  /\ ConnectSSE
  /\ UNCHANGED <<server, timers, backoff, connected, charts, alarm>>

\* A stream after its connection was lost: the first n events did arrive.
Broken(src, n) ==
  [state |-> "broken", wire |-> SubSeq(src.wire, 1, Lesser(n, Len(src.wire)))]

\* A connection is refused or lost; its handler ends.
Disconnect(s) ==
  /\ Fault
  /\ source[s].state \in {"connecting", "open"}
  /\ \E n \in 0..Len(source[s].wire) :
       source' = [source EXCEPT ![s] = Broken(@, n)]
  /\ UNCHANGED <<server, loading, timers, backoff, connected, charts, alarm>>

\* The program is started again: the store is empty, open streams are lost.
Restart ==
  /\ Fault
  /\ published' = <<>>
  /\ \E n \in 0..MaxWire :
       source' = [s \in Sources |->
         IF source[s].state = "open" THEN Broken(source[s], n) ELSE source[s]]
  /\ UNCHANGED <<clock, loading, timers, backoff, connected, charts, alarm>>

Next ==
  \/ \E s \in Snapshots : Publish(s)
  \/ HandleHistory
  \/ LoadPage
  \/ UpdateCharts
  \/ Timeout
  \/ LoseHistory
  \/ Restart
  \/ \E s \in Sources :
       HandleLive(s) \/ PushEvent(s) \/ OnMessage(s) \/ OnError(s) \/ Disconnect(s)

Spec == Init /\ [][Next]_vars

\* A call or a connection that is not lost gets through, the ticker of an open
\* stream ticks, timeouts expire, the browser tells of what arrives and of a
\* lost connection.  Updates need never come.
FairSpec ==
  /\ Spec
  /\ WF_vars(LoadPage)
  /\ WF_vars(HandleHistory)
  /\ WF_vars(UpdateCharts)
  /\ WF_vars(Timeout)
  /\ \A s \in Sources :
       /\ WF_vars(HandleLive(s))
       /\ WF_vars(PushEvent(s))
       /\ WF_vars(OnMessage(s))
       /\ WF_vars(OnError(s))

-----------------------------------------------------------------------------
Events == [at : Nat, value : [SeriesNames -> Int]]

TypeOK ==
  /\ \A i \in DOMAIN published : published[i] \in Snapshots
  /\ clock \in 0..MaxUpdates
  /\ historyCall \in {"none", "asked", "answered", "done"}
  /\ answer.kind = (IF historyCall = "answered" THEN "history" ELSE "none")
  /\ \A s \in Sources :
       /\ source[s].state \in {"none", "connecting", "open", "broken"}
       /\ Len(source[s].wire) <= MaxWire
       /\ \A i \in DOMAIN source[s].wire : source[s].wire[i] \in Events
  /\ timers \in Nat
  /\ backoff \in 1..MaxBackoff
  /\ connected \in BOOLEAN
  /\ \A x \in SeriesNames :
       /\ Len(data[x]) <= ChartSize
       /\ \A i \in DOMAIN data[x] : data[x][i] \in [at : Nat, value : Int]
  /\ labelsOf \in [SeriesNames -> SeriesNames \cup {Loaded}]
  /\ DOMAIN labels = SeriesNames \cup {Loaded}
  /\ lastCritical \subseteq SeriesNames \X Int
  /\ handled \in Events
  /\ toasted \in BOOLEAN
  /\ faults \in 0..MaxFaults

\* The page is never fed twice: one stream is open, or one attempt to open one
\* is pending, never both or two of either, however often connections are lost
\* (index.html, connectSSE: EventSource also connects again by itself).
OneStream ==
  Cardinality({s \in Sources : source[s] # NoSource}) + timers <= 1

LastAt(d, x) == IF d[x] = <<>> THEN 0 ELSE d[x][Len(d[x])].at

\* A chart never goes back in time: neither the history, answered before the
\* latest events, nor a stream opened again puts an older point last
\* (index.html:969, loadHistory().then(connectSSE)).
NeverGoesBack ==
  [][\A x \in SeriesNames : LastAt(data', x) >= LastAt(data, x)]_vars

\* Each time a metric becomes critical, or is critical with another value than
\* in the event before, the page puts up an alarm (index.html:952-955).
AlarmRaised ==
  [][/\ handled' # handled
     /\ Alarm(handled') # NoAlarm
     /\ Alarm(handled') # Alarm(handled)
     => toasted']_vars

\* The charts catch up: once failures end, every chart comes to show the latest
\* snapshot of the store last, though the history call was lost, the stream
\* broke or the program was started again.
ChartsCatchUp ==
  <>[](published # <<>> =>
         \A x \in SeriesNames : LastAt(data, x) = published[Len(published)].at)

\* The labels of a chart are the times of its points (store.go:72 "History
\* timestamps (used as chart x-axis labels)").
LabelsFit ==
  \A x \in SeriesNames :
    labels[labelsOf[x]] = [i \in 1..Len(data[x]) |-> data[x][i].at]
=============================================================================
