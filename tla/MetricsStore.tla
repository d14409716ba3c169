---------------------------- MODULE MetricsStore ----------------------------
(***************************************************************************)
(* internal/checker/store.go: the monitor goroutine ingests a snapshot     *)
(* (Update) field by field under the write lock, while HTTP handlers copy  *)
(* the fields of a history or a live answer under the read lock.  The lock *)
(* is a sync.RWMutex: a waiting writer keeps new readers out.              *)
(*                                                                         *)
(* The six series are alike and their order of no account, so SeriesNames  *)
(* is any set and they are written and copied in any order.  Of a sensor   *)
(* reading only the sensor it came from is kept.                           *)
(***************************************************************************)
EXTENDS Integers, Sequences

CONSTANTS
  Clients,       \* HTTP handlers
  SeriesNames,   \* CPUTotal, RAM, RootDisk, NetRx, NetTx, TempMain
  Values,        \* the values of a metric
  SensorLists,   \* the lists of sensors, in the order Collect may return them
  HistorySize,
  MaxUpdates     \* bound on the number of updates

Fields == {"Latest", "Timestamps", "TempSensors"}

ASSUME StoreAssumption ==
  /\ SeriesNames \cap (Fields \cup {"labels"}) = {}
  /\ Values \subseteq Int
  /\ HistorySize \in Nat \ {0}
  /\ MaxUpdates \in Nat

\* A snapshot: when it was collected, its metrics, and its sensors in order.
Snapshots == [at : 1..MaxUpdates, value : [SeriesNames -> Values], temps : SensorLists]

VARIABLES
  Latest,       \* the latest snapshot, or NoSnapshot
  Timestamps,
  series,       \* name -> MetricSeries: value, min, max, inited, history
  TempSensors,  \* sequence of NamedMetric: name, and the sensor its value is of
  writer,       \* Update: "idle", "waiting" for the lock or "holding" it
  incoming,     \* the snapshot Update was called with
  todo,         \* what Update has still to write
  request,      \* client -> the answer it is building under the read lock, or "none"
  want,         \* client -> what it has still to copy
  copied,       \* client -> what it copied
  answer,       \* client -> the last answer it got
  published     \* history: the snapshots of all the updates that have returned

vars == <<Latest, Timestamps, series, TempSensors, writer, incoming, todo,
          request, want, copied, answer, published>>

storeData == <<Latest, Timestamps, series, TempSensors>>
clientVars == <<request, want, copied, answer>>

NoSnapshot == [at |-> 0]
NoAnswer   == [kind |-> "none"]

\* append, then keep the tail when the history is longer than HistorySize.
Roll(q, v) ==
  LET longer == Append(q, v)
  IN  IF Len(longer) > HistorySize
      THEN SubSeq(longer, Len(longer) - HistorySize + 1, Len(longer))
      ELSE longer

MutUpdateSeriesFromZero(m, v) ==
  [value   |-> v,
   min     |-> IF v < m.min THEN v ELSE m.min,
   max     |-> IF v > m.max THEN v ELSE m.max,
   inited  |-> TRUE,
   history |-> Roll(m.history, v)]

\* MetricSeries.Update(v)
UpdateSeries(m, v) ==
  [value   |-> v,
   min     |-> IF ~m.inited \/ v < m.min THEN v ELSE m.min,
   max     |-> IF ~m.inited \/ v > m.max THEN v ELSE m.max,
   inited  |-> TRUE,
   history |-> Roll(m.history, v)]

\* updateNamedMetrics: the slice and its names are made anew only when the
\* count changes; the values are then taken by index.
UpdateNamed(existing, temps) ==
  [i \in 1..Len(temps) |->
     [name |-> IF Len(existing) = Len(temps) THEN existing[i].name ELSE temps[i],
      from |-> temps[i]]]

Init ==
  /\ Latest = NoSnapshot
  /\ Timestamps = <<>>
  /\ series = [x \in SeriesNames |->
       [value |-> 0, min |-> 0, max |-> 0, inited |-> FALSE, history |-> <<>>]]
  /\ TempSensors = <<>>
  /\ writer = "idle"
  /\ incoming = NoSnapshot
  /\ todo = {}
  /\ request = [c \in Clients |-> "none"]
  /\ want = [c \in Clients |-> {}]
  /\ copied = [c \in Clients |-> <<>>]
  /\ answer = [c \in Clients |-> NoAnswer]
  /\ published = <<>>

-----------------------------------------------------------------------------
(* The writer                                                              *)

\* The monitor goroutine calls Update and asks for the lock.
CallUpdate(s) ==
  /\ writer = "idle"
  /\ s.at = Len(published) + 1
  /\ incoming' = s
  /\ writer' = "waiting"
  /\ UNCHANGED <<storeData, todo, clientVars, published>>

MutLockShared ==
  /\ writer = "waiting"
  /\ writer' = "holding"
  /\ todo' = Fields \cup SeriesNames
  /\ UNCHANGED <<storeData, incoming, clientVars, published>>

\* The lock is granted when no reader holds it.
Lock ==
  /\ writer = "waiting"
  /\ \A c \in Clients : request[c] = "none"
  /\ writer' = "holding"
  /\ todo' = Fields \cup SeriesNames
  /\ UNCHANGED <<storeData, incoming, clientVars, published>>

\* Update writes one field.
Write(f) ==
  /\ writer = "holding"
  /\ f \in todo
  /\ todo' = todo \ {f}
  /\ Latest' = IF f = "Latest" THEN incoming ELSE Latest
  /\ Timestamps' = IF f = "Timestamps" THEN Roll(Timestamps, incoming.at) ELSE Timestamps
  /\ series' = [x \in SeriesNames |->
       IF f = x THEN UpdateSeries(series[x], incoming.value[x]) ELSE series[x]]
  /\ TempSensors' = IF f = "TempSensors" THEN UpdateNamed(TempSensors, incoming.temps)
                                         ELSE TempSensors
  /\ UNCHANGED <<writer, incoming, clientVars, published>>

\* Update returns.
Unlock ==
  /\ writer = "holding"
  /\ todo = {}
  /\ writer' = "idle"
  /\ published' = Append(published, incoming)
  /\ UNCHANGED <<storeData, incoming, todo, clientVars>>

-----------------------------------------------------------------------------
(* The readers                                                             *)

\* What an answer is made of.
Parts(kind) == (IF kind = "history" THEN {"labels"} ELSE {"Latest"}) \cup SeriesNames

MutRLockBarging(c, kind) ==
  /\ request[c] = "none"
  /\ writer # "holding"
  /\ request' = [request EXCEPT ![c] = kind]
  /\ want' = [want EXCEPT ![c] = Parts(kind)]
  /\ UNCHANGED <<storeData, writer, incoming, todo, copied, answer, published>>

\* A handler takes the read lock, which a waiting or writing Update bars.
RLock(c, kind) ==
  /\ request[c] = "none"
  /\ writer = "idle"
  /\ request' = [request EXCEPT ![c] = kind]
  /\ want' = [want EXCEPT ![c] = Parts(kind)]
  /\ UNCHANGED <<storeData, writer, incoming, todo, copied, answer, published>>

\* One part of the answer, as the store has it now.
Part(kind, p) ==
  IF p = "labels" THEN Timestamps
  ELSE IF p = "Latest" THEN Latest.at
  ELSE IF kind = "history" THEN series[p].history
  ELSE [value |-> series[p].value, min |-> series[p].min, max |-> series[p].max]

\* The handler copies one part.
Copy(c, p) ==
  /\ p \in want[c]
  /\ want' = [want EXCEPT ![c] = @ \ {p}]
  /\ copied' = [copied EXCEPT ![c] =
       [q \in DOMAIN @ \cup {p} |-> IF q = p THEN Part(request[c], p) ELSE @[q]]]
  /\ UNCHANGED <<storeData, writer, incoming, todo, request, answer, published>>

\* The handler releases the lock and answers.
RUnlock(c) ==
  /\ request[c] # "none"
  /\ want[c] = {}
  /\ answer' = [answer EXCEPT ![c] =
       IF request[c] = "history"
       THEN [kind |-> "history", labels |-> copied[c]["labels"],
             points |-> [x \in SeriesNames |-> copied[c][x]]]
       ELSE [kind |-> "live", at |-> copied[c]["Latest"],
             sensors |-> [x \in SeriesNames |-> copied[c][x]]]]
  /\ request' = [request EXCEPT ![c] = "none"]
  /\ copied' = [copied EXCEPT ![c] = <<>>]
  /\ UNCHANGED <<storeData, writer, incoming, todo, want, published>>

Next ==
  \/ \E s \in Snapshots : CallUpdate(s)
  \/ Lock
  \/ \E f \in Fields \cup SeriesNames : Write(f)
  \/ Unlock
  \/ \E c \in Clients :
       \/ \E kind \in {"history", "live"} : RLock(c, kind)
       \/ \E p \in SeriesNames \cup {"labels", "Latest"} : Copy(c, p)
       \/ RUnlock(c)

Spec == Init /\ [][Next]_vars

\* A goroutine that holds the lock goes on and releases it; the lock is granted
\* to an Update it is free for.  Nobody is bound to ask for a new answer.
FairSpec ==
  /\ Spec
  /\ WF_vars(Lock)
  /\ WF_vars(\E f \in Fields \cup SeriesNames : Write(f))
  /\ WF_vars(Unlock)
  /\ \A c \in Clients :
       WF_vars(RUnlock(c) \/ \E p \in SeriesNames \cup {"labels", "Latest"} : Copy(c, p))

-----------------------------------------------------------------------------
TypeOK ==
  /\ Latest \in Snapshots \cup {NoSnapshot}
  /\ Timestamps \in Seq(1..MaxUpdates)
  /\ \A x \in SeriesNames :
       /\ series[x].value \in Values \cup {0}
       /\ series[x].min \in IF series[x].inited THEN Values ELSE {0}
       /\ series[x].max \in IF series[x].inited THEN Values ELSE {0}
       /\ series[x].inited \in BOOLEAN
       /\ series[x].history \in Seq(Values)
  /\ writer \in {"idle", "waiting", "holding"}
  /\ todo \subseteq Fields \cup SeriesNames
  /\ request \in [Clients -> {"none", "history", "live"}]
  /\ \A c \in Clients : want[c] \subseteq SeriesNames \cup {"labels", "Latest"}

\* The answers are those of a store that publishes and answers in one step: no
\* handler sees half an update, the histories of all series and the labels are
\* of the same snapshots, and minima and maxima are those of all of them.
Atomic == INSTANCE AtomicStore

ImplementsAtomicStore == Atomic!Spec

\* An Update that waits for the lock returns, however many handlers ask for it.
UpdateReturns == writer # "idle" ~> writer = "idle"
=============================================================================
