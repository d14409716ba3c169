------------------------- MODULE MetricsStoreProofs -------------------------
(***************************************************************************)
(* The metrics store, which is written field by field under one lock and   *)
(* read part by part under another, answers as if it were updated and read *)
(* in one step each: MetricsStore implements AtomicStore, for any handlers,*)
(* series, values and length of the histories.                             *)
(***************************************************************************)
EXTENDS MetricsStore, TLAPS, SequenceTheorems

Recent(q) == Atomic!LatestOf(q, HistorySize)

TimesOf(q) == [i \in 1..Len(Recent(q)) |-> Recent(q)[i].at]

PointsOf(q, x) == [i \in 1..Len(Recent(q)) |-> Recent(q)[i].value[x]]

ValuesOf(q, x) == {q[i].value[x] : i \in 1..Len(q)}

IsLowest(v, V)  == v \in V /\ \A w \in V : v <= w
IsHighest(v, V) == v \in V /\ \A w \in V : v >= w

\* Series m holds what it should after the snapshots q.
Holds(m, q, x) ==
  /\ m \in [value : Values \cup {0}, min : Values \cup {0}, max : Values \cup {0},
            inited : BOOLEAN, history : Seq(Values)]
  /\ m.history = PointsOf(q, x)
  /\ IF q = <<>>
     THEN ~m.inited /\ m.value = 0 /\ m.min = 0 /\ m.max = 0
     ELSE /\ m.inited
          /\ m.value = q[Len(q)].value[x]
          /\ IsLowest(m.min, ValuesOf(q, x))
          /\ IsHighest(m.max, ValuesOf(q, x))

\* What was published is in field f, and the snapshot under way where Update has
\* come that far.
Written(f) == IF writer = "holding" /\ f \notin todo
              THEN Append(published, incoming) ELSE published

StoreInv ==
  /\ published \in Seq(Snapshots)
  /\ Latest = IF Written("Latest") = <<>> THEN NoSnapshot
              ELSE Written("Latest")[Len(Written("Latest"))]
  /\ Timestamps = TimesOf(Written("Timestamps"))
  /\ series \in [SeriesNames -> [value : Values \cup {0}, min : Values \cup {0},
                                 max : Values \cup {0}, inited : BOOLEAN, history : Seq(Values)]]
  /\ \A x \in SeriesNames : Holds(series[x], Written(x), x)

WriterInv ==
  /\ writer \in {"idle", "waiting", "holding"}
  /\ todo \subseteq Fields \cup SeriesNames
  /\ writer # "idle" => incoming \in Snapshots

\* Nobody reads while Update writes, and what was copied is what is in the store.
ReaderInv ==
  /\ request \in [Clients -> {"none", "history", "live"}]
  /\ want \in [Clients -> SUBSET (SeriesNames \cup {"labels", "Latest"})]
  /\ DOMAIN copied = Clients
  /\ DOMAIN answer = Clients
  /\ \A c \in Clients :
       IF request[c] = "none"
       THEN want[c] = {} /\ copied[c] = <<>>
       ELSE /\ writer # "holding"
            /\ DOMAIN copied[c] \cup want[c] = Parts(request[c])
            /\ \A p \in DOMAIN copied[c] : copied[c][p] = Part(request[c], p)

IInv == StoreInv /\ WriterInv /\ ReaderInv

-----------------------------------------------------------------------------
(* Histories, and the lowest and highest of their values                   *)

\* The latest n elements, counted from the end.
LEMMA LatestIs ==
  ASSUME NEW S, NEW q \in Seq(S), NEW n \in Nat \ {0}
  PROVE  /\ Atomic!LatestOf(q, n) \in Seq(S)
         /\ Len(Atomic!LatestOf(q, n)) = IF Len(q) > n THEN n ELSE Len(q)
         /\ \A i \in 1..Len(Atomic!LatestOf(q, n)) :
              Atomic!LatestOf(q, n)[i] = q[Len(q) - Len(Atomic!LatestOf(q, n)) + i]
<1>1. CASE Len(q) > n
  <2> DEFINE m == Len(q) - n + 1
             t == SubSeq(q, m, Len(q))
  <2>1. m \in 1..Len(q) /\ Len(q) \in Nat /\ Len(q) - m + 1 = n
    BY <1>1
  <2>2. \A i \in m..Len(q) : q[i] \in S
    BY <2>1
  <2>3. t \in Seq(S) /\ Len(t) = n /\ \A i \in 1..n : t[i] = q[m + i - 1]
    BY <2>1, <2>2, SubSeqProperties
  <2>4. Atomic!LatestOf(q, n) = t
    BY <1>1 DEF Atomic!LatestOf
  <2> HIDE DEF t
  <2>5. \A i \in 1..n : t[i] = q[Len(q) - n + i]
    <3> SUFFICES ASSUME NEW i \in 1..n PROVE t[i] = q[Len(q) - n + i]
      OBVIOUS
    <3>1. m + i - 1 = Len(q) - n + i
      BY <2>1
    <3> QED
      BY <2>3, <3>1
  <2> QED
    BY <1>1, <2>3, <2>4, <2>5
<1>2. CASE ~(Len(q) > n)
  BY <1>2 DEF Atomic!LatestOf
<1> QED
  BY <1>1, <1>2

LEMMA RollIs ==
  ASSUME NEW h, NEW v
  PROVE  Roll(h, v) = IF Len(Append(h, v)) > HistorySize
                      THEN SubSeq(Append(h, v), Len(Append(h, v)) - HistorySize + 1,
                                  Len(Append(h, v)))
                      ELSE Append(h, v)
  BY DEF Roll

\* Rolling a history on, which is what g makes of the latest elements of q, is
\* taking the latest of one element more.
LEMMA RollsOn ==
  ASSUME NEW S, NEW V, NEW q \in Seq(S), NEW s \in S, NEW g \in [S -> V]
  PROVE  LET h == [i \in 1..Len(Recent(q)) |-> g[Recent(q)[i]]]
         IN  /\ Roll(h, g[s]) =
                  [i \in 1..Len(Recent(Append(q, s))) |-> g[Recent(Append(q, s))[i]]]
             /\ Roll(h, g[s]) \in Seq(V)
<1> DEFINE h      == [i \in 1..Len(Recent(q)) |-> g[Recent(q)[i]]]
           n      == HistorySize
           len    == Len(q)
           r      == Append(q, s)
           k      == Len(Recent(q))
           kk     == Len(Recent(r))
           next   == [i \in 1..kk |-> g[Recent(r)[i]]]
           longer == Append(h, g[s])
<1>1. /\ n \in Nat \ {0} /\ len \in Nat
      /\ r \in Seq(S) /\ Len(r) = len + 1 /\ r[len + 1] = s
      /\ \A i \in 1..len : r[i] = q[i]
  BY StoreAssumption
<1>2. /\ Recent(q) \in Seq(S) /\ k = (IF len > n THEN n ELSE len)
      /\ \A i \in 1..k : Recent(q)[i] = q[len - k + i]
  BY <1>1, LatestIs DEF Recent
<1> HIDE DEF r
<1>3. /\ Recent(r) \in Seq(S) /\ kk = (IF Len(r) > n THEN n ELSE Len(r))
      /\ \A i \in 1..kk : Recent(r)[i] = r[Len(r) - kk + i]
  BY <1>1, LatestIs DEF Recent
<1>4. k \in Nat /\ kk \in Nat
  BY <1>1, <1>2, <1>3
<1>5. /\ next \in Seq(V) /\ Len(next) = kk
      /\ \A i \in 1..kk : next[i] = g[r[len + 1 - kk + i]]
  <2>1. \A i \in 1..kk : Recent(r)[i] \in S
    BY <1>3
  <2>2. \A i \in 1..kk : g[Recent(r)[i]] \in V
    BY <2>1
  <2>3. next \in Seq(V) /\ Len(next) = kk
    <3> HIDE DEF kk
    <3> QED
      BY <1>4, <2>2
  <2>4. \A i \in 1..kk : next[i] = g[Recent(r)[i]]
    OBVIOUS
  <2>5. \A i \in 1..kk : Len(r) - kk + i = len + 1 - kk + i
    BY <1>1
  <2>6. \A i \in 1..kk : Recent(r)[i] = r[len + 1 - kk + i]
    <3> HIDE DEF kk, len
    <3> QED
      BY <1>3, <2>5
  <2> HIDE DEF next, kk
  <2> QED
    BY <2>3, <2>4, <2>6
<1>6. /\ h \in Seq(V) /\ Len(h) = k
      /\ \A i \in 1..k : h[i] = g[q[len - k + i]]
  <2>1. \A i \in 1..k : Recent(q)[i] \in S
    BY <1>2
  <2>2. \A i \in 1..k : g[Recent(q)[i]] \in V
    BY <2>1
  <2>3. h \in Seq(V) /\ Len(h) = k
    <3>1. h = [i \in 1..k |-> g[Recent(q)[i]]]
      OBVIOUS
    <3> HIDE DEF k
    <3> QED
      BY <1>4, <2>2, <3>1
  <2> QED
    BY <1>2, <2>3
<1>7. /\ longer \in Seq(V) /\ Len(longer) = k + 1 /\ longer[k + 1] = g[s]
      /\ \A i \in 1..k : longer[i] = g[q[len - k + i]]
  <2>1. g[s] \in V
    OBVIOUS
  <2> QED
    BY <1>4, <1>6, <2>1, SMTT(30)
<1>8. \/ len >= n /\ k = n /\ kk = n
      \/ len < n /\ k = len /\ kk = len + 1
  BY <1>1, <1>2, <1>3
<1>9. Roll(h, g[s]) = IF Len(longer) > n
                      THEN SubSeq(longer, Len(longer) - n + 1, Len(longer)) ELSE longer
  BY RollIs, Zenon
<1> HIDE DEF longer, h, len, k, kk, next, n
<1>10. \A i \in 1..k + 1 : longer[i] = g[r[len - k + i]]
  <2> SUFFICES ASSUME NEW i \in 1..k + 1 PROVE longer[i] = g[r[len - k + i]]
    OBVIOUS
  <2>1. CASE i = k + 1
    <3>1. len - k + i = len + 1
      BY <1>1, <1>4, <2>1
    <3> QED
      BY <1>1, <1>7, <2>1, <3>1
  <2>2. CASE i # k + 1
    <3>1. i \in 1..k /\ len - k + i \in 1..len
      BY <1>1, <1>4, <1>8, <2>2
    <3> QED
      BY <1>1, <1>7, <3>1
  <2> QED
    BY <2>1, <2>2
<1>11. Roll(h, g[s]) \in Seq(V) /\ Roll(h, g[s]) = next
  <2>1. CASE len >= n /\ k = n /\ kk = n
    <3> DEFINE t == SubSeq(longer, 2, k + 1)
    <3>1. Roll(h, g[s]) = t
      <4>1. Len(longer) = k + 1 /\ Len(longer) > n /\ Len(longer) - n + 1 = 2
        BY <1>1, <1>7, <2>1
      <4> QED
        BY <1>9, <4>1
    <3>2. \A i \in 2..k + 1 : longer[i] \in V
      BY <1>4, <1>7
    <3>3. /\ t \in Seq(V) /\ Len(t) = (IF 2 <= k + 1 THEN k + 1 - 2 + 1 ELSE 0)
          /\ \A i \in 1..(k + 1 - 2 + 1) : t[i] = longer[2 + i - 1]
      BY <1>4, <3>2, SubSeqProperties
    <3> HIDE DEF t
    <3>4. Len(t) = kk /\ \A i \in 1..kk : t[i] = longer[i + 1]
      <4>1. k + 1 - 2 + 1 = kk /\ Len(t) = kk
        BY <1>1, <1>4, <2>1, <3>3
      <4>2. \A i \in 1..kk : 2 + i - 1 = i + 1
        BY <1>4
      <4> QED
        BY <3>3, <4>1, <4>2
    <3>5. \A i \in 1..kk : t[i] = next[i]
      <4> SUFFICES ASSUME NEW i \in 1..kk PROVE t[i] = next[i]
        OBVIOUS
      <4>1. i + 1 \in 1..k + 1 /\ len - k + (i + 1) = len + 1 - kk + i
        BY <1>1, <1>4, <2>1
      <4> QED
        BY <1>5, <1>10, <3>4, <4>1
    <3> QED
      BY <1>5, <3>1, <3>3, <3>4, <3>5, SeqEqual
  <2>2. CASE len < n /\ k = len /\ kk = len + 1
    <3>1. Roll(h, g[s]) = longer
      <4>1. ~(Len(longer) > n)
        BY <1>1, <1>7, <2>2
      <4> QED
        BY <1>9, <4>1
    <3>2. \A i \in 1..kk : longer[i] = next[i]
      <4> SUFFICES ASSUME NEW i \in 1..kk PROVE longer[i] = next[i]
        OBVIOUS
      <4>1. i \in 1..k + 1 /\ len - k + i = len + 1 - kk + i
        BY <1>1, <1>4, <2>2
      <4> QED
        BY <1>5, <1>10, <4>1
    <3> QED
      BY <1>5, <1>7, <2>2, <3>1, <3>2, SeqEqual
  <2> QED
    BY <1>8, <2>1, <2>2
<1> QED
  BY <1>11, Zenon DEF next, h, r, kk

LEMMA RecentAre ==
  ASSUME NEW q \in Seq(Snapshots)
  PROVE  /\ Recent(q) \in Seq(Snapshots)
         /\ Len(Recent(q)) \in Nat
         /\ \A i \in 1..Len(Recent(q)) : Recent(q)[i] \in Snapshots
<1>1. Recent(q) \in Seq(Snapshots)
  BY LatestIs, StoreAssumption DEF Recent
<1> QED
  BY <1>1

\* The labels roll on with each snapshot.
LEMMA TimesRollOn ==
  ASSUME NEW q \in Seq(Snapshots), NEW s \in Snapshots
  PROVE  /\ Roll(TimesOf(q), s.at) = TimesOf(Append(q, s))
         /\ TimesOf(Append(q, s)) \in Seq(1..MaxUpdates)
<1> DEFINE g == [t \in Snapshots |-> t.at]
           h == [i \in 1..Len(Recent(q)) |-> g[Recent(q)[i]]]
           r == Append(q, s)
<1>1. g \in [Snapshots -> 1..MaxUpdates] /\ g[s] = s.at
  BY DEF Snapshots
<1>2. r \in Seq(Snapshots)
  OBVIOUS
<1>3. \A t \in Snapshots : g[t] = t.at
  OBVIOUS
<1> HIDE DEF g, r
<1>4. h = TimesOf(q)
  BY <1>3, RecentAre DEF TimesOf
<1>5. TimesOf(r) = [i \in 1..Len(Recent(r)) |-> g[Recent(r)[i]]]
  BY <1>2, <1>3, RecentAre DEF TimesOf
<1> HIDE DEF h
<1>6. /\ Roll(h, g[s]) = [i \in 1..Len(Recent(r)) |-> g[Recent(r)[i]]]
      /\ Roll(h, g[s]) \in Seq(1..MaxUpdates)
  BY <1>1, RollsOn, ZenonT(30) DEF h, r
<1> QED
  BY <1>1, <1>4, <1>5, <1>6 DEF r

\* So does the history of a series.
LEMMA PointsRollOn ==
  ASSUME NEW q \in Seq(Snapshots), NEW s \in Snapshots, NEW x \in SeriesNames
  PROVE  /\ Roll(PointsOf(q, x), s.value[x]) = PointsOf(Append(q, s), x)
         /\ PointsOf(Append(q, s), x) \in Seq(Values)
<1> DEFINE g == [t \in Snapshots |-> t.value[x]]
           h == [i \in 1..Len(Recent(q)) |-> g[Recent(q)[i]]]
           r == Append(q, s)
<1>1. g \in [Snapshots -> Values] /\ g[s] = s.value[x]
  BY DEF Snapshots
<1>2. r \in Seq(Snapshots)
  OBVIOUS
<1>3. \A t \in Snapshots : g[t] = t.value[x]
  OBVIOUS
<1> HIDE DEF g, r
<1>4. h = PointsOf(q, x)
  BY <1>3, RecentAre DEF PointsOf
<1>5. PointsOf(r, x) = [i \in 1..Len(Recent(r)) |-> g[Recent(r)[i]]]
  BY <1>2, <1>3, RecentAre DEF PointsOf
<1> HIDE DEF h
<1>6. /\ Roll(h, g[s]) = [i \in 1..Len(Recent(r)) |-> g[Recent(r)[i]]]
      /\ Roll(h, g[s]) \in Seq(Values)
  BY <1>1, RollsOn, ZenonT(30) DEF h, r
<1> QED
  BY <1>1, <1>4, <1>5, <1>6 DEF r

\* The values of one snapshot more.
LEMMA ValuesOn ==
  ASSUME NEW q \in Seq(Snapshots), NEW s \in Snapshots, NEW x \in SeriesNames
  PROVE  /\ ValuesOf(Append(q, s), x) = ValuesOf(q, x) \cup {s.value[x]}
         /\ ValuesOf(q, x) \subseteq Values
         /\ s.value[x] \in Values
<1> DEFINE r == Append(q, s)
<1>1. /\ Len(q) \in Nat /\ Len(r) = Len(q) + 1 /\ r[Len(q) + 1] = s
      /\ \A i \in 1..Len(q) : r[i] = q[i] /\ q[i] \in Snapshots
  OBVIOUS
<1> HIDE DEF r
<1>2. ValuesOf(r, x) = ValuesOf(q, x) \cup {s.value[x]}
  <2>1. \A v \in ValuesOf(r, x) : v \in ValuesOf(q, x) \cup {s.value[x]}
    <3> SUFFICES ASSUME NEW i \in 1..Len(r)
                 PROVE  r[i].value[x] \in ValuesOf(q, x) \cup {s.value[x]}
      BY DEF ValuesOf
    <3>1. CASE i = Len(q) + 1
      BY <1>1, <3>1
    <3>2. CASE i # Len(q) + 1
      <4>1. i \in 1..Len(q)
        BY <1>1, <3>2
      <4> QED
        BY <1>1, <4>1 DEF ValuesOf
    <3> QED
      BY <3>1, <3>2
  <2>2. \A v \in ValuesOf(q, x) : v \in ValuesOf(r, x)
    <3> SUFFICES ASSUME NEW i \in 1..Len(q) PROVE q[i].value[x] \in ValuesOf(r, x)
      BY DEF ValuesOf
    <3>1. i \in 1..Len(r) /\ r[i] = q[i]
      BY <1>1
    <3> QED
      BY <3>1 DEF ValuesOf
  <2>3. s.value[x] \in ValuesOf(r, x)
    <3>1. Len(q) + 1 \in 1..Len(r)
      BY <1>1
    <3> QED
      BY <1>1, <3>1 DEF ValuesOf
  <2> QED
    BY <2>1, <2>2, <2>3
<1>3. \A t \in Snapshots : t.value[x] \in Values
  BY DEF Snapshots
<1> QED
  BY <1>1, <1>2, <1>3 DEF r, ValuesOf

\* MetricSeries.Update brings a series up to the snapshot.
LEMMA UpdateHolds ==
  ASSUME NEW q \in Seq(Snapshots), NEW s \in Snapshots, NEW x \in SeriesNames,
         NEW m, Holds(m, q, x)
  PROVE  Holds(UpdateSeries(m, s.value[x]), Append(q, s), x)
<1> DEFINE v == s.value[x]
           r == Append(q, s)
           low  == IF ~m.inited \/ v < m.min THEN v ELSE m.min
           high == IF ~m.inited \/ v > m.max THEN v ELSE m.max
           t == UpdateSeries(m, v)
<1>1. /\ t.value = v /\ t.min = low /\ t.max = high /\ t.inited = TRUE
      /\ t.history = Roll(m.history, v)
      /\ t = [value |-> v, min |-> low, max |-> high, inited |-> TRUE,
              history |-> Roll(m.history, v)]
  BY DEF UpdateSeries
<1>2. /\ Roll(m.history, v) = PointsOf(r, x) /\ PointsOf(r, x) \in Seq(Values)
  BY PointsRollOn DEF Holds
<1>3. /\ ValuesOf(r, x) = ValuesOf(q, x) \cup {v}
      /\ ValuesOf(q, x) \subseteq Int /\ v \in Int /\ v \in Values
      /\ ValuesOf(q, x) \subseteq Values
  BY ValuesOn, StoreAssumption
<1>4. r # <<>> /\ r[Len(r)] = s
  OBVIOUS
<1> HIDE DEF v, r
<1>5. /\ IsLowest(low, ValuesOf(r, x))
      /\ IsHighest(high, ValuesOf(r, x))
  <2>1. CASE q = <<>>
    <3>1. ValuesOf(q, x) = {} /\ ~m.inited
      BY <2>1 DEF ValuesOf, Holds
    <3> QED
      BY <1>3, <3>1 DEF IsLowest, IsHighest
  <2>2. CASE q # <<>>
    <3>1. m.inited /\ IsLowest(m.min, ValuesOf(q, x)) /\ IsHighest(m.max, ValuesOf(q, x))
      BY <2>2 DEF Holds
    <3> QED
      BY <1>3, <3>1 DEF IsLowest, IsHighest
  <2> QED
    BY <2>1, <2>2
<1>6. low \in Values /\ high \in Values
  BY <1>3, <1>5 DEF IsLowest, IsHighest
<1> HIDE DEF low, high, t
<1>7. t \in [value : Values \cup {0}, min : Values \cup {0}, max : Values \cup {0},
             inited : BOOLEAN, history : Seq(Values)]
  BY <1>1, <1>2, <1>3, <1>6
<1>8. Holds(t, r, x)
  BY <1>1, <1>2, <1>4, <1>5, <1>7 DEF Holds, v
<1> QED
  BY <1>8 DEF t, r, v

-----------------------------------------------------------------------------
(* The invariant                                                           *)

LEMMA InitIInv == Init => IInv
<1> SUFFICES ASSUME Init PROVE IInv
  OBVIOUS
<1>1. published = <<>> /\ <<>> \in Seq(Snapshots) /\ Len(<<>>) = 0 /\ writer = "idle"
  BY DEF Init
<1>2. \A f : Written(f) = <<>>
  BY <1>1 DEF Written
<1>3. Recent(<<>>) = <<>>
  BY StoreAssumption DEF Recent, Atomic!LatestOf
<1>4. TimesOf(<<>>) = <<>> /\ \A x : PointsOf(<<>>, x) = <<>>
  BY <1>3 DEF TimesOf, PointsOf
<1>5. series = [x \in SeriesNames |->
         [value |-> 0, min |-> 0, max |-> 0, inited |-> FALSE, history |-> <<>>]]
  BY DEF Init
<1>6. [value |-> 0, min |-> 0, max |-> 0, inited |-> FALSE, history |-> <<>>] \in
        [value : Values \cup {0}, min : Values \cup {0}, max : Values \cup {0},
         inited : BOOLEAN, history : Seq(Values)]
  OBVIOUS
<1>7. StoreInv
  BY <1>1, <1>2, <1>4, <1>5, <1>6 DEF Init, StoreInv, Holds
<1>8. WriterInv
  BY DEF Init, WriterInv
<1>9. ReaderInv
  BY DEF Init, ReaderInv
<1> QED
  BY <1>7, <1>8, <1>9 DEF IInv

\* A step of the writer that writes nothing, or that turns what it has written
\* into what is published, leaves the store as it should be.
LEMMA StoreStays ==
  ASSUME StoreInv, UNCHANGED storeData, published' \in Seq(Snapshots),
         \A f \in Fields \cup SeriesNames : Written(f)' = Written(f)
  PROVE  StoreInv'
<1>1. UNCHANGED <<Latest, Timestamps, series>>
  BY DEF storeData
<1>2. Written("Latest")' = Written("Latest") /\ Written("Timestamps")' = Written("Timestamps")
  BY DEF Fields
<1>3. \A x \in SeriesNames : Written(x)' = Written(x)
  OBVIOUS
<1> QED
  BY <1>1, <1>2, <1>3 DEF StoreInv

\* Readers are not concerned with a step that leaves them and the store alone.
LEMMA ReadersStay ==
  ASSUME ReaderInv, UNCHANGED clientVars,
         \/ UNCHANGED storeData /\ writer' # "holding"
         \/ \A c \in Clients : request[c] = "none"
  PROVE  ReaderInv'
<1>1. UNCHANGED <<request, want, copied, answer>>
  BY DEF clientVars
<1>2. CASE \A c \in Clients : request[c] = "none"
  BY <1>1, <1>2 DEF ReaderInv
<1>3. CASE UNCHANGED storeData /\ writer' # "holding"
  <2>1. UNCHANGED <<Latest, Timestamps, series>>
    BY <1>3 DEF storeData
  <2> QED
    BY <1>1, <1>3, <2>1 DEF ReaderInv, Part
<1> QED
  BY <1>2, <1>3

LEMMA CallUpdateSafe ==
  ASSUME IInv, NEW s \in Snapshots, CallUpdate(s)
  PROVE  IInv'
<1>1. /\ writer = "idle" /\ writer' = "waiting" /\ incoming' = s
      /\ UNCHANGED <<storeData, todo, clientVars, published>>
  BY DEF CallUpdate
<1>2. \A f : Written(f)' = Written(f)
  BY <1>1 DEF Written
<1>3. StoreInv'
  BY <1>1, <1>2, StoreStays DEF IInv, StoreInv
<1>4. ReaderInv'
  BY <1>1, ReadersStay DEF IInv
<1> QED
  BY <1>1, <1>3, <1>4 DEF IInv, WriterInv

LEMMA LockSafe ==
  ASSUME IInv, Lock
  PROVE  IInv'
<1>1. /\ writer = "waiting" /\ writer' = "holding" /\ todo' = Fields \cup SeriesNames
      /\ \A c \in Clients : request[c] = "none"
      /\ UNCHANGED <<storeData, incoming, clientVars, published>>
  BY DEF Lock
<1>2. \A f \in Fields \cup SeriesNames : Written(f)' = Written(f)
  BY <1>1 DEF Written
<1>3. StoreInv'
  BY <1>1, <1>2, StoreStays DEF IInv, StoreInv
<1>4. ReaderInv'
  BY <1>1, ReadersStay DEF IInv
<1> QED
  BY <1>1, <1>3, <1>4 DEF IInv, WriterInv

LEMMA UnlockSafe ==
  ASSUME IInv, Unlock
  PROVE  IInv'
<1>1. /\ writer = "holding" /\ writer' = "idle" /\ todo = {}
      /\ published' = Append(published, incoming) /\ incoming \in Snapshots
      /\ UNCHANGED <<storeData, incoming, todo, clientVars>>
  BY DEF Unlock, IInv, WriterInv
<1>2. \A f \in Fields \cup SeriesNames : Written(f)' = Written(f)
  BY <1>1 DEF Written
<1>3. published' \in Seq(Snapshots)
  BY <1>1 DEF IInv, StoreInv
<1>4. StoreInv'
  BY <1>1, <1>2, <1>3, StoreStays DEF IInv
<1>5. ReaderInv'
  BY <1>1, ReadersStay DEF IInv
<1> QED
  BY <1>1, <1>4, <1>5 DEF IInv, WriterInv

\* Each field is brought up to the snapshot under way while nobody reads.
LEMMA WriteSafe ==
  ASSUME IInv, NEW f \in Fields \cup SeriesNames, Write(f)
  PROVE  IInv'
<1>1. /\ writer = "holding" /\ f \in todo /\ todo' = todo \ {f}
      /\ incoming \in Snapshots /\ published \in Seq(Snapshots)
      /\ UNCHANGED <<writer, incoming, clientVars, published>>
  BY DEF Write, IInv, WriterInv, StoreInv
<1>2. \A c \in Clients : request[c] = "none"
  BY <1>1 DEF IInv, ReaderInv
<1> DEFINE r == Append(published, incoming)
<1>3. /\ Written(f) = published /\ Written(f)' = r
      /\ \A g : g # f => Written(g)' = Written(g)
  BY <1>1 DEF Written
<1>4. r \in Seq(Snapshots) /\ r # <<>> /\ r[Len(r)] = incoming
  BY <1>1
<1> HIDE DEF r
<1>5. Latest' = IF Written("Latest")' = <<>> THEN NoSnapshot
                ELSE Written("Latest")'[Len(Written("Latest")')]
  <2>1. CASE f = "Latest"
    BY <1>3, <1>4, <2>1 DEF Write
  <2>2. CASE f # "Latest"
    BY <1>3, <2>2 DEF Write, IInv, StoreInv
  <2> QED
    BY <2>1, <2>2
<1>6. Timestamps' = TimesOf(Written("Timestamps")')
  <2>1. CASE f = "Timestamps"
    <3>1. Timestamps = TimesOf(published) /\ Timestamps' = Roll(Timestamps, incoming.at)
      BY <1>3, <2>1 DEF Write, IInv, StoreInv
    <3> QED
      BY <1>1, <1>3, <2>1, <3>1, TimesRollOn DEF r
  <2>2. CASE f # "Timestamps"
    BY <1>3, <2>2 DEF Write, IInv, StoreInv
  <2> QED
    BY <2>1, <2>2
<1>7. ASSUME NEW x \in SeriesNames
      PROVE  Holds(series'[x], Written(x)', x)
  <2>0. series'[x] = IF f = x THEN UpdateSeries(series[x], incoming.value[x]) ELSE series[x]
    BY DEF Write
  <2>1. CASE f = x
    <3>1. Holds(series[x], published, x)
      BY <1>3, <2>1 DEF IInv, StoreInv
    <3>2. Holds(UpdateSeries(series[x], incoming.value[x]), r, x)
      BY <1>1, <3>1, UpdateHolds DEF r
    <3> QED
      BY <1>3, <2>0, <2>1, <3>2
  <2>2. CASE f # x
    <3>1. Written(x)' = Written(x) /\ series'[x] = series[x]
      BY <1>3, <2>0, <2>2
    <3> QED
      BY <3>1 DEF IInv, StoreInv
  <2> QED
    BY <2>1, <2>2
<1>8. series' \in [SeriesNames -> [value : Values \cup {0}, min : Values \cup {0},
                                  max : Values \cup {0}, inited : BOOLEAN,
                                  history : Seq(Values)]]
  <2>1. series' = [x \in SeriesNames |-> series'[x]]
    BY DEF Write
  <2> QED
    BY <1>7, <2>1 DEF Holds
<1>9. StoreInv'
  BY <1>1, <1>5, <1>6, <1>7, <1>8 DEF StoreInv
<1>10. ReaderInv'
  BY <1>1, <1>2, ReadersStay DEF IInv
<1> QED
  BY <1>1, <1>9, <1>10 DEF IInv, WriterInv

\* The store and the writer are not concerned with a step of a reader.
LEMMA WriterStays ==
  ASSUME IInv, UNCHANGED <<storeData, writer, incoming, todo, published>>
  PROVE  StoreInv' /\ WriterInv'
<1>1. \A f : Written(f)' = Written(f)
  BY DEF Written
<1>2. StoreInv'
  BY <1>1, StoreStays DEF IInv, StoreInv
<1> QED
  BY <1>2 DEF IInv, WriterInv

LEMMA RLockSafe ==
  ASSUME IInv, NEW c \in Clients, NEW kind \in {"history", "live"}, RLock(c, kind)
  PROVE  IInv'
<1>1. /\ request[c] = "none" /\ writer = "idle"
      /\ request' = [request EXCEPT ![c] = kind]
      /\ want' = [want EXCEPT ![c] = Parts(kind)]
      /\ UNCHANGED <<storeData, writer, incoming, todo, copied, answer, published>>
  BY DEF RLock
<1>2. Parts(kind) \subseteq SeriesNames \cup {"labels", "Latest"}
  BY DEF Parts
<1>3. \A d \in Clients : \A p : Part(request[d], p)' = Part(request'[d], p)
  BY <1>1 DEF storeData, Part
<1>4. copied[c] = <<>> /\ DOMAIN <<>> = {}
  BY <1>1 DEF IInv, ReaderInv
<1>5. ReaderInv'
  <2>1. ASSUME NEW d \in Clients
        PROVE  IF request'[d] = "none"
               THEN want'[d] = {} /\ copied'[d] = <<>>
               ELSE /\ writer' # "holding"
                    /\ DOMAIN copied'[d] \cup want'[d] = Parts(request'[d])
                    /\ \A p \in DOMAIN copied'[d] : copied'[d][p] = Part(request[d], p)'
    <3>1. CASE d = c
      BY <1>1, <1>4, <3>1 DEF IInv, ReaderInv
    <3>2. CASE d # c
      <4>1. request'[d] = request[d] /\ want'[d] = want[d] /\ copied'[d] = copied[d]
        BY <1>1, <3>2 DEF IInv, ReaderInv
      <4>2. \A p : Part(request[d], p)' = Part(request[d], p)
        BY <1>3, <4>1 DEF storeData, Part
      <4> QED
        BY <1>1, <4>1, <4>2 DEF IInv, ReaderInv
    <3> QED
      BY <3>1, <3>2
  <2> QED
    BY <1>1, <1>2, <1>3, <2>1 DEF IInv, ReaderInv
<1> QED
  BY <1>1, <1>5, WriterStays DEF IInv

LEMMA CopySafe ==
  ASSUME IInv, NEW c \in Clients, NEW p \in SeriesNames \cup {"labels", "Latest"}, Copy(c, p)
  PROVE  IInv'
<1>1. /\ p \in want[c]
      /\ want' = [want EXCEPT ![c] = @ \ {p}]
      /\ copied' = [copied EXCEPT ![c] =
           [q \in DOMAIN copied[c] \cup {p} |->
              IF q = p THEN Part(request[c], p) ELSE copied[c][q]]]
      /\ UNCHANGED <<storeData, writer, incoming, todo, request, answer, published>>
  BY DEF Copy
<1>2. \A d \in Clients : \A q : Part(request[d], q)' = Part(request[d], q)
  BY <1>1 DEF storeData, Part
<1>3. /\ request[c] # "none" /\ writer # "holding"
      /\ DOMAIN copied[c] \cup want[c] = Parts(request[c])
      /\ \A q \in DOMAIN copied[c] : copied[c][q] = Part(request[c], q)
  BY <1>1 DEF IInv, ReaderInv
<1> DEFINE new == [q \in DOMAIN copied[c] \cup {p} |->
                     IF q = p THEN Part(request[c], p) ELSE copied[c][q]]
<1>4. DOMAIN new = DOMAIN copied[c] \cup {p} /\ \A q \in DOMAIN new : new[q] = Part(request[c], q)
  BY <1>3
<1>5. copied' = [copied EXCEPT ![c] = new]
  BY <1>1
<1> HIDE DEF new
<1>6. ReaderInv'
  <2>1. ASSUME NEW d \in Clients
        PROVE  IF request'[d] = "none"
               THEN want'[d] = {} /\ copied'[d] = <<>>
               ELSE /\ writer' # "holding"
                    /\ DOMAIN copied'[d] \cup want'[d] = Parts(request'[d])
                    /\ \A q \in DOMAIN copied'[d] : copied'[d][q] = Part(request[d], q)'
    <3>1. CASE d = c
      <4>1. copied'[d] = new /\ want'[d] = want[c] \ {p} /\ request'[d] = request[c]
        BY <1>1, <1>5, <3>1 DEF IInv, ReaderInv
      <4>2. DOMAIN new \cup (want[c] \ {p}) = Parts(request[c])
        BY <1>1, <1>3, <1>4
      <4> QED
        BY <1>1, <1>2, <1>3, <1>4, <3>1, <4>1, <4>2
    <3>2. CASE d # c
      <4>1. request'[d] = request[d] /\ want'[d] = want[d] /\ copied'[d] = copied[d]
        BY <1>1, <1>5, <3>2 DEF IInv, ReaderInv
      <4> QED
        BY <1>1, <1>2, <4>1 DEF IInv, ReaderInv
    <3> QED
      BY <3>1, <3>2
  <2>2. want' \in [Clients -> SUBSET (SeriesNames \cup {"labels", "Latest"})]
    BY <1>1 DEF IInv, ReaderInv
  <2> QED
    BY <1>1, <1>5, <2>1, <2>2 DEF IInv, ReaderInv
<1> QED
  BY <1>1, <1>6, WriterStays DEF IInv

LEMMA RUnlockSafe ==
  ASSUME IInv, NEW c \in Clients, RUnlock(c)
  PROVE  IInv'
<1>1. /\ request[c] # "none" /\ want[c] = {}
      /\ request' = [request EXCEPT ![c] = "none"]
      /\ copied' = [copied EXCEPT ![c] = <<>>]
      /\ UNCHANGED <<storeData, writer, incoming, todo, want, published>>
  BY DEF RUnlock
<1>0. DOMAIN answer' = Clients
  BY DEF RUnlock, IInv, ReaderInv
<1>2. \A d \in Clients : \A q : Part(request[d], q)' = Part(request'[d], q)
  BY <1>1 DEF storeData, Part
<1>3. ReaderInv'
  <2>1. ASSUME NEW d \in Clients
        PROVE  IF request'[d] = "none"
               THEN want'[d] = {} /\ copied'[d] = <<>>
               ELSE /\ writer' # "holding"
                    /\ DOMAIN copied'[d] \cup want'[d] = Parts(request'[d])
                    /\ \A q \in DOMAIN copied'[d] : copied'[d][q] = Part(request[d], q)'
    <3>1. CASE d = c
      BY <1>1, <3>1 DEF IInv, ReaderInv
    <3>2. CASE d # c
      <4>1. request'[d] = request[d] /\ want'[d] = want[d] /\ copied'[d] = copied[d]
        BY <1>1, <3>2 DEF IInv, ReaderInv
      <4>2. \A q : Part(request[d], q)' = Part(request[d], q)
        BY <1>2, <4>1 DEF storeData, Part
      <4> QED
        BY <1>1, <4>1, <4>2 DEF IInv, ReaderInv
    <3> QED
      BY <3>1, <3>2
  <2> QED
    BY <1>0, <1>1, <2>1 DEF IInv, ReaderInv
<1> QED
  BY <1>1, <1>3, WriterStays DEF IInv

LEMMA NextIInv == IInv /\ [Next]_vars => IInv'
<1> SUFFICES ASSUME IInv, [Next]_vars PROVE IInv'
  OBVIOUS
<1>1. ASSUME NEW s \in Snapshots, CallUpdate(s) PROVE IInv'
  BY <1>1, CallUpdateSafe
<1>2. CASE Lock
  BY <1>2, LockSafe
<1>3. ASSUME NEW f \in Fields \cup SeriesNames, Write(f) PROVE IInv'
  BY <1>3, WriteSafe
<1>4. CASE Unlock
  BY <1>4, UnlockSafe
<1>5. ASSUME NEW c \in Clients, NEW kind \in {"history", "live"}, RLock(c, kind) PROVE IInv'
  BY <1>5, RLockSafe
<1>6. ASSUME NEW c \in Clients, NEW p \in SeriesNames \cup {"labels", "Latest"}, Copy(c, p)
      PROVE  IInv'
  BY <1>6, CopySafe
<1>7. ASSUME NEW c \in Clients, RUnlock(c) PROVE IInv'
  BY <1>7, RUnlockSafe
<1>8. CASE UNCHANGED vars
  <2>1. UNCHANGED <<storeData, writer, incoming, todo, published>> /\ UNCHANGED clientVars
    BY <1>8 DEF vars, storeData, clientVars
  <2>2. StoreInv' /\ WriterInv'
    BY <2>1, WriterStays
  <2>3. CASE writer = "holding"
    BY <2>1, <2>2, <2>3, ReadersStay DEF IInv, ReaderInv
  <2>4. CASE writer # "holding"
    BY <2>1, <2>2, <2>4, ReadersStay DEF IInv
  <2> QED
    BY <2>2, <2>3, <2>4
<1> QED
  BY <1>1, <1>2, <1>3, <1>4, <1>5, <1>6, <1>7, <1>8 DEF Next

LEMMA Invariance == Spec => []IInv
  BY InitIInv, NextIInv, PTL DEF Spec

-----------------------------------------------------------------------------
(* Types                                                                   *)

LEMMA WrittenIs ==
  ASSUME IInv, NEW f
  PROVE  Written(f) \in Seq(Snapshots)
  BY DEF IInv, StoreInv, WriterInv, Written

LEMMA SeriesTyped ==
  ASSUME IInv, NEW x \in SeriesNames
  PROVE  /\ series[x].value \in Values \cup {0}
         /\ series[x].min \in IF series[x].inited THEN Values ELSE {0}
         /\ series[x].max \in IF series[x].inited THEN Values ELSE {0}
         /\ series[x].inited \in BOOLEAN
         /\ series[x].history \in Seq(Values)
<1> DEFINE q == Written(x)
           m == series[x]
<1>1. Holds(m, q, x)
  BY DEF IInv, StoreInv
<1>2. q \in Seq(Snapshots)
  BY WrittenIs
<1> HIDE DEF q, m
<1>3. ValuesOf(q, x) \subseteq Values
  <2> SUFFICES ASSUME NEW i \in 1..Len(q) PROVE q[i].value[x] \in Values
    BY DEF ValuesOf
  <2>1. q[i] \in Snapshots
    BY <1>2
  <2> QED
    BY <2>1 DEF Snapshots
<1>4. m.inited => m.min \in Values /\ m.max \in Values
  BY <1>1, <1>3 DEF Holds, IsLowest, IsHighest
<1>5. ~m.inited => m.min = 0 /\ m.max = 0
  BY <1>1 DEF Holds
<1>6. /\ m.value \in Values \cup {0} /\ m.inited \in BOOLEAN /\ m.history \in Seq(Values)
  BY <1>1 DEF Holds
<1> QED
  BY <1>4, <1>5, <1>6 DEF m

LEMMA IInvTypes == IInv => TypeOK
<1> SUFFICES ASSUME IInv PROVE TypeOK
  OBVIOUS
<1>1. Latest \in Snapshots \cup {NoSnapshot}
  <2> DEFINE q == Written("Latest")
  <2>1. q \in Seq(Snapshots) /\ Latest = IF q = <<>> THEN NoSnapshot ELSE q[Len(q)]
    BY WrittenIs DEF IInv, StoreInv
  <2> HIDE DEF q
  <2> QED
    BY <2>1
<1>2. Timestamps \in Seq(1..MaxUpdates)
  <2> DEFINE q == Written("Timestamps")
  <2>1. q \in Seq(Snapshots) /\ Timestamps = TimesOf(q)
    BY WrittenIs DEF IInv, StoreInv
  <2> HIDE DEF q
  <2>2. \A i \in 1..Len(Recent(q)) : Recent(q)[i].at \in 1..MaxUpdates
    BY <2>1, RecentAre DEF Snapshots
  <2>3. Len(Recent(q)) \in Nat
    BY <2>1, RecentAre
  <2> QED
    BY <2>1, <2>2, <2>3 DEF TimesOf
<1> QED
  BY <1>1, <1>2, SeriesTyped DEF IInv, WriterInv, ReaderInv, TypeOK

(* Every variable of the store, of the writer of Update and of the readers *)
(* keeps to its type: the lowest and the highest of a series are values it *)
(* had, and its history holds nothing else.                                *)
THEOREM TypeCorrect == Spec => []TypeOK
  BY Invariance, IInvTypes, PTL

-----------------------------------------------------------------------------
(* The refinement                                                          *)

LEMMA LowestIs ==
  ASSUME NEW V, V \subseteq Int, NEW v, IsLowest(v, V)
  PROVE  Atomic!Lowest(V) = v
<1>1. \E w \in V : \A u \in V : w <= u
  BY DEF IsLowest
<1>2. Atomic!Lowest(V) \in V /\ \A u \in V : Atomic!Lowest(V) <= u
  BY <1>1 DEF Atomic!Lowest
<1>3. v \in V /\ v <= Atomic!Lowest(V)
  BY <1>2 DEF IsLowest
<1>4. v \in Int /\ Atomic!Lowest(V) \in Int /\ Atomic!Lowest(V) <= v
  BY <1>2, <1>3
<1> QED
  BY <1>3, <1>4

LEMMA HighestIs ==
  ASSUME NEW V, V \subseteq Int, NEW v, IsHighest(v, V)
  PROVE  Atomic!Highest(V) = v
<1>1. \E w \in V : \A u \in V : w >= u
  BY DEF IsHighest
<1>2. Atomic!Highest(V) \in V /\ \A u \in V : Atomic!Highest(V) >= u
  BY <1>1 DEF Atomic!Highest
<1>3. v \in V /\ v >= Atomic!Highest(V)
  BY <1>2 DEF IsHighest
<1>4. v \in Int /\ Atomic!Highest(V) \in Int /\ Atomic!Highest(V) >= v
  BY <1>2, <1>3
<1> QED
  BY <1>3, <1>4

\* While Update is not writing, the store is that of what was published.
LEMMA StoreIsPublished ==
  ASSUME IInv, writer # "holding"
  PROVE  /\ published \in Seq(Snapshots)
         /\ Latest = IF published = <<>> THEN NoSnapshot ELSE published[Len(published)]
         /\ Timestamps = TimesOf(published)
         /\ \A x \in SeriesNames : Holds(series[x], published, x)
<1>1. \A f : Written(f) = published
  BY DEF Written
<1> QED
  BY <1>1 DEF IInv, StoreInv

\* What a handler has copied when it has copied everything.
LEMMA CopiedAll ==
  ASSUME IInv, NEW c \in Clients, request[c] # "none", want[c] = {}
  PROVE  /\ request[c] \in {"history", "live"}
         /\ writer # "holding"
         /\ \A p \in Parts(request[c]) : copied[c][p] = Part(request[c], p)
  BY DEF IInv, ReaderInv

LEMMA NamesApart ==
  ASSUME NEW x \in SeriesNames
  PROVE  x # "labels" /\ x # "Latest"
  BY StoreAssumption DEF Fields

\* A history answer is computed from what was published.
LEMMA HistoryAnswered ==
  ASSUME IInv, NEW c \in Clients, RUnlock(c), request[c] = "history"
  PROVE  answer' = [answer EXCEPT ![c] = Atomic!HistoryOf(published)]
<1> DEFINE labels == copied[c]["labels"]
           points == [x \in SeriesNames |-> copied[c][x]]
<1>1. answer' = [answer EXCEPT ![c] = [kind |-> "history", labels |-> labels, points |-> points]]
  BY DEF RUnlock
<1>2. writer # "holding" /\ \A p \in {"labels"} \cup SeriesNames : copied[c][p] = Part("history", p)
  BY CopiedAll DEF RUnlock, Parts
<1>3. labels = TimesOf(published)
  BY <1>2, StoreIsPublished DEF Part
<1>4. \A x \in SeriesNames : copied[c][x] = PointsOf(published, x)
  <2> SUFFICES ASSUME NEW x \in SeriesNames PROVE copied[c][x] = PointsOf(published, x)
    OBVIOUS
  <2>1. copied[c][x] = series[x].history
    BY <1>2, NamesApart DEF Part
  <2> QED
    BY <1>2, <2>1, StoreIsPublished DEF Holds
<1>5. points = [x \in SeriesNames |-> PointsOf(published, x)]
  BY <1>4
<1>6. Atomic!HistoryOf(published) =
        [kind |-> "history", labels |-> TimesOf(published),
         points |-> [x \in SeriesNames |-> PointsOf(published, x)]]
  BY DEF Atomic!HistoryOf, TimesOf, PointsOf, Recent
<1> HIDE DEF labels, points
<1> QED
  BY <1>1, <1>3, <1>5, <1>6

\* So is a live answer.
LEMMA LiveAnswered ==
  ASSUME IInv, NEW c \in Clients, RUnlock(c), request[c] = "live"
  PROVE  answer' = [answer EXCEPT ![c] = Atomic!LiveOf(published)]
<1> DEFINE at == copied[c]["Latest"]
           sensors == [x \in SeriesNames |-> copied[c][x]]
           q == published
<1>1. answer' = [answer EXCEPT ![c] = [kind |-> "live", at |-> at, sensors |-> sensors]]
  BY DEF RUnlock
<1>2. writer # "holding" /\ \A p \in {"Latest"} \cup SeriesNames : copied[c][p] = Part("live", p)
  BY CopiedAll DEF RUnlock, Parts
<1>3. at = Latest.at
  BY <1>2 DEF Part
<1>4. \A x \in SeriesNames : copied[c][x] =
        [value |-> series[x].value, min |-> series[x].min, max |-> series[x].max]
  BY <1>2, NamesApart DEF Part
<1>5. sensors = [x \in SeriesNames |->
        [value |-> series[x].value, min |-> series[x].min, max |-> series[x].max]]
  BY <1>4
<1>6. /\ q \in Seq(Snapshots)
      /\ Latest = IF q = <<>> THEN NoSnapshot ELSE q[Len(q)]
      /\ \A x \in SeriesNames : Holds(series[x], q, x)
  BY <1>2, StoreIsPublished
<1> HIDE DEF at, sensors, q
<1>7. [kind |-> "live", at |-> at, sensors |-> sensors] = Atomic!LiveOf(q)
  <2>1. CASE q = <<>>
    <3>1. at = 0
      BY <1>3, <1>6, <2>1 DEF NoSnapshot
    <3>2. \A x \in SeriesNames : series[x].value = 0 /\ series[x].min = 0 /\ series[x].max = 0
      BY <1>6, <2>1 DEF Holds
    <3>3. sensors = [x \in SeriesNames |-> [value |-> 0, min |-> 0, max |-> 0]]
      BY <1>5, <3>2
    <3> QED
      BY <2>1, <3>1, <3>3 DEF Atomic!LiveOf
  <2>2. CASE q # <<>>
    <3> DEFINE sensor(x) == [value |-> q[Len(q)].value[x], min |-> Atomic!Lowest(ValuesOf(q, x)),
                             max |-> Atomic!Highest(ValuesOf(q, x))]
    <3>1. at = q[Len(q)].at
      BY <1>3, <1>6, <2>2
    <3>2. ASSUME NEW x \in SeriesNames
          PROVE  [value |-> series[x].value, min |-> series[x].min, max |-> series[x].max] = sensor(x)
      <4>1. /\ series[x].value = q[Len(q)].value[x]
            /\ IsLowest(series[x].min, ValuesOf(q, x)) /\ IsHighest(series[x].max, ValuesOf(q, x))
        BY <1>6, <2>2 DEF Holds
      <4>2. ValuesOf(q, x) \subseteq Int
        <5> SUFFICES ASSUME NEW i \in 1..Len(q) PROVE q[i].value[x] \in Int
          BY DEF ValuesOf
        <5>1. q[i] \in Snapshots
          BY <1>6
        <5> QED
          BY <5>1, StoreAssumption DEF Snapshots
      <4> QED
        BY <4>1, <4>2, LowestIs, HighestIs
    <3>3. sensors = [x \in SeriesNames |-> sensor(x)]
      BY <1>5, <3>2
    <3>4. Atomic!LiveOf(q) = [kind |-> "live", at |-> q[Len(q)].at,
                             sensors |-> [x \in SeriesNames |-> sensor(x)]]
      BY <2>2 DEF Atomic!LiveOf, ValuesOf
    <3> QED
      BY <3>1, <3>3, <3>4
  <2> QED
    BY <2>1, <2>2
<1> QED
  BY <1>1, <1>7 DEF q

LEMMA NextRefines ==
  ASSUME IInv, [Next]_vars
  PROVE  [Atomic!Next]_(Atomic!storeVars)
<1> USE DEF Atomic!storeVars
<1>1. ASSUME NEW s \in Snapshots, CallUpdate(s) PROVE UNCHANGED Atomic!storeVars
  BY <1>1 DEF CallUpdate, clientVars
<1>2. ASSUME Lock PROVE UNCHANGED Atomic!storeVars
  BY <1>2 DEF Lock, clientVars
<1>3. ASSUME NEW f \in Fields \cup SeriesNames, Write(f) PROVE UNCHANGED Atomic!storeVars
  BY <1>3 DEF Write, clientVars
<1>4. ASSUME Unlock PROVE Atomic!Next
  <2>1. incoming \in Snapshots /\ Atomic!Publish(incoming)
    BY <1>4 DEF Unlock, clientVars, IInv, WriterInv, Atomic!Publish
  <2> QED
    BY <2>1 DEF Atomic!Next
<1>5. ASSUME NEW c \in Clients, NEW kind \in {"history", "live"}, RLock(c, kind)
      PROVE  UNCHANGED Atomic!storeVars
  BY <1>5 DEF RLock
<1>6. ASSUME NEW c \in Clients, NEW p \in SeriesNames \cup {"labels", "Latest"}, Copy(c, p)
      PROVE  UNCHANGED Atomic!storeVars
  BY <1>6 DEF Copy
<1>7. ASSUME NEW c \in Clients, RUnlock(c) PROVE Atomic!Next
  <2>1. request[c] \in {"history", "live"} /\ UNCHANGED published
    BY <1>7, CopiedAll DEF RUnlock
  <2>2. Atomic!Answer(c)
    BY <1>7, <2>1, HistoryAnswered, LiveAnswered DEF Atomic!Answer
  <2> QED
    BY <2>2 DEF Atomic!Next
<1>8. CASE UNCHANGED vars
  BY <1>8 DEF vars
<1> QED
  BY <1>1, <1>2, <1>3, <1>4, <1>5, <1>6, <1>7, <1>8 DEF Next

LEMMA InitRefines == Init => Atomic!Init
  BY DEF Init, Atomic!Init, NoAnswer, Atomic!NoAnswer

(* However updates and readers interleave, each answer is one computed in  *)
(* a single step from all the snapshots published by then: no handler sees *)
(* half an update, the labels and all the histories are of the same        *)
(* snapshots, and the lowest and the highest are those of all of them.     *)
THEOREM AnswersAreAtomic == Spec => ImplementsAtomicStore
  BY InitRefines, NextRefines, Invariance, PTL
     DEF Spec, Atomic!Spec, ImplementsAtomicStore
=============================================================================
