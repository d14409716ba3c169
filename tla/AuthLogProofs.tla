---------------------------- MODULE AuthLogProofs ----------------------------
(***************************************************************************)
(* What a load of a log viewer gets, for logs, limits and loads of any     *)
(* number: the last lines asked for of the file that was opened, wherever  *)
(* syslog and logrotate have got to.                                       *)
(***************************************************************************)
EXTENDS AuthLog, TLAPS, SequenceTheorems, FiniteSetTheorems

Increasing(q) == \A i, j \in 1..Len(q) : i < j => q[i] < q[j]

-----------------------------------------------------------------------------
(* The scan of a file                                                      *)

\* One line more is kept, which comes after all those kept so far.
LEMMA KeepOneMore ==
  ASSUME NEW q \in Seq(Nat), Increasing(q), NEW v \in Nat, \A w \in Range(q) : w < v
  PROVE  /\ Append(q, v) \in Seq(Nat)
         /\ Increasing(Append(q, v))
         /\ Range(Append(q, v)) = Range(q) \cup {v}
<1> DEFINE r == Append(q, v)
<1>1. /\ r \in Seq(Nat) /\ Len(r) = Len(q) + 1 /\ Len(q) \in Nat
      /\ DOMAIN r = 1..(Len(q) + 1) /\ DOMAIN q = 1..Len(q)
      /\ \A i \in 1..Len(q) : r[i] = q[i]
      /\ r[Len(q) + 1] = v
  OBVIOUS
<1> HIDE DEF r
<1>2. \A i \in 1..Len(q) : q[i] \in Range(q)
  BY <1>1 DEF Range
<1>3. Increasing(r)
  <2> SUFFICES ASSUME NEW i \in 1..Len(r), NEW j \in 1..Len(r), i < j PROVE r[i] < r[j]
    BY DEF Increasing
  <2>1. i \in 1..Len(q)
    BY <1>1
  <2>2. CASE j = Len(q) + 1
    BY <1>1, <1>2, <2>1, <2>2
  <2>3. CASE j # Len(q) + 1
    <3>0. j \in 1..(Len(q) + 1) /\ Len(q) \in Nat
      BY <1>1
    <3>1. j \in 1..Len(q)
      BY <2>3, <3>0
    <3> QED
      BY <1>1, <2>1, <3>1 DEF Increasing
  <2> QED
    BY <2>2, <2>3
<1>4. Range(r) = Range(q) \cup {v}
  <2>1. \A i \in DOMAIN r : r[i] \in Range(q) \cup {v}
    BY <1>1, <1>2, SMTT(30)
  <2>2. \A i \in DOMAIN q : q[i] \in Range(r)
    BY <1>1 DEF Range
  <2>3. v \in Range(r)
    <3>1. Len(q) + 1 \in DOMAIN r /\ r[Len(q) + 1] = v
      BY <1>1
    <3> QED
      BY <3>1 DEF Range
  <2> QED
    BY <2>1, <2>2, <2>3 DEF Range
<1> QED
  BY <1>1, <1>3, <1>4 DEF r

-----------------------------------------------------------------------------
(* The last lines of it                                                    *)

LEMMA LastOfIs ==
  ASSUME NEW q \in Seq(Nat)
  PROVE  \E d \in 0..Len(q) :
           /\ LastOf(q) \in Seq(Nat)
           /\ Len(LastOf(q)) = Len(q) - d
           /\ \A i \in 1..Len(LastOf(q)) : LastOf(q)[i] = q[d + i]
           /\ Len(LastOf(q)) <= MaxLines
           /\ d > 0 => Len(LastOf(q)) = MaxLines
<1> DEFINE d == IF Len(q) > MaxLines THEN Len(q) - MaxLines ELSE 0
           t == LastOf(q)
<1>1. /\ Len(q) \in Nat /\ MaxLines \in Nat /\ MaxLines > 0 /\ d \in 0..Len(q)
      /\ Len(q) - d <= MaxLines /\ (d > 0 => Len(q) - d = MaxLines)
  BY AuthLogAssumption
<1>2. t = SubSeq(q, d + 1, Len(q))
  BY <1>1 DEF LastOf
<1> HIDE DEF d, t
<1>3. \A i \in (d + 1)..Len(q) : q[i] \in Nat
  BY <1>1
<1>4. /\ t \in Seq(Nat)
      /\ Len(t) = IF d + 1 <= Len(q) THEN Len(q) - (d + 1) + 1 ELSE 0
      /\ \A i \in 1..(Len(q) - (d + 1) + 1) : t[i] = q[d + 1 + i - 1]
  <2>1. d + 1 \in Int /\ Len(q) \in Int
    BY <1>1
  <2> QED
    BY <1>2, <1>3, <2>1, SubSeqProperties
<1>5. Len(t) = Len(q) - d /\ \A i \in 1..Len(t) : t[i] = q[d + i]
  <2>1. Len(t) = Len(q) - d
    BY <1>1, <1>4
  <2>2. ASSUME NEW i \in 1..Len(t) PROVE t[i] = q[d + i]
    <3>1. i \in 1..(Len(q) - (d + 1) + 1) /\ d + 1 + i - 1 = d + i
      BY <1>1, <2>1
    <3> QED
      BY <1>4, <3>1
  <2> QED
    BY <2>1, <2>2
<1> QED
  BY <1>1, <1>4, <1>5 DEF t

LEMMA LastOfKeeps ==
  ASSUME NEW q \in Seq(Nat), Increasing(q)
  PROVE  /\ LastOf(q) \in Seq(Nat) /\ Len(LastOf(q)) <= MaxLines
         /\ Increasing(LastOf(q))
         /\ Range(LastOf(q)) \subseteq Range(q)
         /\ \A v \in Range(q) :
              \/ v \in Range(LastOf(q))
              \/ Len(LastOf(q)) = MaxLines /\ v < LastOf(q)[1]
<1> DEFINE t == LastOf(q)
<1>1. PICK d \in 0..Len(q) :
         /\ t \in Seq(Nat) /\ Len(t) = Len(q) - d
         /\ \A i \in 1..Len(t) : t[i] = q[d + i]
         /\ Len(t) <= MaxLines /\ (d > 0 => Len(t) = MaxLines)
  BY LastOfIs
<1> HIDE DEF t
<1>2. /\ Len(q) \in Nat /\ Len(t) \in Nat /\ DOMAIN t = 1..Len(t) /\ DOMAIN q = 1..Len(q)
      /\ MaxLines \in Nat \ {0}
  BY <1>1, AuthLogAssumption
<1>3. \A i \in 1..Len(t) : d + i \in 1..Len(q)
  BY <1>1, <1>2
<1>4. Increasing(t)
  <2> SUFFICES ASSUME NEW i \in 1..Len(t), NEW j \in 1..Len(t), i < j PROVE t[i] < t[j]
    BY DEF Increasing
  <2>1. d + i \in 1..Len(q) /\ d + j \in 1..Len(q) /\ d + i < d + j
    BY <1>1, <1>3
  <2> QED
    BY <1>1, <2>1 DEF Increasing
<1>5. Range(t) \subseteq Range(q)
  BY <1>1, <1>2, <1>3 DEF Range
<1>6. ASSUME NEW v \in Range(q)
      PROVE  v \in Range(t) \/ (Len(t) = MaxLines /\ v < t[1])
  <2>1. PICK i \in 1..Len(q) : v = q[i]
    BY <1>2 DEF Range
  <2>2. CASE i > d
    <3>1. i - d \in 1..Len(t) /\ d + (i - d) = i
      BY <1>1, <1>2, <2>2
    <3>2. t[i - d] = q[i]
      BY <1>1, <3>1
    <3> QED
      BY <1>2, <2>1, <3>1, <3>2 DEF Range
  <2>3. CASE ~(i > d)
    <3>1. d > 0 /\ Len(t) = MaxLines /\ 1 \in 1..Len(t)
      BY <1>1, <1>2, <2>3
    <3>2. d + 1 \in 1..Len(q) /\ i < d + 1 /\ t[1] = q[d + 1]
      BY <1>1, <1>3, <2>3, <3>1
    <3>3. q[i] < q[d + 1]
      BY <3>2 DEF Increasing
    <3> QED
      BY <2>1, <3>1, <3>2, <3>3
  <2> QED
    BY <2>2, <2>3
<1> QED
  BY <1>1, <1>4, <1>5, <1>6 DEF t

-----------------------------------------------------------------------------
(* The loads                                                               *)

Loading == [viewer : Viewers \cup {"none"}, stage : {"idle", "sent", "reading", "answered"},
            asked : Nat, from : Nat, upto : Int, at : Nat, got : Seq(Nat), ok : BOOLEAN]

\* What load r has got is lines asked for out of those scanned, in their order; all of
\* them while it scans, and in an answer as many as it may at most; an answer that is
\* 200 leaves out only earlier lines of those that had been written when it was asked
\* for.
GotInv(r) ==
  /\ r.stage = "answered" => Len(r.got) <= MaxLines
  /\ Increasing(r.got)
  /\ \A i \in Range(r.got) : i \in (r.from + 1)..r.at /\ Matches(r.viewer, log[i])
  /\ r.stage = "reading" => \A i \in (r.from + 1)..r.at :
       Matches(r.viewer, log[i]) => i \in Range(r.got)
  /\ r.ok => \A i \in (r.from + 1)..r.asked :
       Matches(r.viewer, log[i]) =>
         \/ i \in Range(r.got)
         \/ Len(r.got) = MaxLines /\ i < r.got[1]

\* A file that was rotated away ends after what had been written when it was
\* asked for; the scan has not gone beyond the end.
FileInv(r) ==
  /\ r.asked <= Len(log)
  /\ r.from <= starts /\ r.from <= r.at /\ r.at <= Len(log)
  /\ r.upto # Growing =>
       r.from <= r.upto /\ r.upto <= starts /\ r.asked <= r.upto /\ r.at <= r.upto
  /\ r.stage \in {"idle", "sent"} =>
       r.got = <<>> /\ r.upto = Growing /\ r.from = 0 /\ r.at = 0
  /\ r.ok => r.stage = "answered"

LogInv ==
  /\ log \in Seq(Lines)
  /\ starts \in 0..Len(log)
  /\ load \in [Loads -> Loading]
  /\ \A l \in Loads : FileInv(load[l]) /\ GotInv(load[l])

LEMMA EmptyGot ==
  Len(<<>>) = 0 /\ <<>> \in Seq(Nat) /\ Increasing(<<>>) /\ Range(<<>>) = {}
  BY DEF Increasing, Range

LEMMA NoLoadRight ==
  ASSUME log \in Seq(Lines), starts \in 0..Len(log)
  PROVE  NoLoad \in Loading /\ FileInv(NoLoad) /\ GotInv(NoLoad)
<1>1. /\ NoLoad \in Loading /\ NoLoad.got = <<>> /\ NoLoad.asked = 0 /\ NoLoad.from = 0
      /\ NoLoad.at = 0
      /\ NoLoad.upto = Growing /\ NoLoad.stage = "idle" /\ NoLoad.ok = FALSE
  BY DEF NoLoad, Loading, Growing
<1>2. Len(log) \in Nat
  OBVIOUS
<1>3. FileInv(NoLoad)
  BY <1>1, <1>2 DEF FileInv
<1>4. GotInv(NoLoad)
  BY <1>1, EmptyGot, AuthLogAssumption DEF GotInv
<1> QED
  BY <1>1, <1>3, <1>4

LEMMA InitInv == LogInit => LogInv
<1> SUFFICES ASSUME LogInit PROVE LogInv
  OBVIOUS
<1>1. log \in Seq(Lines) /\ starts \in 0..Len(log) /\ load = [l \in Loads |-> NoLoad]
  BY DEF LogInit
<1> QED
  BY <1>1, NoLoadRight DEF LogInv

\* How far the file of a load goes that is under way.
LEMMA EndIs ==
  ASSUME LogInv, NEW l \in Loads
  PROVE  End(l) \in load[l].at .. Len(log) /\ load[l].asked <= End(l)
<1> DEFINE r == load[l]
<1>1. r \in Loading /\ FileInv(r) /\ Len(log) \in Nat /\ starts \in 0..Len(log)
  BY DEF LogInv
<1>2. End(l) = IF r.upto = Growing THEN Len(log) ELSE r.upto
  BY DEF End
<1> HIDE DEF r
<1>3. End(l) \in r.at .. Len(log) /\ r.asked <= End(l)
  BY <1>1, <1>2 DEF FileInv, Loading
<1> QED
  BY <1>3 DEF r

\* A step of one load.
LEMMA OneLoad ==
  ASSUME LogInv, UNCHANGED <<log, starts>>, NEW l \in Loads, NEW r \in Loading,
         load' = [load EXCEPT ![l] = r], FileInv(r), GotInv(r)
  PROVE  LogInv'
<1>1. load' \in [Loads -> Loading]
  BY DEF LogInv
<1>2. ASSUME NEW m \in Loads PROVE FileInv(load[m])' /\ GotInv(load[m])'
  <2>1. load'[m] = r \/ load'[m] = load[m]
    BY DEF LogInv
  <2>2. FileInv(load'[m]) /\ GotInv(load'[m])
    BY <2>1 DEF LogInv
  <2> QED
    BY <2>2 DEF FileInv, GotInv
<1> QED
  BY <1>1, <1>2 DEF LogInv

LEMMA FetchLogsSafe ==
  ASSUME LogInv, NEW l \in Loads, NEW v \in Viewers, FetchLogs(l, v)
  PROVE  LogInv'
<1> DEFINE r == [NoLoad EXCEPT !.viewer = v, !.stage = "sent", !.asked = Len(log)]
<1>1. /\ NoLoad \in Loading /\ NoLoad.got = <<>> /\ NoLoad.from = 0
      /\ NoLoad.upto = Growing /\ NoLoad.at = 0 /\ NoLoad.ok = FALSE
  BY DEF NoLoad, Loading, Growing
<1>2. Len(log) \in Nat /\ starts \in Nat
  BY DEF LogInv
<1>3. /\ r \in Loading /\ r.got = <<>> /\ r.from = 0 /\ r.asked = Len(log)
      /\ r.upto = Growing /\ r.at = 0 /\ r.ok = FALSE /\ r.stage = "sent"
  BY <1>1, <1>2 DEF Loading
<1>4. load' = [load EXCEPT ![l] = r] /\ UNCHANGED <<log, starts>>
  BY DEF FetchLogs
<1> HIDE DEF r
<1>5. FileInv(r) /\ GotInv(r)
  BY <1>2, <1>3, EmptyGot, AuthLogAssumption DEF FileInv, GotInv
<1> QED
  BY <1>3, <1>4, <1>5, OneLoad

LEMMA LoseLoadSafe ==
  ASSUME LogInv, NEW l \in Loads, LoseLoad(l)
  PROVE  LogInv'
<1> DEFINE r == [load[l] EXCEPT !.stage = "answered", !.ok = FALSE]
<1>1. /\ load[l] \in Loading /\ FileInv(load[l]) /\ GotInv(load[l])
      /\ load[l].stage \in {"sent", "answered"}
  BY DEF LogInv, LoseLoad
<1>2. /\ r \in Loading /\ r.stage = "answered" /\ r.ok = FALSE /\ r.viewer = load[l].viewer
      /\ r.asked = load[l].asked /\ r.from = load[l].from /\ r.upto = load[l].upto
      /\ r.at = load[l].at /\ r.got = load[l].got
  BY <1>1 DEF Loading
<1>3. load' = [load EXCEPT ![l] = r] /\ UNCHANGED <<log, starts>>
  BY DEF LoseLoad, LogInv
<1> HIDE DEF r
<1>4. Len(load[l].got) <= MaxLines
  BY <1>1, EmptyGot, AuthLogAssumption DEF FileInv, GotInv
<1>5. FileInv(r) /\ GotInv(r)
  BY <1>1, <1>2, <1>4 DEF FileInv, GotInv
<1> QED
  BY <1>2, <1>3, <1>5, OneLoad

LEMMA RenderLogsSafe ==
  ASSUME LogInv, NEW l \in Loads, RenderLogs(l)
  PROVE  LogInv'
<1>1. load' = [load EXCEPT ![l] = NoLoad] /\ UNCHANGED <<log, starts>>
  BY DEF RenderLogs
<1>2. NoLoad \in Loading /\ FileInv(NoLoad) /\ GotInv(NoLoad)
  BY NoLoadRight DEF LogInv
<1> QED
  BY <1>1, <1>2, OneLoad

LEMMA OpenLogSafe ==
  ASSUME LogInv, NEW l \in Loads, OpenLog(l)
  PROVE  LogInv'
<1> DEFINE opened == [load[l] EXCEPT !.stage = "reading", !.from = starts, !.at = starts]
           failed == [load[l] EXCEPT !.stage = "answered"]
<1>1. /\ load[l] \in Loading /\ FileInv(load[l]) /\ GotInv(load[l]) /\ load[l].stage = "sent"
      /\ starts \in Nat /\ starts <= Len(log) /\ UNCHANGED <<log, starts>>
  BY DEF LogInv, OpenLog
<1>2. /\ load[l].got = <<>> /\ load[l].upto = Growing /\ load[l].ok = FALSE
      /\ load[l].from = 0 /\ load[l].at = 0
  <2>1. ~load[l].ok /\ load[l].ok \in BOOLEAN
    BY <1>1 DEF FileInv, Loading
  <2> QED
    BY <1>1, <2>1 DEF FileInv
<1>3. /\ opened \in Loading /\ opened.stage = "reading" /\ opened.from = starts
      /\ opened.asked = load[l].asked /\ opened.upto = Growing /\ opened.got = <<>>
      /\ opened.ok = FALSE /\ opened.at = starts
  BY <1>1, <1>2 DEF Loading
<1>4. /\ failed \in Loading /\ failed.stage = "answered" /\ failed.from = 0 /\ failed.at = 0
      /\ failed.asked = load[l].asked /\ failed.upto = Growing /\ failed.got = <<>>
      /\ failed.ok = FALSE
  BY <1>1, <1>2 DEF Loading
<1>5. load' = [load EXCEPT ![l] = opened] \/ load' = [load EXCEPT ![l] = failed]
  BY DEF OpenLog, LogInv
<1> HIDE DEF opened, failed
<1>6. FileInv(opened) /\ GotInv(opened)
  <2>1. FileInv(opened)
    BY <1>1, <1>3 DEF FileInv
  <2>2. \A i \in (opened.from + 1)..opened.at : FALSE
    BY <1>1, <1>3
  <2> QED
    BY <1>3, <2>1, <2>2, EmptyGot DEF GotInv
<1>7. FileInv(failed) /\ GotInv(failed)
  BY <1>1, <1>4, EmptyGot, AuthLogAssumption DEF FileInv, GotInv
<1>8. CASE load' = [load EXCEPT ![l] = opened]
  BY <1>1, <1>3, <1>6, <1>8, OneLoad
<1>9. CASE load' = [load EXCEPT ![l] = failed]
  BY <1>1, <1>4, <1>7, <1>9, OneLoad
<1> QED
  BY <1>5, <1>8, <1>9

\* A line scanned is kept if it was asked for; with one too long nothing is.
LEMMA ScanLineSafe ==
  ASSUME LogInv, NEW l \in Loads, ScanLine(l)
  PROVE  LogInv'
<1> DEFINE o == load[l]
           line == o.at + 1
           kept == IF Matches(o.viewer, log[line]) THEN Append(o.got, line) ELSE o.got
           failed == [o EXCEPT !.stage = "answered", !.got = <<>>]
           further == [o EXCEPT !.at = line, !.got = kept]
<1>1. /\ o \in Loading /\ FileInv(o) /\ GotInv(o) /\ o.stage = "reading"
      /\ line <= End(l) /\ UNCHANGED <<log, starts>>
  BY DEF LogInv, ScanLine
<1>2. load' = [load EXCEPT ![l] = failed] \/ load' = [load EXCEPT ![l] = further]
  BY DEF ScanLine, LogInv
<1>3. /\ o.at \in Nat /\ o.from \in Nat /\ o.upto \in Int /\ o.got \in Seq(Nat) /\ o.ok = FALSE
      /\ o.from <= o.at /\ line <= Len(log) /\ Len(log) \in Nat
      /\ o.upto # Growing => line <= o.upto
  <2>1. End(l) = IF o.upto = Growing THEN Len(log) ELSE o.upto
    BY DEF End
  <2>2. End(l) <= Len(log) /\ Len(log) \in Nat /\ End(l) \in Int
    BY EndIs DEF LogInv
  <2> QED
    BY <1>1, <2>1, <2>2 DEF Loading, FileInv
<1> HIDE DEF o
<1>4. CASE load' = [load EXCEPT ![l] = failed]
  <2>1. /\ failed \in Loading /\ failed.stage = "answered" /\ failed.got = <<>>
        /\ failed.ok = FALSE /\ failed.asked = o.asked /\ failed.from = o.from
        /\ failed.upto = o.upto /\ failed.at = o.at
    <3>1. o \in Loading /\ <<>> \in Seq(Nat)
      BY <1>1, EmptyGot
    <3>2. failed \in Loading /\ failed.ok = o.ok
      BY <3>1 DEF Loading
    <3>3. /\ failed.stage = "answered" /\ failed.got = <<>>
          /\ failed.asked = o.asked /\ failed.from = o.from
          /\ failed.upto = o.upto /\ failed.at = o.at
      BY <3>1 DEF Loading
    <3> QED
      BY <1>3, <3>2, <3>3
  <2> HIDE DEF failed
  <2>2. FileInv(failed) /\ GotInv(failed)
    BY <1>1, <2>1, EmptyGot, AuthLogAssumption DEF FileInv, GotInv
  <2> QED
    BY <1>1, <1>4, <2>1, <2>2, OneLoad
<1>5. CASE load' = [load EXCEPT ![l] = further]
  <2>1. /\ kept \in Seq(Nat) /\ Increasing(kept)
        /\ Range(kept) = Range(o.got) \cup
             (IF Matches(o.viewer, log[line]) THEN {line} ELSE {})
    <3>1. Increasing(o.got) /\ \A w \in Range(o.got) : w < line
      BY <1>1, <1>3 DEF GotInv
    <3>2. line \in Nat
      BY <1>3
    <3> HIDE DEF line
    <3> QED
      BY <1>3, <3>1, <3>2, KeepOneMore
  <2> HIDE DEF kept
  <2>2. /\ further \in Loading /\ further.stage = "reading" /\ further.got = kept
        /\ further.ok = FALSE /\ further.asked = o.asked /\ further.from = o.from
        /\ further.upto = o.upto /\ further.at = line /\ further.viewer = o.viewer
    <3>1. o \in Loading /\ line \in Nat /\ kept \in Seq(Nat)
      BY <1>1, <1>3, <2>1
    <3> HIDE DEF line
    <3>2. further \in Loading /\ further.ok = o.ok
      BY <3>1 DEF Loading
    <3>3. /\ further.stage = o.stage /\ further.got = kept
          /\ further.asked = o.asked /\ further.from = o.from
          /\ further.upto = o.upto /\ further.at = line /\ further.viewer = o.viewer
      BY <3>1 DEF Loading
    <3> QED
      BY <1>1, <1>3, <3>2, <3>3
  <2> HIDE DEF further
  <2>3. FileInv(further)
    BY <1>1, <1>3, <2>2 DEF FileInv
  <2>4. \A i \in Range(kept) : i \in (o.from + 1)..line /\ Matches(o.viewer, log[i])
    BY <1>1, <1>3, <2>1 DEF GotInv
  <2>5. \A i \in (o.from + 1)..line : Matches(o.viewer, log[i]) => i \in Range(kept)
    <3> SUFFICES ASSUME NEW i \in (o.from + 1)..line, Matches(o.viewer, log[i])
                 PROVE  i \in Range(kept)
      OBVIOUS
    <3>1. i = line \/ i \in (o.from + 1)..o.at
      BY <1>3
    <3> QED
      BY <1>1, <2>1, <3>1 DEF GotInv
  <2>6. GotInv(further)
    BY <2>1, <2>2, <2>4, <2>5 DEF GotInv
  <2> QED
    BY <1>1, <1>5, <2>2, <2>3, <2>6, OneLoad
<1> QED
  BY <1>2, <1>4, <1>5

\* At the end of the file all lines asked for are kept; the last of them are returned.
LEMMA EndScanSafe ==
  ASSUME LogInv, NEW l \in Loads, EndScan(l)
  PROVE  LogInv'
<1> DEFINE o == load[l]
           t == LastOf(o.got)
           r == [o EXCEPT !.stage = "answered", !.ok = TRUE, !.got = t]
<1>1. /\ o \in Loading /\ FileInv(o) /\ GotInv(o) /\ o.stage = "reading"
      /\ o.at = End(l) /\ UNCHANGED <<log, starts>>
  BY DEF LogInv, EndScan
<1>2. load' = [load EXCEPT ![l] = r]
  BY DEF EndScan, LogInv
<1>3. /\ o.at \in Nat /\ o.from \in Nat /\ o.got \in Seq(Nat) /\ Increasing(o.got)
      /\ o.asked \in Nat /\ o.asked <= o.at
  BY <1>1, EndIs DEF Loading, GotInv
<1> HIDE DEF o
<1>4. /\ t \in Seq(Nat) /\ Len(t) <= MaxLines /\ Increasing(t) /\ Range(t) \subseteq Range(o.got)
      /\ \A v \in Range(o.got) : v \in Range(t) \/ (Len(t) = MaxLines /\ v < t[1])
  BY <1>3, LastOfKeeps
<1> HIDE DEF t
<1>5. /\ r \in Loading /\ r.stage = "answered" /\ r.ok = TRUE /\ r.got = t
      /\ r.asked = o.asked /\ r.from = o.from /\ r.upto = o.upto /\ r.at = o.at
      /\ r.viewer = o.viewer
  BY <1>1, <1>4 DEF Loading
<1> HIDE DEF r
<1>6. FileInv(r)
  BY <1>1, <1>5 DEF FileInv
<1>7. \A i \in (o.from + 1)..o.asked :
        Matches(o.viewer, log[i]) => i \in Range(t) \/ (Len(t) = MaxLines /\ i < t[1])
  <2>1. \A i \in (o.from + 1)..o.asked : i \in (o.from + 1)..o.at
    BY <1>3
  <2> QED
    BY <1>1, <1>4, <2>1 DEF GotInv
<1>8. \A i \in Range(t) : i \in (o.from + 1)..o.at /\ Matches(o.viewer, log[i])
  BY <1>1, <1>4 DEF GotInv
<1>9. GotInv(r)
  BY <1>4, <1>5, <1>7, <1>8 DEF GotInv
<1> QED
  BY <1>1, <1>2, <1>5, <1>6, <1>9, OneLoad

\* A line more changes nothing about those written before.
LEMMA WriteLineSafe ==
  ASSUME LogInv, NEW line \in Lines, WriteLine(line)
  PROVE  LogInv'
<1>1. /\ log' = Append(log, line) /\ UNCHANGED <<starts, load>>
      /\ log \in Seq(Lines) /\ starts \in 0..Len(log) /\ load \in [Loads -> Loading]
  BY DEF WriteLine, LogInv
<1>2. /\ log' \in Seq(Lines) /\ Len(log') = Len(log) + 1 /\ Len(log) \in Nat
      /\ \A i \in 1..Len(log) : log'[i] = log[i]
  BY <1>1
<1>3. ASSUME NEW l \in Loads PROVE FileInv(load[l])' /\ GotInv(load[l])'
  <2> DEFINE r == load[l]
  <2>1. r \in Loading /\ FileInv(r) /\ GotInv(r) /\ load'[l] = r
    BY <1>1 DEF LogInv
  <2>2. r.asked \in Nat /\ r.from \in Nat /\ r.at \in Nat /\ r.at <= Len(log)
    BY <2>1 DEF Loading, FileInv
  <2> HIDE DEF r
  <2>3. FileInv(r)'
    BY <1>1, <1>2, <2>1, <2>2 DEF FileInv, r
  <2>4. \A i \in (r.from + 1)..r.at : log'[i] = log[i]
    BY <1>2, <2>2
  <2>8. /\ \A i \in Range(r.got) : i \in (r.from + 1)..r.at /\ Matches(r.viewer, log'[i])
        /\ r.stage = "reading" => \A i \in (r.from + 1)..r.at :
             Matches(r.viewer, log'[i]) => i \in Range(r.got)
    BY <2>1, <2>4 DEF GotInv
  <2>5. r.ok => \A i \in (r.from + 1)..r.asked :
          Matches(r.viewer, log'[i]) =>
            \/ i \in Range(r.got)
            \/ Len(r.got) = MaxLines /\ i < r.got[1]
    BY <1>2, <2>1, <2>2 DEF GotInv, FileInv
  <2>6. GotInv(load[l])'
    BY <2>1, <2>8, <2>5 DEF GotInv
  <2>7. FileInv(load[l])'
    BY <2>3 DEF r
  <2> QED
    BY <2>6, <2>7
<1>4. starts' \in 0..Len(log') /\ load' \in [Loads -> Loading]
  BY <1>1, <1>2
<1> QED
  BY <1>2, <1>3, <1>4 DEF LogInv

\* A file rotated away ends after all that has been written.
LEMMA RotateSafe ==
  ASSUME LogInv, Rotate
  PROVE  LogInv'
<1>1. /\ starts' = Len(log) /\ log' = log /\ Len(log) \in Nat /\ starts \in 0..Len(log)
      /\ load' = [l \in Loads |->
           IF load[l].stage = "reading" /\ load[l].upto = Growing
           THEN [load[l] EXCEPT !.upto = Len(log)] ELSE load[l]]
      /\ load \in [Loads -> Loading]
  BY DEF Rotate, LogInv
<1>2. ASSUME NEW l \in Loads
      PROVE  load'[l] \in Loading /\ FileInv(load[l])' /\ GotInv(load[l])'
  <2> DEFINE r == load[l]
             s == load'[l]
  <2>1. r \in Loading /\ FileInv(r) /\ GotInv(r)
    BY <1>1 DEF LogInv
  <2>2. /\ s \in Loading /\ s.got = r.got /\ s.ok = r.ok /\ s.viewer = r.viewer
        /\ s.asked = r.asked /\ s.from = r.from /\ s.stage = r.stage /\ s.at = r.at
        /\ \/ s.upto = r.upto
           \/ s.upto = Len(log) /\ r.stage = "reading"
    <3>1. CASE load[l].stage = "reading" /\ load[l].upto = Growing
      <4>1. s = [r EXCEPT !.upto = Len(log)] /\ r.stage = "reading" /\ Len(log) \in Int
        BY <1>1, <3>1
      <4> HIDE DEF r, s
      <4> QED
        BY <2>1, <4>1 DEF Loading
    <3>2. CASE ~(load[l].stage = "reading" /\ load[l].upto = Growing)
      <4>1. s = r
        BY <1>1, <3>2
      <4> QED
        BY <2>1, <4>1
    <3> QED
      BY <3>1, <3>2
  <2>3. r.asked \in Nat /\ r.from \in Nat /\ r.upto \in Int /\ r.at \in Nat
    BY <2>1 DEF Loading
  <2> HIDE DEF r, s
  <2>4. FileInv(load[l])'
    BY <1>1, <2>1, <2>2, <2>3 DEF FileInv, s
  <2>5. GotInv(load[l])'
    BY <1>1, <2>1, <2>2 DEF GotInv, s
  <2> QED
    BY <2>2, <2>4, <2>5 DEF s
<1>3. load' = [l \in Loads |-> load'[l]]
  BY <1>1
<1>4. load' \in [Loads -> Loading]
  BY <1>2, <1>3
<1> QED
  BY <1>1, <1>2, <1>4 DEF LogInv

LEMMA NextInv == LogInv /\ [LogNext]_logVars => LogInv'
<1> SUFFICES ASSUME LogInv, [LogNext]_logVars PROVE LogInv'
  OBVIOUS
<1>1. ASSUME NEW l \in Loads, NEW v \in Viewers, FetchLogs(l, v) PROVE LogInv'
  BY <1>1, FetchLogsSafe
<1>2. ASSUME NEW l \in Loads, LoseLoad(l) PROVE LogInv'
  BY <1>2, LoseLoadSafe
<1>3. ASSUME NEW l \in Loads, RenderLogs(l) PROVE LogInv'
  BY <1>3, RenderLogsSafe
<1>4. ASSUME NEW l \in Loads, OpenLog(l) PROVE LogInv'
  BY <1>4, OpenLogSafe
<1>5. ASSUME NEW l \in Loads, ScanLine(l) PROVE LogInv'
  BY <1>5, ScanLineSafe
<1>9. ASSUME NEW l \in Loads, EndScan(l) PROVE LogInv'
  BY <1>9, EndScanSafe
<1>6. ASSUME NEW line \in Lines, WriteLine(line) PROVE LogInv'
  BY <1>6, WriteLineSafe
<1>7. CASE Rotate
  BY <1>7, RotateSafe
<1>8. CASE UNCHANGED logVars
  BY <1>8 DEF logVars, LogInv, FileInv, GotInv
<1> QED
  BY <1>1, <1>2, <1>3, <1>4, <1>5, <1>6, <1>7, <1>8, <1>9 DEF LogNext

LEMMA Types == LogInv => LogTypeOK
<1> SUFFICES ASSUME LogInv PROVE LogTypeOK
  OBVIOUS
<1>1. ASSUME NEW l \in Loads
      PROVE  /\ load[l].viewer \in Viewers \cup {"none"}
             /\ load[l].stage \in {"idle", "sent", "reading", "answered"}
             /\ load[l].asked \in 0..Len(log)
             /\ load[l].from \in 0..starts
             /\ load[l].upto \in {Growing} \cup (load[l].from .. starts)
             /\ load[l].at \in load[l].from .. End(l)
             /\ load[l].stage = "answered" => Len(load[l].got) <= MaxLines
             /\ Range(load[l].got) \subseteq (load[l].from + 1) .. load[l].at
             /\ load[l].ok => load[l].stage = "answered"
  <2> DEFINE r == load[l]
  <2>1. r \in Loading /\ FileInv(r) /\ GotInv(r) /\ Len(log) \in Nat /\ starts \in 0..Len(log)
    BY DEF LogInv
  <2>2. End(l) \in r.at .. Len(log)
    BY EndIs
  <2> HIDE DEF r
  <2> QED
    BY <2>1, <2>2 DEF Loading, FileInv, GotInv, r
<1> QED
  BY <1>1 DEF LogInv, LogTypeOK

\* Every variable keeps to its type: a scan goes no further than its file, and an
\* answer has at most as many lines as were asked for (logs.go:49-57).
THEOREM TypeCorrect == LogSpec => []LogTypeOK
  BY InitInv, NextInv, Types, PTL DEF LogSpec

\* However the log grows and is rotated while a load is under way: what a viewer is
\* drawn with from an answer are lines it asks for, in their order, and none is
\* missing that the file opened had when the load was asked for, but for earlier
\* ones where the answer is full (logs.go, Tail and SSHLogs).
THEOREM TailsAreComplete == LogSpec => TailComplete
<1> DEFINE Complete ==
       \A l \in Loads :
         load[l].stage = "answered" /\ load'[l] = NoLoad /\ load[l].ok =>
           LET got == load[l].got
               Asked(i) == Matches(load[l].viewer, log[i])
           IN  /\ \A i \in Range(got) : Asked(i)
               /\ \A i, j \in DOMAIN got : i < j => got[i] < got[j]
               /\ \A i \in (load[l].from + 1) .. load[l].asked :
                    Asked(i) => \/ i \in Range(got)
                                \/ Len(got) = MaxLines /\ i < got[1]
<1>1. LogInv /\ [LogNext]_logVars => [Complete]_logVars
  <2> SUFFICES ASSUME LogInv, NEW l \in Loads, load[l].ok
               PROVE  LET got == load[l].got
                          Asked(i) == Matches(load[l].viewer, log[i])
                      IN  /\ \A i \in Range(got) : Asked(i)
                          /\ \A i, j \in DOMAIN got : i < j => got[i] < got[j]
                          /\ \A i \in (load[l].from + 1) .. load[l].asked :
                               Asked(i) => \/ i \in Range(got)
                                           \/ Len(got) = MaxLines /\ i < got[1]
    OBVIOUS
  <2>1. GotInv(load[l]) /\ load[l].got \in Seq(Nat)
    BY DEF LogInv, Loading
  <2>2. DOMAIN load[l].got = 1..Len(load[l].got)
    BY <2>1
  <2> QED
    BY <2>1, <2>2 DEF GotInv, Increasing
<1> QED
  BY <1>1, InitInv, NextInv, PTL DEF LogSpec, TailComplete
=============================================================================
