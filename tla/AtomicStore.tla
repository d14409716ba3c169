----------------------------- MODULE AtomicStore -----------------------------
(***************************************************************************)
(* What the metrics store promises its readers: snapshots are published    *)
(* one after the other, and an answer is computed from all the snapshots   *)
(* published so far, at one point in time.  A history answer holds the     *)
(* latest HistorySize of them, the same ones in every series and in the    *)
(* labels; a live answer holds the latest value of every series, with the  *)
(* lowest and the highest since the program started.                       *)
(***************************************************************************)
EXTENDS Integers, Sequences

CONSTANTS
  Clients,      \* HTTP handlers
  SeriesNames,  \* the series kept
  Snapshots,    \* the snapshots that may be published
  HistorySize   \* length of a rolling history

VARIABLES
  published,    \* every snapshot published, in order
  answer        \* client -> the last answer it got

storeVars == <<published, answer>>

NoAnswer == [kind |-> "none"]

\* The latest n elements of sequence q.
LatestOf(q, n) == IF Len(q) > n THEN SubSeq(q, Len(q) - n + 1, Len(q)) ELSE q

HistoryOf(q) ==
  LET latest == LatestOf(q, HistorySize)
  IN  [kind   |-> "history",
       labels |-> [i \in 1..Len(latest) |-> latest[i].at],
       points |-> [x \in SeriesNames |->
                     [i \in 1..Len(latest) |-> latest[i].value[x]]]]

Lowest(V)  == CHOOSE v \in V : \A w \in V : v <= w
Highest(V) == CHOOSE v \in V : \A w \in V : v >= w

LiveOf(q) ==
  IF q = <<>>
  THEN [kind |-> "live", at |-> 0,
        sensors |-> [x \in SeriesNames |-> [value |-> 0, min |-> 0, max |-> 0]]]
  ELSE [kind |-> "live", at |-> q[Len(q)].at,
        sensors |-> [x \in SeriesNames |->
          LET all == {q[i].value[x] : i \in 1..Len(q)}
          IN  [value |-> q[Len(q)].value[x], min |-> Lowest(all), max |-> Highest(all)]]]

Init ==
  /\ published = <<>>
  /\ answer = [c \in Clients |-> NoAnswer]

Publish(s) ==
  /\ published' = Append(published, s)
  /\ UNCHANGED answer

Answer(c) ==
  /\ \/ answer' = [answer EXCEPT ![c] = HistoryOf(published)]
     \/ answer' = [answer EXCEPT ![c] = LiveOf(published)]
  /\ UNCHANGED published

Next ==
  \/ \E s \in Snapshots : Publish(s)
  \/ \E c \in Clients : Answer(c)

Spec == Init /\ [][Next]_storeVars
=============================================================================
