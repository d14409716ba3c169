------------------------------ MODULE AuthLog ------------------------------
(***************************************************************************)
(* The security log of manage/logs.go: what the two viewers of the page    *)
(* ask for, and how LogReader scans the file, line by line, while syslog   *)
(* appends to it and logrotate puts a new one in its place.  A viewer asks *)
(* for the last MaxLines lines: "auth" for all (Tail), "ssh" for those of  *)
(* sshd about a login (SSHLogs).                                           *)
(*                                                                         *)
(* A line is its number in the whole log, of all files.  A renamed file    *)
(* that a reader has open ends where the next one starts.  Syslog writes   *)
(* whole lines.  The dates of the lines are left out.                      *)
(***************************************************************************)
EXTENDS Integers, SequencesExt

CONSTANTS
  Loads,     \* loads of a viewer that may be under way at a time
  MaxLines,  \* ?lines=, 80 by the page and by default
  MaxLog     \* bound: lines ever written

ASSUME AuthLogAssumption == MaxLines \in Nat \ {0}

VARIABLES
  log,     \* the kinds of the lines written so far
  starts,  \* how many of them are in files rotated away
  load     \* load -> its record, NoLoad if not under way

logVars == <<log, starts, load>>

\* A "long" line exceeds the buffer of bufio.Scanner, 64 KiB.
Lines == {"login", "other", "long"}

Viewers == {"auth", "ssh"}

Matches(viewer, line) == viewer = "auth" \/ line = "login"

\* A load: its viewer, how far it is, the lines written when it was asked for,
\* those before the file it opened and up to the end of that file, Growing while
\* it is not rotated away, those scanned, the lines got and whether the answer is 200.
Growing == -1
NoLoad == [viewer |-> "none", stage |-> "idle", asked |-> 0, from |-> 0,
           upto |-> Growing, at |-> 0, got |-> <<>>, ok |-> FALSE]

LogInit ==
  /\ log = <<>>
  /\ starts = 0
  /\ load = [l \in Loads |-> NoLoad]

-----------------------------------------------------------------------------
(* The page                                                                *)

\* fetchAuthLogs, fetchSSHLogs: the page is loaded or a button clicked.
FetchLogs(l, viewer) ==
  /\ load[l] = NoLoad
  /\ load' = [load EXCEPT ![l] = [NoLoad EXCEPT
       !.viewer = viewer, !.stage = "sent", !.asked = Len(log)]]
  /\ UNCHANGED <<log, starts>>

\* The request or its answer is lost.
LoseLoad(l) ==
  /\ load[l].stage \in {"sent", "answered"}
  /\ load' = [load EXCEPT ![l].stage = "answered", ![l].ok = FALSE]
  /\ UNCHANGED <<log, starts>>

\* The code after await mockFetch(...): the viewer is drawn anew, with the
\* answer or, where there is none, with lines made up by the page.
RenderLogs(l) ==
  /\ load[l].stage = "answered"
  /\ load' = [load EXCEPT ![l] = NoLoad]
  /\ UNCHANGED <<log, starts>>

-----------------------------------------------------------------------------
(* The reader                                                              *)

OpenLog(l) ==
  /\ load[l].stage = "sent"
  /\ UNCHANGED <<log, starts>>
  /\ \/ load' = [load EXCEPT ![l].stage = "reading", ![l].from = starts, ![l].at = starts]
     \/ load' = [load EXCEPT ![l].stage = "answered"]

\* How far the file of load l goes.
End(l) == IF load[l].upto = Growing THEN Len(log) ELSE load[l].upto

MutLastOfOff(lines) ==
  SubSeq(lines, IF Len(lines) > MaxLines THEN Len(lines) - MaxLines ELSE 1, Len(lines))

LastOf(lines) ==
  SubSeq(lines, IF Len(lines) > MaxLines THEN Len(lines) - MaxLines + 1 ELSE 1, Len(lines))

MutScanLineNoErr(l) ==
  LET line == load[l].at + 1
  IN  /\ load[l].stage = "reading" /\ line <= End(l)
      /\ IF log[line] = "long"
         THEN load' = [load EXCEPT ![l].stage = "answered", ![l].ok = TRUE,
                                   ![l].got = LastOf(@)]
         ELSE load' = [load EXCEPT
                ![l].at  = line,
                ![l].got = IF Matches(load[l].viewer, log[line]) THEN Append(@, line) ELSE @]
      /\ UNCHANGED <<log, starts>>

\* The loop of Tail and SSHLogs: a line is kept if it is one of those asked for; one
\* too long for the scanner fails the whole read.
ScanLine(l) ==
  LET line == load[l].at + 1
  IN  /\ load[l].stage = "reading" /\ line <= End(l)
      /\ IF log[line] = "long"
         THEN load' = [load EXCEPT ![l].stage = "answered", ![l].got = <<>>]
         ELSE load' = [load EXCEPT
                ![l].at  = line,
                ![l].got = IF Matches(load[l].viewer, log[line]) THEN Append(@, line) ELSE @]
      /\ UNCHANGED <<log, starts>>

\* The scanner finds the end of the file; the last lines of those kept are returned.
EndScan(l) ==
  /\ load[l].stage = "reading" /\ load[l].at = End(l)
  /\ load' = [load EXCEPT ![l].stage = "answered", ![l].ok = TRUE, ![l].got = LastOf(@)]
  /\ UNCHANGED <<log, starts>>

-----------------------------------------------------------------------------
(* The host                                                                *)

\* syslog
WriteLine(line) ==
  /\ Len(log) < MaxLog
  /\ log' = Append(log, line)
  /\ UNCHANGED <<starts, load>>

\* logrotate, which leaves an empty file alone.
Rotate ==
  /\ Len(log) > starts
  /\ starts' = Len(log)
  /\ load' = [l \in Loads |->
       IF load[l].stage = "reading" /\ load[l].upto = Growing
       THEN [load[l] EXCEPT !.upto = Len(log)] ELSE load[l]]
  /\ UNCHANGED log

LogNext ==
  \/ \E l \in Loads :
       \/ \E v \in Viewers : FetchLogs(l, v)
       \/ LoseLoad(l)
       \/ RenderLogs(l)
       \/ OpenLog(l)
       \/ ScanLine(l)
       \/ EndScan(l)
  \/ \E k \in Lines : WriteLine(k)
  \/ Rotate

LogSpec == LogInit /\ [][LogNext]_logVars

-----------------------------------------------------------------------------
LogTypeOK ==
  /\ log \in Seq(Lines)
  /\ starts \in 0..Len(log)
  /\ \A l \in Loads :
       /\ load[l].viewer \in Viewers \cup {"none"}
       /\ load[l].stage \in {"idle", "sent", "reading", "answered"}
       /\ load[l].asked \in 0..Len(log)
       /\ load[l].from \in 0..starts
       /\ load[l].upto \in {Growing} \cup (load[l].from .. starts)
       /\ load[l].at \in load[l].from .. End(l)
       /\ load[l].stage = "answered" => Len(load[l].got) <= MaxLines
       /\ Range(load[l].got) \subseteq (load[l].from + 1) .. load[l].at
       /\ load[l].ok => load[l].stage = "answered"

\* A viewer that is drawn from an answer shows only lines it asks for, in their
\* order, and misses none that was in the file it read when the load was asked
\* for, unless it shows as many lines as it asked for, all later: whatever was
\* written and rotated away while the file was scanned (logs.go, Tail and SSHLogs).
TailComplete ==
  [][\A l \in Loads :
       load[l].stage = "answered" /\ load'[l] = NoLoad /\ load[l].ok =>
         LET got == load[l].got
             Asked(i) == Matches(load[l].viewer, log[i])
         IN  /\ \A i \in Range(got) : Asked(i)
             /\ \A i, j \in DOMAIN got : i < j => got[i] < got[j]
             /\ \A i \in (load[l].from + 1) .. load[l].asked :
                  Asked(i) => \/ i \in Range(got)
                              \/ Len(got) = MaxLines /\ i < got[1]]_logVars
=============================================================================
