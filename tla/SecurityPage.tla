---------------------------- MODULE SecurityPage ----------------------------
(***************************************************************************)
(* The SSH allowlist of the dashboard.  When the page is loaded it asks for*)
(* the public address, which the handler gets from the first of several    *)
(* services that answers with one; a click puts the address the page knows *)
(* on the allowlist of ufw.  Where a call fails, mockFetch returns what its*)
(* caller chose.                                                           *)
(*                                                                         *)
(* A behaviour is the life of one page.  The handlers keep no state, so    *)
(* other clients matter by what they do to the allowlist: they delete from *)
(* it (what they add is theirs).                                           *)
(***************************************************************************)
EXTENDS Integers, SequencesExt

CONSTANTS
  Clicks,       \* clicks whose calls may be under way at a time
  NumServices,  \* services asked for the public address
  Texts,        \* what a service may answer
  FourPart,     \* texts of four parts with a dot in between (isValidIP)
  Addresses,    \* those which are IP addresses
  MockIP,       \* 198.51.100.99
  Unknown,      \* "unknown"
  NoText        \* no answer, a status other than 200, or a body that breaks off

ASSUME SecurityAssumption ==
  /\ NumServices \in Nat \ {0}
  /\ Addresses \subseteq FourPart
  /\ MockIP \in Addresses
  /\ Unknown \notin FourPart
  /\ NoText \notin FourPart

VARIABLES
  rules,      \* ufw: addresses allowed for SSH
  currentIP,  \* MANAGEMENT_STATE.currentIP
  detection,  \* the call of fetchCurrentIP: how far it is, what the services asked so
              \* far answered, and whether the answer is 200; lost is history: the
              \* page got no answer of the handler
  click       \* click -> the call of whitelistCurrentIP, NoClick if none

vars == <<rules, currentIP, detection, click>>

\* kept is history: the address was not deleted since the click.
NoClick == [stage |-> "idle", ip |-> Unknown, ok |-> FALSE, kept |-> TRUE]

Init ==
  /\ rules \in SUBSET Addresses
  /\ currentIP = Unknown
  /\ detection = [stage |-> "asking", heard |-> <<>>, ok |-> FALSE, lost |-> FALSE]
  /\ click = [k \in Clicks |-> NoClick]

-----------------------------------------------------------------------------
(* The public address                                                      *)

MutQueryServiceGivesUp ==
  /\ detection.stage = "asking"
  /\ \E text \in Texts \cup {NoText} :
       detection' = [detection EXCEPT
         !.heard = Append(@, text), !.ok = text \in FourPart, !.stage = "answered"]
  /\ UNCHANGED <<rules, currentIP, click>>

MutQueryServiceOneMore ==
  /\ detection.stage = "asking"
  /\ \E text \in Texts \cup {NoText} :
       LET found == text \in FourPart
           asked == Len(detection.heard) + 1
       IN  detection' = [detection EXCEPT
             !.heard = Append(@, text),
             !.ok    = found,
             !.stage = IF found \/ asked > NumServices THEN "answered" ELSE "asking"]
  /\ UNCHANGED <<rules, currentIP, click>>

\* CurrentPublicIP: the next service is asked, until one gives an address.  http.Get
\* has no timeout: the step may never come.
QueryService ==
  /\ detection.stage = "asking"
  /\ \E text \in Texts \cup {NoText} :
       LET found == text \in FourPart
           asked == Len(detection.heard) + 1
       IN  detection' = [detection EXCEPT
             !.heard = Append(@, text),
             !.ok    = found,
             !.stage = IF found \/ asked = NumServices THEN "answered" ELSE "asking"]
  /\ UNCHANGED <<rules, currentIP, click>>

\* The request or its answer is lost.
LoseDetection ==
  /\ detection.stage \in {"asking", "answered"}
  /\ detection' = [detection EXCEPT !.stage = "answered", !.ok = FALSE, !.lost = TRUE]
  /\ UNCHANGED <<rules, currentIP, click>>

\* fetchCurrentIP, after its await.
FetchCurrentIP ==
  /\ detection.stage = "answered"
  /\ currentIP' = IF detection.ok THEN Last(detection.heard) ELSE MockIP
  /\ detection' = [detection EXCEPT !.stage = "done"]
  /\ UNCHANGED <<rules, click>>

-----------------------------------------------------------------------------
(* The allowlist                                                           *)

Click(k) ==
  /\ click[k] = NoClick
  /\ click' = [click EXCEPT ![k] = [NoClick EXCEPT !.stage = "sent", !.ip = currentIP]]
  /\ UNCHANGED <<rules, currentIP, detection>>

Answer(k, ok) == click' = [click EXCEPT ![k].stage = "answered", ![k].ok = ok]

MutWhitelistIPIgnoresError(k) ==
  /\ click[k].stage = "sent"
  /\ UNCHANGED <<currentIP, detection>>
  /\ \/ /\ click[k].ip \in Addresses
        /\ rules' = rules \cup {click[k].ip}
        /\ Answer(k, TRUE)
     \/ /\ rules' = rules
        /\ Answer(k, click[k].ip \in FourPart)

\* handleWhitelistIP: only what looks like an address reaches ufw, which adds an
\* address, or fails.
WhitelistIP(k) ==
  /\ click[k].stage = "sent"
  /\ UNCHANGED <<currentIP, detection>>
  /\ \/ /\ click[k].ip \in Addresses
        /\ rules' = rules \cup {click[k].ip}
        /\ Answer(k, TRUE)
     \/ /\ rules' = rules
        /\ Answer(k, FALSE)

\* The request or its answer is lost.
LoseClick(k) ==
  /\ click[k].stage \in {"sent", "answered"}
  /\ Answer(k, FALSE)
  /\ UNCHANGED <<rules, currentIP, detection>>

\* whitelistCurrentIP, after its await: whatever became of the call, the page
\* reports that the address it knows by now is allowed.
ReportAllowed(k) ==
  /\ click[k].stage = "answered"
  /\ click' = [click EXCEPT ![k] = NoClick]
  /\ UNCHANGED <<rules, currentIP, detection>>

\* Somebody deletes a rule.
DeleteRule(a) ==
  /\ a \in rules
  /\ rules' = rules \ {a}
  /\ click' = [k \in Clicks |->
       IF click[k].ip = a THEN [click[k] EXCEPT !.kept = FALSE] ELSE click[k]]
  /\ UNCHANGED <<currentIP, detection>>

Next ==
  \/ QueryService
  \/ LoseDetection
  \/ FetchCurrentIP
  \/ \E k \in Clicks :
       \/ Click(k)
       \/ WhitelistIP(k)
       \/ LoseClick(k)
       \/ ReportAllowed(k)
  \/ \E a \in Addresses : DeleteRule(a)

Spec == Init /\ [][Next]_vars

-----------------------------------------------------------------------------
TypeOK ==
  /\ rules \subseteq Addresses
  /\ currentIP \in FourPart \cup {Unknown}
  /\ detection.stage \in {"asking", "answered", "done"}
  /\ detection.heard \in BoundedSeq(Texts \cup {NoText}, NumServices)
  /\ detection.ok => detection.stage # "asking"
  /\ click \in [Clicks -> [stage : {"idle", "sent", "answered"},
                           ip : FourPart \cup {Unknown}, ok : BOOLEAN, kept : BOOLEAN]]

\* The page reports on click k.
Reported(k) == click[k].stage = "answered" /\ click'[k] = NoClick

\* Where the call was answered with 200, and nobody deleted the address since the
\* click, the address the page reports as allowed is: that is the one it knows by
\* then, which need not be the one it sent (index.html:724-732; network.go,
\* WhitelistIP).
ReportTrue ==
  [][\A k \in Clicks :
       Reported(k) /\ click[k].ok /\ click[k].kept => currentIP \in rules]_vars

\* No service gave an address.
Failed ==
  /\ Len(detection.heard) = NumServices
  /\ Range(detection.heard) \cap FourPart = {}

\* An address gets on the allowlist only if a service gave it, or it is the one
\* made up by the page and the call was lost or all services had failed
\* (network.go, CurrentPublicIP; index.html:717-732).
RuleJustified ==
  [][rules' \subseteq
       rules \cup Range(detection.heard)
             \cup (IF detection.lost \/ Failed THEN {MockIP} ELSE {})]_vars
=============================================================================
