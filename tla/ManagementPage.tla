--------------------------- MODULE ManagementPage ---------------------------
(***************************************************************************)
(* The management half of the dashboard: the tables of web/index.html, the *)
(* handlers of dashboard/server.go that answer them, and the services and  *)
(* jails those handlers act on.  A call is one fetch of the page, or one   *)
(* request of another API client; several may be under way, their handlers *)
(* interleave command by command, and their answers come in any order.     *)
(*                                                                         *)
(* mockFetch never fails: where the request or its answer is lost, or the  *)
(* answer is an error, it returns the fallback data chosen by the caller,  *)
(* for the tables what the page showed when the call was made.             *)
(*                                                                         *)
(* A request is lost before its handler runs, or after it has answered.    *)
(* A service is enabled or not for good, and the page shows nothing of it, *)
(* so is-enabled is left out.  Services and jails are visited in any order.*)
(***************************************************************************)
EXTENDS Integers

CONSTANTS
  Calls,         \* requests that may be under way at a time
  Services,      \* MANAGED_SERVICES
  Jails,         \* FAIL2BAN_JAILS
  IPs,           \* addresses fail2ban may ban
  SshdJail,      \* "sshd", the jail handleUnban takes when none is named
  MockServices,  \* services the page shows before it has loaded them: name -> active
  MockBans       \* bans the page shows before it has loaded them

Bans == IPs \X Jails

ASSUME PageAssumption ==
  /\ Services # {}
  /\ Jails # {}
  /\ SshdJail \in Jails
  /\ MockServices \in [DOMAIN MockServices -> BOOLEAN]
  /\ MockBans \subseteq Bans

VARIABLES
  unit,           \* systemd: managed service -> "active", "inactive" or "failed"
  bans,           \* fail2ban: the bans in force
  call,           \* call -> its record, NoCall if not under way
  shownServices,  \* MANAGEMENT_STATE.services: name -> active
  shownBans       \* MANAGEMENT_STATE.bannedIPs

vars == <<unit, bans, call, shownServices, shownBans>>

host == <<unit, bans>>
page == <<shownServices, shownBans>>

None    == "none"
Nothing == <<>>

UnitActions == {"restart", "start", "stop"}
Unbans      == {"unban", "unbanIn"}
ServiceOps  == UnitActions \cup {"status"}
BanOps      == Unbans \cup {"banned"}

\* A call: what is asked and of what, how far it is, what its handler has still
\* to query and has got, whether the answer is 200, and the fallback data.  The
\* rest is history, since the call was made or its command ran: seen, what the
\* services were, or which bans were in force, at some time; kept, the bans that
\* were all the time, in jails whose list could be read.
NoCall == [op |-> None, on |-> Nothing, stage |-> "idle", todo |-> {}, got |-> {},
           ok |-> FALSE, fallback |-> {}, seen |-> {}, kept |-> {}]

\* What a call about services u and bans b notes of them.
Seen(op, u, b) ==
  IF op \in ServiceOps THEN {<<s, u[s] = "active">> : s \in Services}
  ELSE IF op = "banned" THEN b ELSE {}

Kept(op, b) == IF op \in BanOps THEN b ELSE {}

Init ==
  /\ unit \in [Services -> {"active", "inactive"}]
  /\ bans \in SUBSET Bans
  /\ call = [c \in Calls |-> NoCall]
  /\ shownServices = MockServices
  /\ shownBans = MockBans

\* Call r in the next state, and one whose command has just run.
Noting(r) ==
  [r EXCEPT !.seen = @ \cup Seen(r.op, unit', bans'), !.kept = @ \cap Kept(r.op, bans')]

Anew(r) ==
  [r EXCEPT !.seen = Seen(r.op, unit', bans'), !.kept = Kept(r.op, bans')]

\* Call c becomes r, and all note what is so of the host.
Becomes(c, r) ==
  call' = [d \in Calls |-> Noting(IF d = c THEN r ELSE call[d])]

\* An answer to call r; nothing of what was gathered comes with an error.
Answer(r, ok) ==
  [r EXCEPT !.stage = "answered", !.ok = ok, !.got = {}]

-----------------------------------------------------------------------------
(* The page                                                                *)

\* A button is clicked, the page loads, or another client uses the API: only
\* those start and stop services, and name the jail an address is banned in, while
\* handleUnban takes sshd for the page.
Offered ==
  {<<"status", Nothing>>, <<"banned", Nothing>>}
    \cup ({"restart"} \X DOMAIN shownServices)
    \cup ({"start", "stop"} \X Services)
    \cup ({"unban"} \X {<<b[1], SshdJail>> : b \in shownBans})
    \cup ({"unbanIn"} \X Bans)

Ask(c, op, on) ==
  /\ call[c] = NoCall
  /\ <<op, on>> \in Offered
  /\ call' = [call EXCEPT ![c] =
       [NoCall EXCEPT
          !.op = op, !.on = on, !.stage = "sent",
          !.todo = IF op = "status" THEN Services ELSE IF op = "banned" THEN Jails ELSE {},
          !.fallback = IF op = "status" THEN {<<s, shownServices[s]>> : s \in DOMAIN shownServices}
                       ELSE IF op = "banned" THEN shownBans ELSE {},
          !.seen = Seen(op, unit, bans), !.kept = Kept(op, bans)]]
  /\ UNCHANGED <<host, page>>

\* The request does not reach the server, or its answer not the page.
Lose(c) ==
  /\ call[c].stage \in {"sent", "answered"}
  /\ UNCHANGED <<host, page>>
  /\ Becomes(c, Answer(call[c], FALSE))

\* The data mockFetch returns to fetchServiceStatus and fetchBannedIPs.
Data(c) == IF call[c].ok THEN call[c].got ELSE call[c].fallback

Table(pairs) ==
  [s \in {p[1] : p \in pairs} |-> <<s, TRUE>> \in pairs]

\* The code after await mockFetch(...): whatever became of the request, a
\* restarted service is shown active (an answer of 200 always says so), an
\* unbanned address leaves the list, and a message says "Success".
Apply(c) ==
  /\ call[c].stage = "answered"
  /\ LET op == call[c].op
         on == call[c].on
     IN  /\ shownServices' =
              IF op = "status" THEN Table(Data(c))
              ELSE IF op = "restart" THEN [s \in DOMAIN shownServices |->
                                             s = on \/ shownServices[s]]
              ELSE shownServices
         /\ shownBans' =
              IF op = "banned" THEN Data(c)
              ELSE IF op = "unban" THEN {b \in shownBans : b[1] # on[1]}
              ELSE shownBans
  /\ call' = [call EXCEPT ![c] = NoCall]
  /\ UNCHANGED host

-----------------------------------------------------------------------------
(* The handlers                                                            *)

\* What a service is after systemctl <op>, run without an error.
After(op, s) ==
  IF op # "stop" THEN "active"
  ELSE IF unit[s] = "failed" THEN "failed" ELSE "inactive"

MutCommandIgnoresError(c) ==
  LET op == call[c].op
      s  == call[c].on
  IN  /\ op \in UnitActions
      /\ call[c].stage = "sent"
      /\ UNCHANGED <<bans, page>>
      /\ \/ /\ s \in Services
            /\ unit' = [unit EXCEPT ![s] = After(op, s)]
            /\ Becomes(c, Anew([call[c] EXCEPT !.stage = "query", !.todo = {s}]))
         \/ /\ s \in Services
            /\ unit' \in {unit} \cup
                 (IF op = "stop" THEN {} ELSE {[unit EXCEPT ![s] = "failed"]})
            /\ Becomes(c, Anew(Answer(call[c], TRUE)))
         \/ /\ s \notin Services
            /\ unit' = unit
            /\ Becomes(c, Anew(Answer(call[c], FALSE)))

\* Restart, Start, Stop: the service must be a managed one; systemctl runs, and
\* may fail.
Command(c) ==
  LET op == call[c].op
      s  == call[c].on
  IN  /\ op \in UnitActions
      /\ call[c].stage = "sent"
      /\ UNCHANGED <<bans, page>>
      /\ \/ /\ s \in Services
            /\ unit' = [unit EXCEPT ![s] = After(op, s)]
            /\ Becomes(c, Anew([call[c] EXCEPT !.stage = "query", !.todo = {s}]))
         \/ /\ s \in Services
            /\ unit' \in {unit} \cup
                 (IF op = "stop" THEN {} ELSE {[unit EXCEPT ![s] = "failed"]})
            /\ Becomes(c, Anew(Answer(call[c], FALSE)))
         \/ /\ s \notin Services
            /\ unit' = unit
            /\ Becomes(c, Anew(Answer(call[c], FALSE)))

\* statusOne asks systemctl is-active, which exits with an error unless the
\* service is active.  Status puts a service whose query failed down as not
\* active; Restart, Start and Stop return the error.
Query(c, s) ==
  /\ s \in call[c].todo
  /\ IF call[c].op = "status" THEN call[c].stage \in {"sent", "query"}
     ELSE call[c].op \in UnitActions /\ call[c].stage = "query"
  /\ UNCHANGED <<host, page>>
  /\ LET todo == call[c].todo \ {s}
     IN  Becomes(c, [call[c] EXCEPT
           !.todo  = todo,
           !.got   = @ \cup {<<s, unit[s] = "active">>},
           !.stage = IF todo = {} THEN "answered" ELSE "query",
           !.ok    = todo = {} /\ (call[c].op = "status" \/ unit[s] = "active")])

MutListJailLatest(c, j) ==
  /\ call[c].op = "banned"
  /\ call[c].stage \in {"sent", "query"}
  /\ j \in call[c].todo
  /\ UNCHANGED <<host, page>>
  /\ LET todo == call[c].todo \ {j}
     IN  \E readable \in BOOLEAN :
           Becomes(c, [call[c] EXCEPT
             !.todo   = todo,
             !.got    = IF readable THEN {b \in bans : b[2] = j} ELSE @,
             !.kept   = IF readable THEN @ ELSE {b \in @ : b[2] # j},
             !.stage  = IF todo = {} THEN "answered" ELSE "query",
             !.ok     = todo = {}])

MutListJailGivesUp(c, j) ==
  /\ call[c].op = "banned"
  /\ call[c].stage \in {"sent", "query"}
  /\ j \in call[c].todo
  /\ UNCHANGED <<host, page>>
  /\ LET todo == call[c].todo \ {j}
     IN  \E readable \in BOOLEAN :
           Becomes(c, [call[c] EXCEPT
             !.todo   = todo,
             !.got    = IF readable THEN @ \cup {b \in bans : b[2] = j} ELSE @,
             !.kept   = IF readable THEN @ ELSE {b \in @ : b[2] # j},
             !.stage  = IF todo = {} \/ ~readable THEN "answered" ELSE "query",
             !.ok     = todo = {} \/ ~readable])

\* BannedIPs reads the list of one jail; a jail whose list cannot be read is
\* passed over.
ListJail(c, j) ==
  /\ call[c].op = "banned"
  /\ call[c].stage \in {"sent", "query"}
  /\ j \in call[c].todo
  /\ UNCHANGED <<host, page>>
  /\ LET todo == call[c].todo \ {j}
     IN  \E readable \in BOOLEAN :
           Becomes(c, [call[c] EXCEPT
             !.todo   = todo,
             !.got    = IF readable THEN @ \cup {b \in bans : b[2] = j} ELSE @,
             !.kept   = IF readable THEN @ ELSE {b \in @ : b[2] # j},
             !.stage  = IF todo = {} THEN "answered" ELSE "query",
             !.ok     = todo = {}])

\* handleUnban: fail2ban-client may fail.
Unban(c) ==
  /\ call[c].op \in Unbans
  /\ call[c].stage = "sent"
  /\ UNCHANGED <<unit, page>>
  /\ \/ /\ bans' = bans \ {call[c].on}
        /\ Becomes(c, Anew(Answer(call[c], TRUE)))
     \/ /\ bans' = bans
        /\ Becomes(c, Anew(Answer(call[c], FALSE)))

-----------------------------------------------------------------------------
(* The host                                                                *)

\* A service dies.
UnitFails(s) ==
  /\ unit[s] = "active"
  /\ unit' = [unit EXCEPT ![s] = "failed"]
  /\ UNCHANGED <<bans, page>>
  /\ call' = [c \in Calls |-> Noting(call[c])]

\* fail2ban bans an address, or a ban of it ends.
BanChanges(b) ==
  /\ bans' = IF b \in bans THEN bans \ {b} ELSE bans \cup {b}
  /\ UNCHANGED <<unit, page>>
  /\ call' = [c \in Calls |-> Noting(call[c])]

Next ==
  \/ \E c \in Calls :
       \/ \E r \in Offered : Ask(c, r[1], r[2])
       \/ Lose(c)
       \/ Apply(c)
       \/ Command(c)
       \/ \E s \in Services : Query(c, s)
       \/ \E j \in Jails : ListJail(c, j)
       \/ Unban(c)
  \/ \E s \in Services : UnitFails(s)
  \/ \E b \in Bans : BanChanges(b)

Spec == Init /\ [][Next]_vars

-----------------------------------------------------------------------------
TypeOK ==
  /\ unit \in [Services -> {"active", "inactive", "failed"}]
  /\ bans \subseteq Bans
  /\ \A c \in Calls :
       /\ call[c].stage \in {"idle", "sent", "query", "answered"}
       /\ call[c].stage = "query" => call[c].op \in ServiceOps \cup {"banned"}
       /\ call[c].ok => call[c].stage = "answered" /\ call[c].todo = {}
  /\ DOMAIN shownServices \in {Services, DOMAIN MockServices}
  /\ shownBans \subseteq Bans

\* The page takes up the answer to call c.
Taken(c) == call[c].stage = "answered" /\ call'[c] = NoCall

\* A table that was loaded from the server shows of each service what it was at
\* some time during the load, and each ban that was in force all the time, in a
\* jail that could be read, and none that never was, whatever other calls ran and
\* failed in between (services.go, Status; fail2ban.go, BannedIPs; index.html,
\* fetchServiceStatus and fetchBannedIPs).
TablesTrue ==
  [][\A c \in Calls :
       Taken(c) /\ call[c].ok =>
         /\ call[c].op = "status" =>
              /\ DOMAIN shownServices' = Services
              /\ \A s \in Services : <<s, shownServices'[s]>> \in call[c].seen
         /\ call[c].op = "banned" =>
              call[c].kept \subseteq shownBans' /\ shownBans' \subseteq call[c].seen]_vars

\* An action the server answered with 200 was done: when its command had run, or
\* some time after it, the service was active, and the address was not banned in that
\* jail, whatever others do to them before and after (services.go, Restart, Start;
\* fail2ban.go, Unban).
ActionsTrue ==
  [][\A c \in Calls :
       Taken(c) /\ call[c].ok =>
         /\ call[c].op \in {"restart", "start"} => <<call[c].on, TRUE>> \in call[c].seen
         /\ call[c].op \in Unbans => call[c].on \notin call[c].kept]_vars

\* The page reports a ban as lifted only when its address has been banned no more
\* at some time since (index.html "unbanned from Fail2Ban", "Unban failed").
UnbanReported ==
  [][\A c \in Calls :
       Taken(c) /\ call[c].op = "unban"
       => \A j \in Jails : <<call[c].on[1], j>> \notin call[c].kept]_vars
=============================================================================
