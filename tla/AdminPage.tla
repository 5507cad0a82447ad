------------------------------- MODULE AdminPage -------------------------------
(***************************************************************************)
(* The table of probes on the admin page, fetched every five seconds and    *)
(* after each command.  Every fetch is an await: other fetches, clicks and  *)
(* timers run before it is over, and answers need not arrive in the order   *)
(* of their requests.                                                       *)
(*                                                                          *)
(* Of a probe the page shows here that it exists and its role.  Ages,       *)
(* badges, toasts and the other columns are left out.                       *)
(***************************************************************************)
EXTENDS Naturals

CONSTANTS
  Ids,          \* probe ids
  Slots,        \* refreshProbes calls that may be under way at once
  MaxChanges,   \* bound on commands and on changes by others
  None

Roles == {"probe", "anchor"}

Tables == [Ids -> Roles \cup {None}]

AdminPageAssumption == MaxChanges \in Nat /\ None \notin Roles

VARIABLES
  table,        \* role of each registered probe, None for the others
  page,         \* the same as the page shows it
  fetch,        \* the calls of refreshProbes
  cmd,          \* the command the user waits for
  changes

vars == <<table, page, fetch, cmd, changes>>

IdleFetch == [step |-> "idle", body |-> [i \in Ids |-> None]]

(* was: the role the select returns to; there: its row is still on the page *)
NoCommand == [step |-> "idle", op |-> "none", id |-> None, role |-> None,
              was |-> None, there |-> FALSE, ok |-> FALSE]

Init ==
  /\ table \in Tables /\ page = [i \in Ids |-> None]
  /\ fetch = [s \in Slots |-> IdleFetch] /\ cmd = NoCommand /\ changes = 0

Change == changes < MaxChanges /\ changes' = changes + 1

--------------------------------------------------------------------------------
(* refreshProbes                                                            *)

Ask(s) ==
  /\ fetch[s].step = "idle"
  /\ fetch' = [fetch EXCEPT ![s].step = "asked"]
  /\ UNCHANGED <<table, page, cmd, changes>>

Serve(s) ==
  /\ fetch[s].step = "asked"
  /\ fetch' = [fetch EXCEPT ![s] = [step |-> "answered", body |-> table]]
  /\ UNCHANGED <<table, page, cmd, changes>>

(* No answer, or one that is not ok.                                        *)
ServeFails(s) ==
  /\ fetch[s].step = "asked"
  /\ fetch' = [fetch EXCEPT ![s] = IdleFetch]
  /\ UNCHANGED <<table, page, cmd, changes>>

Empty(t) == \A i \in Ids : t[i] = None

(* Bug: the early return for an empty list leaves the table as it was.      *)
Render_EmptyKept_Bug(s) ==
  /\ fetch[s].step = "answered"
  /\ page' = IF Empty(fetch[s].body) THEN page ELSE fetch[s].body
  /\ fetch' = [fetch EXCEPT ![s] = IdleFetch]
  /\ cmd' = [cmd EXCEPT !.there = FALSE]
  /\ UNCHANGED <<table, changes>>

(* All rows are made anew.                                                  *)
Render(s) ==
  /\ fetch[s].step = "answered"
  /\ page' = fetch[s].body
  /\ fetch' = [fetch EXCEPT ![s] = IdleFetch]
  /\ cmd' = [cmd EXCEPT !.there = FALSE]
  /\ UNCHANGED <<table, changes>>

--------------------------------------------------------------------------------
(* Commands                                                                 *)

Send(op, i, r) ==
  /\ cmd.step = "idle" /\ Change
  /\ cmd' = [NoCommand EXCEPT !.step = "sent", !.op = op, !.id = i, !.role = r,
                              !.was = IF i = None THEN None ELSE page[i], !.there = TRUE]
  /\ UNCHANGED <<table, fetch>>

(* The select shows the new role at once.                                   *)
ChooseRole(i, r) ==
  /\ page[i] \notin {None, r}
  /\ page' = [page EXCEPT ![i] = r] /\ Send("role", i, r)

AskDelete(i) == page[i] # None /\ Send("delete", i, None) /\ UNCHANGED page

AskSweep == Send("sweep", None, None) /\ UNCHANGED page

(* The server executes the command; a probe that is gone is a 404.          *)
Execute ==
  /\ cmd.step = "sent"
  /\ table' \in IF cmd.op = "sweep"
                THEN {[i \in Ids |-> IF i \in D THEN None ELSE table[i]] : D \in SUBSET Ids}
                ELSE {IF table[cmd.id] = None THEN table ELSE [table EXCEPT ![cmd.id] = cmd.role]}
  /\ cmd' = [cmd EXCEPT !.step = "answered", !.ok = cmd.op = "sweep" \/ table[cmd.id] # None]
  /\ UNCHANGED <<page, fetch, changes>>

(* The request or its answer is lost: fetch throws, the handler ends.       *)
CommandLost ==
  /\ cmd.step \in {"sent", "answered"} /\ cmd' = NoCommand
  /\ UNCHANGED <<table, page, fetch, changes>>

(* The command succeeded: the page is refreshed.                            *)
Succeed(s) ==
  /\ cmd.step = "answered" /\ cmd.ok /\ fetch[s].step = "idle"
  /\ cmd' = NoCommand /\ fetch' = [fetch EXCEPT ![s].step = "asked"]
  /\ UNCHANGED <<table, page, changes>>

(* It did not: a select that is still on the page returns to its role.      *)
Refused ==
  /\ cmd.step = "answered" /\ ~cmd.ok
  /\ page' = IF cmd.op = "role" /\ cmd.there THEN [page EXCEPT ![cmd.id] = cmd.was] ELSE page
  /\ cmd' = NoCommand
  /\ UNCHANGED <<table, fetch, changes>>

(* Probes register, other administrators are at work.                       *)
Others(t) ==
  /\ t # table /\ table' = t /\ Change
  /\ UNCHANGED <<page, fetch, cmd>>

User ==
  \/ \E i \in Ids : AskDelete(i) \/ \E r \in Roles : ChooseRole(i, r)
  \/ AskSweep

Next ==
  \/ \E s \in Slots : Ask(s) \/ Serve(s) \/ ServeFails(s) \/ Render(s) \/ Succeed(s)
  \/ Execute \/ CommandLost \/ Refused
  \/ User
  \/ \E t \in Tables : Others(t)

Spec == Init /\ [][Next]_vars

(* The timers run, answers are rendered, and the server answers again and   *)
(* again.                                                                   *)
LiveSpec ==
  /\ Spec
  /\ \A s \in Slots : WF_vars(Ask(s)) /\ SF_vars(Serve(s)) /\ WF_vars(Render(s))

--------------------------------------------------------------------------------
(* Properties                                                               *)

(* Type invariant.                                                          *)
TypeOK ==
  /\ table \in Tables /\ page \in Tables
  /\ fetch \in [Slots -> [step : {"idle", "asked", "answered"}, body : Tables]]
  /\ cmd \in [step : {"idle", "sent", "answered"}, op : {"none", "role", "delete", "sweep"},
              id : Ids \cup {None}, role : Roles \cup {None}, was : Roles \cup {None},
              there : BOOLEAN, ok : BOOLEAN]
  /\ changes \in 0 .. MaxChanges

(* Whatever was clicked, lost or answered late, and whatever a select shows *)
(* that was never stored: once nothing changes any more the page comes to   *)
(* show the table and goes on showing it.                                   *)
PageCatchesUp == <>[](page = table)

================================================================================
