------------------------------ MODULE ConfigStore ------------------------------
(***************************************************************************)
(* The coordinator's configuration: the YAML file, the copy each worker     *)
(* process serves from (app.state.config) and the drafts in the tabs of     *)
(* admin pages (form or raw YAML).                                          *)
(*                                                                          *)
(* A configuration is the set of its entries; comments and the order of the *)
(* entries are left out.  put_config and put_config_json are coroutines     *)
(* that do not await between validation and answer, so a worker runs one at *)
(* a time; the file is shared with the other workers and with the thread    *)
(* pool that serves GET.  write_text truncates the file when it opens it    *)
(* and writes it afterwards: a write that fails, or a process that dies,    *)
(* leaves a prefix behind.                                                  *)
(***************************************************************************)
EXTENDS Naturals, FiniteSets

CONSTANTS
  Workers,      \* uvicorn worker processes
  Drafts,       \* tabs of admin pages
  Entries,      \* entries a configuration can have
  Keys,         \* those that are registration keys
  Incomplete,   \* measurements without id, type or target
  Textual,      \* measurements whose interval_seconds is not a number
  Default,      \* the configuration the container is delivered with
  MaxFaults,    \* bound on failed writes, kills and edits on the host
  None

Contents == SUBSET Entries

Put == [worker : Workers, body : Contents]

(* put_config, put_config_json: what both check before they write.          *)
Valid(c) == c \cap Keys # {} /\ c \cap Incomplete = {}

ASSUME ConfigStoreAssumption ==
  /\ Keys \subseteq Entries /\ Incomplete \subseteq Entries
  /\ Textual \subseteq Entries
  /\ Default \in Contents /\ Valid(Default)
  /\ MaxFaults \in Nat
  /\ \A c \in Contents : c # None
  /\ \A p \in Put : p # None

VARIABLES
  file,         \* the entries in config.yaml, or None: it does not parse
  mem,          \* what each worker serves, or None: the process is not up
  draft,        \* the entries in each tab, or None: nothing loaded
  put,          \* the PUT each tab waits for, or None
  faults,       \* cut or failed writes and edits on the host
  killed,       \* history: some write was cut by the end of its process
  dirty,        \* history: a fault since the last PUT that was answered 200
  acked         \* history: the body of that PUT

vars == <<file, mem, draft, put, faults, killed, dirty, acked>>

Up(w) == mem[w] # None

Busy(w) == \E d \in Drafts : put[d] # None /\ put[d].worker = w

Quiet == \A d \in Drafts : put[d] = None

Init ==
  /\ file = Default
  /\ mem = [w \in Workers |-> Default]
  /\ draft = [d \in Drafts |-> None]
  /\ put = [d \in Drafts |-> None]
  /\ faults = 0 /\ killed = FALSE /\ dirty = FALSE
  /\ acked = Default

--------------------------------------------------------------------------------
(* The admin page                                                           *)

(* GET /api/config or config.json; a file that does not parse answers 500.  *)
Load(d) ==
  /\ put[d] = None /\ file # None
  /\ draft' = [draft EXCEPT ![d] = file]
  /\ UNCHANGED <<file, mem, put, faults, killed, dirty, acked>>

Edit(d, e) ==
  /\ put[d] = None /\ draft[d] # None
  /\ draft' = [draft EXCEPT ![d] = IF e \in @ THEN @ \ {e} ELSE @ \cup {e}]
  /\ UNCHANGED <<file, mem, put, faults, killed, dirty, acked>>

Opened(d, w) ==
  /\ put' = [put EXCEPT ![d] = [worker |-> w, body |-> draft[d]]]
  /\ file' = {}
  /\ UNCHANGED <<draft, faults, killed, dirty, acked>>

Open_Unchecked_Bug(d, w) ==
  /\ put[d] = None /\ draft[d] # None
  /\ Up(w) /\ ~Busy(w)
  /\ Opened(d, w) /\ UNCHANGED mem

Open_LoopFree_Bug(d, w) ==
  /\ put[d] = None /\ draft[d] # None /\ Valid(draft[d])
  /\ Up(w)
  /\ Opened(d, w) /\ UNCHANGED mem

Open_MemoryFirst_Bug(d, w) ==
  /\ put[d] = None /\ draft[d] # None /\ Valid(draft[d])
  /\ Up(w) /\ ~Busy(w)
  /\ Opened(d, w) /\ mem' = [mem EXCEPT ![w] = draft[d]]

(* PUT: the handler accepts the body and opens the file, which truncates    *)
(* it.  A body it refuses changes nothing.                                  *)
Open(d, w) ==
  /\ put[d] = None /\ draft[d] # None /\ Valid(draft[d])
  /\ Up(w) /\ ~Busy(w)
  /\ Opened(d, w) /\ UNCHANGED mem

Write_MemoryKept_Bug(d) ==
  /\ put[d] # None
  /\ file' = put[d].body /\ acked' = put[d].body
  /\ put' = [put EXCEPT ![d] = None] /\ dirty' = FALSE
  /\ UNCHANGED <<mem, draft, faults, killed>>

(* The text is written from the start of the file.  If another worker has   *)
(* written since this one truncated it, the end of a longer text shows      *)
(* behind a shorter one.  Then the worker serves the new configuration.     *)
Write(d) ==
  /\ put[d] # None
  /\ file' \in IF file = {} THEN {put[d].body} ELSE {put[d].body, None}
  /\ mem' = [mem EXCEPT ![put[d].worker] = put[d].body]
  /\ acked' = put[d].body
  /\ put' = [put EXCEPT ![d] = None] /\ dirty' = FALSE
  /\ UNCHANGED <<draft, faults, killed>>

(* The write ends early: nothing was written, a prefix that is YAML, or one *)
(* that is not.                                                             *)
Cut(d) ==
  /\ put[d] # None /\ faults < MaxFaults
  /\ file' \in {None} \cup SUBSET put[d].body
  /\ faults' = faults + 1 /\ dirty' = TRUE
  /\ put' = [put EXCEPT ![d] = None]
  /\ UNCHANGED <<draft, acked>>

(* The disk is full: the request ends with 500.                             *)
WriteFails(d) == Cut(d) /\ UNCHANGED <<mem, killed>>

--------------------------------------------------------------------------------
(* Processes and the host                                                   *)

Kill(d) ==
  /\ Cut(d)
  /\ mem' = [mem EXCEPT ![put[d].worker] = None] /\ killed' = TRUE

Stop(w) ==
  /\ Up(w) /\ ~Busy(w)
  /\ mem' = [mem EXCEPT ![w] = None]
  /\ UNCHANGED <<file, draft, put, faults, killed, dirty, acked>>

(* lifespan, load_config: a file that parses is served without the checks   *)
(* of the editor; one that does not ends the start.                         *)
Start(w) ==
  /\ ~Up(w) /\ file # None
  /\ mem' = [mem EXCEPT ![w] = file]
  /\ UNCHANGED <<file, draft, put, faults, killed, dirty, acked>>

(* The operator edits the file on the host; it is read at the next start.   *)
HostEdit ==
  /\ Quiet /\ faults < MaxFaults
  /\ file' \in Contents
  /\ faults' = faults + 1 /\ dirty' = TRUE
  /\ UNCHANGED <<mem, draft, put, killed, acked>>

Next ==
  \/ \E d \in Drafts : \/ Load(d) \/ Write(d) \/ WriteFails(d) \/ Kill(d)
                       \/ \E e \in Entries : Edit(d, e)
                       \/ \E w \in Workers : Open(d, w)
  \/ \E w \in Workers : Stop(w) \/ Start(w)
  \/ HostEdit

Spec == Init /\ [][Next]_vars

--------------------------------------------------------------------------------
(* Properties                                                               *)

(* Type invariant.  While a PUT is open its worker is up.                   *)
TypeOK ==
  /\ file \in {None} \cup Contents
  /\ mem \in [Workers -> {None} \cup Contents]
  /\ draft \in [Drafts -> {None} \cup Contents]
  /\ put \in [Drafts -> {None} \cup Put]
  /\ \A d \in Drafts : put[d] # None => Up(put[d].worker)
  /\ faults \in 0 .. MaxFaults
  /\ killed \in BOOLEAN /\ dirty \in BOOLEAN
  /\ acked \in Contents

(* Hot reload: when no save is under way, every running worker serves what  *)
(* the file holds, unless a write was cut or the file edited on the host    *)
(* since the last save: the next save repairs both.                         *)
HotReloaded == Quiet /\ ~dirty => \A w \in Workers : Up(w) => mem[w] = file

(* The configuration the last successful save stored is on disk, whole and  *)
(* not mixed with another one, until the next save.                         *)
SavedIsOnDisk == Quiet /\ ~dirty => file = acked

(* No worker serves a configuration without a registration key or with an   *)
(* incomplete measurement, except after a start from a file that a cut      *)
(* write or the operator left behind.                                       *)
ServedIsValid == ~dirty => \A w \in Workers : Up(w) => Valid(mem[w])

(* A running worker changes its configuration only to one that was saved:   *)
(* one whose write failed never comes into force.                           *)
ServedWasSaved ==
  [][\A w \in Workers : Up(w) /\ Up(w)' /\ mem'[w] # mem[w]
       => mem'[w] = acked' /\ put' # put]_vars

--------------------------------------------------------------------------------
(* What the documents say and the code does not keep: no run checks these,  *)
(* TLC refutes each of them (see the README).                               *)

(* The comment in put_config: the file is never corrupt unless the process  *)
(* died in the middle of write_text.                                        *)
BrokenNeedsKill == file = None => killed

(* A configuration the editor accepted can be served by GET /probe/spec,    *)
(* which converts every interval with int().                                *)
SpecIsServed == ~dirty => \A w \in Workers : Up(w) => mem[w] \cap Textual = {}

================================================================================
