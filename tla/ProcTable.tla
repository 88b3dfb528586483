----------------------------- MODULE ProcTable ------------------------------
(***************************************************************************)
(* The Processes tab (internal/ui/processes/processes.go) behind the root  *)
(* model's input routing (internal/app/app.go): the table whose selection  *)
(* follows a process across re-sorts, filters and samples, the detail box  *)
(* with its background command-line lookup, and the signal prompt.         *)
(*                                                                         *)
(* A process is its pid.  Sorting is any order; the filter and collapsed   *)
(* subtrees are the set of pids they let through.  Positions count from 1, *)
(* and a cursor of 0 is the table's -1.                                    *)
(***************************************************************************)
EXTENDS Integers, Sequences, FiniteSets, SequencesExt

CONSTANTS
  Pids,   \* processes
  NoPid,  \* no process
  NSigs   \* signals this platform offers; the second one is KILL

ASSUME TableAssumption == NoPid \notin Pids /\ IsFiniteSet(Pids) /\ NSigs \in Nat \ {0, 1}

VARIABLES
  active,    \* the Processes tab is the active one
  overlays,  \* the root model's overlays on screen: "help", "alerts"
  visible,   \* the tab's own idea of being active
  procs,     \* the latest sample, in the current order
  shown,     \* pids of the sample that the filter and the tree let through
  rows,      \* the rows in the table
  cursor,    \* the table's cursor
  editing,   \* the filter input has the keyboard
  detail,    \* the process in the detail box
  cmdline,   \* the process whose command line the box shows
  lookups,   \* processes whose command line is being looked up
  prompt,    \* the process the signal prompt is about
  sig,       \* the signal selected in the prompt
  sent,      \* the last signal sent
  readOnly   \* cfg.ReadOnly, shared by the tabs

rootVars == <<active, overlays, readOnly>>
tableVars == <<procs, shown, rows, cursor>>
boxVars == <<detail, cmdline, lookups>>
promptVars == <<prompt, sig, sent>>
vars == <<rootVars, visible, tableVars, editing, boxVars, promptVars>>

Orders(S) == SetToSeqs(S)
Chosen == IF cursor \in DOMAIN rows THEN rows[cursor] ELSE NoPid

(* The tab is built visible although the dashboard is the active tab.      *)
Init ==
  /\ active = FALSE /\ visible = TRUE /\ overlays = {}
  /\ procs = <<>> /\ shown = {} /\ rows = <<>> /\ cursor = 1
  /\ editing = FALSE
  /\ detail = NoPid /\ cmdline = NoPid /\ lookups = {}
  /\ prompt = NoPid /\ sig = 1 /\ sent = <<NoPid, 0>>
  /\ readOnly \in BOOLEAN

-----------------------------------------------------------------------------
(* Filter: the processes of p that are in s, in the order of p.            *)
Kept(p, s) ==
  LET kept[n \in 0 .. Len(p)] ==
        IF n = 0 THEN <<>>
        ELSE IF p[n] \in s THEN Append(kept[n - 1], p[n]) ELSE kept[n - 1]
  IN kept[Len(p)]

(* rebuild: the rows of sample p under filter s.  cur is the table's       *)
(* cursor; SetRows clamps it downwards only.                               *)

(* Mutants of Rebuild: the selection stays at its index; a cursor that an  *)
(* empty spell left out of range is not raised.                            *)
Rebuild_ByIndex(p, s, cur) ==
  LET new == Kept(p, s) IN
  /\ rows' = new
  /\ cursor' = IF cur > Len(new) THEN Len(new) ELSE IF cur = 0 /\ new # <<>> THEN 1 ELSE cur
  /\ UNCHANGED detail
Rebuild_NoRaise(p, s, cur) ==
  LET old == IF cur \in DOMAIN rows THEN rows[cur] ELSE NoPid
      new == Kept(p, s)
  IN
  /\ rows' = new
  /\ cursor' = IF Contains(new, old) THEN CHOOSE i \in DOMAIN new : new[i] = old
               ELSE IF cur > Len(new) THEN Len(new) ELSE cur
  /\ detail' = IF ~Contains(new, old) /\ detail = old THEN NoPid ELSE detail

Rebuild(p, s, cur) ==
  LET old == IF cur \in DOMAIN rows THEN rows[cur] ELSE NoPid
      new == Kept(p, s)
      clamped == IF cur > Len(new) THEN Len(new) ELSE cur
  IN
  /\ rows' = new
  /\ cursor' = IF Contains(new, old) THEN CHOOSE i \in DOMAIN new : new[i] = old
               ELSE IF clamped = 0 /\ new # <<>> THEN 1 ELSE clamped
  /\ detail' = IF ~Contains(new, old) /\ detail = old THEN NoPid ELSE detail

-----------------------------------------------------------------------------
(* Messages every tab gets. *)

(* A sample; a hidden tab keeps its old rows.  Processes that got another  *)
(* name or parent may pass the filter, or leave a collapsed subtree, now.  *)
SnapshotMsg(p, s) ==
  /\ procs' = p /\ shown' = s
  /\ IF visible THEN Rebuild(p, s, cursor) ELSE UNCHANGED <<rows, cursor, detail>>
  /\ UNCHANGED <<rootVars, visible, editing, cmdline, lookups, promptVars>>

(* Mutant of CmdlineMsg: whatever box is open shows it.                    *)
CmdlineMsg_AnyBox(p) ==
  /\ p \in lookups
  /\ lookups' = lookups \ {p}
  /\ cmdline' = IF detail # NoPid THEN p ELSE cmdline
  /\ UNCHANGED <<rootVars, visible, tableVars, editing, detail, promptVars>>

(* The late answer of a lookup.                                            *)
CmdlineMsg(p) ==
  /\ p \in lookups
  /\ lookups' = lookups \ {p}
  /\ cmdline' = IF detail = p THEN p ELSE cmdline
  /\ UNCHANGED <<rootVars, visible, tableVars, editing, detail, promptVars>>

(* A resize: a change of the column count clears the table first.          *)
SetSize(reshaped) ==
  /\ Rebuild(procs, shown, IF reshaped THEN 0 ELSE cursor)
  /\ UNCHANGED <<procs, shown, rootVars, visible, editing, cmdline, lookups, promptVars>>

-----------------------------------------------------------------------------
(* The root model: global keys come first, prompt or not. *)

(* Mutant of SetActive: activation does not catch up.                      *)
SetActive_NoCatchUp ==
  /\ active' = ~active
  /\ visible' = ~active
  /\ UNCHANGED <<rows, cursor, detail, procs, shown, overlays, readOnly>>
  /\ UNCHANGED <<editing, cmdline, lookups, promptVars>>

SetActive ==
  /\ active' = ~active
  /\ visible' = ~active
  /\ IF active THEN UNCHANGED <<rows, cursor, detail>> ELSE Rebuild(procs, shown, cursor)
  /\ UNCHANGED <<procs, shown, overlays, readOnly, editing, cmdline, lookups, promptVars>>

(* ?, a, esc: an overlay opens or closes.                                  *)
ToggleOverlay(o) ==
  /\ overlays' = IF o \in overlays THEN overlays \ {o} ELSE overlays \cup {o}
  /\ UNCHANGED <<active, readOnly, visible, tableVars, editing, boxVars, promptVars>>

(* R, local view: the file's read_only value takes effect at once.         *)
ReloadConfig ==
  /\ readOnly' \in BOOLEAN
  /\ UNCHANGED <<active, overlays, visible, tableVars, editing, boxVars, promptVars>>

(* Other keys, and clicks, reach the tab when it is active and uncovered.  *)
Hears == active /\ overlays = {}
Normal == Hears /\ prompt = NoPid /\ ~editing

-----------------------------------------------------------------------------
(* The tab's keys. *)

(* s, S, t, and left and right in tree mode.  What was collapsed stays so  *)
(* when tree mode is left: t may hide the row that is selected.            *)
Arrange(p, s) ==
  /\ Normal
  /\ p \in Orders(ToSet(procs))
  /\ procs' = p /\ shown' = s
  /\ Rebuild(p, s, cursor)
  /\ UNCHANGED <<rootVars, visible, editing, cmdline, lookups, promptVars>>

StartFilter ==
  /\ Normal
  /\ editing' = TRUE
  /\ UNCHANGED <<rootVars, visible, tableVars, boxVars, promptVars>>

(* A key in the filter input: a character refilters, enter and esc leave.  *)
FilterKey(s) ==
  /\ Hears /\ prompt = NoPid /\ editing
  /\ editing' \in BOOLEAN
  /\ shown' = s
  /\ Rebuild(procs, s, cursor)
  /\ UNCHANGED <<procs, rootVars, visible, cmdline, lookups, promptVars>>

(* Arrow keys and clicks; the wheel moves the cursor under a prompt, an    *)
(* overlay or the filter input too.                                        *)
MoveCursor(i) ==
  /\ active
  /\ i \in DOMAIN rows \/ (rows = <<>> /\ i = 0)
  /\ cursor' = i
  /\ UNCHANGED <<rootVars, visible, procs, shown, rows, editing, boxVars, promptVars>>

(* enter; a read-only view looks nothing up.                               *)
OpenDetail ==
  /\ Normal /\ Chosen # NoPid
  /\ detail' = Chosen /\ cmdline' = NoPid
  /\ lookups' = IF readOnly THEN lookups ELSE lookups \cup {Chosen}
  /\ UNCHANGED <<rootVars, visible, tableVars, editing, promptVars>>

CloseDetail ==
  /\ Normal /\ detail # NoPid
  /\ detail' = NoPid
  /\ UNCHANGED <<rootVars, visible, tableVars, editing, cmdline, lookups, promptVars>>

(* The terminate key, or the kill key with KILL selected.                  *)
OpenConfirm(force) ==
  /\ Normal /\ ~readOnly /\ Chosen # NoPid
  /\ prompt' = Chosen
  /\ sig' = IF force THEN 2 ELSE 1
  /\ UNCHANGED <<rootVars, visible, tableVars, editing, boxVars, sent>>

(* left, right, f in the prompt.                                           *)
PickSignal ==
  /\ Hears /\ prompt # NoPid
  /\ sig' \in {(sig % NSigs) + 1, ((sig + NSigs - 2) % NSigs) + 1, 2}
  /\ UNCHANGED <<rootVars, visible, tableVars, editing, boxVars, prompt, sent>>

(* Mutant of Confirm: signals the row under the cursor.                    *)
Confirm_ByRow ==
  /\ Hears /\ prompt # NoPid
  /\ sent' = <<Chosen, sig>>
  /\ prompt' = NoPid
  /\ UNCHANGED <<rootVars, visible, tableVars, editing, boxVars, sig>>

(* y; whether the process still exists is SendSignal's to find out.        *)
Confirm ==
  /\ Hears /\ prompt # NoPid
  /\ sent' = <<prompt, sig>>
  /\ prompt' = NoPid
  /\ UNCHANGED <<rootVars, visible, tableVars, editing, boxVars, sig>>

Cancel ==
  /\ Hears /\ prompt # NoPid
  /\ prompt' = NoPid
  /\ UNCHANGED <<rootVars, visible, tableVars, editing, boxVars, sig, sent>>

-----------------------------------------------------------------------------
Next ==
  \/ \E S \in SUBSET Pids : \E p \in Orders(S) : \E s \in SUBSET S : SnapshotMsg(p, s)
  \/ \E p \in Pids : CmdlineMsg(p)
  \/ \E reshaped \in BOOLEAN : SetSize(reshaped)
  \/ SetActive \/ ReloadConfig \/ \E o \in {"help", "alerts"} : ToggleOverlay(o)
  \/ \E s \in SUBSET ToSet(procs) : FilterKey(s) \/ \E p \in Orders(ToSet(procs)) : Arrange(p, s)
  \/ StartFilter \/ OpenDetail \/ CloseDetail
  \/ \E i \in 0 .. Cardinality(Pids) : MoveCursor(i)
  \/ \E force \in BOOLEAN : OpenConfirm(force)
  \/ PickSignal \/ Confirm \/ Cancel

Spec == Init /\ [][Next]_vars

-----------------------------------------------------------------------------
(* Properties. *)

(* The type invariant; a table with rows always has one selected.          *)
TypeOK ==
  /\ active \in BOOLEAN /\ visible \in BOOLEAN /\ editing \in BOOLEAN
  /\ overlays \subseteq {"help", "alerts"} /\ readOnly \in BOOLEAN
  /\ procs \in Seq(Pids) /\ rows \in Seq(Pids) /\ shown \subseteq Pids
  /\ cursor \in Nat /\ (rows # <<>> => cursor \in DOMAIN rows)
  /\ {detail, cmdline, prompt} \subseteq Pids \cup {NoPid}
  /\ lookups \subseteq Pids
  /\ sig \in 1 .. NSigs

(* What the user looks at is the latest sample under the current filter:   *)
(* no path of hiding, sampling, resizing and activating leaves old rows,   *)
(* on which the next key would act.                                        *)
ActiveTableIsFresh ==
  active => visible /\ rows = Kept(procs, shown)

(* A change of the rows that nobody steered moves the selection with its   *)
(* process.  The exception is a resize that changes the column count.      *)
SelectionFollowsProcess ==
  [][rows' # rows /\ Chosen # NoPid /\ Contains(rows', Chosen)
       => rows'[cursor'] = Chosen \/ SetSize(TRUE)]_vars

(* A signal goes to the process the prompt named when it opened, and that  *)
(* was the selected one, however many samples, sorts, scrolls and resizes  *)
(* came between the two keys.                                              *)
PromptIsBinding ==
  [][/\ prompt # NoPid => prompt' \in {prompt, NoPid}
     /\ prompt = NoPid /\ prompt' # NoPid => prompt' = Chosen
     /\ sent' # sent => sent'[1] = prompt]_vars

(* A command line that arrives after the box moved on to another process   *)
(* is not shown as that one's.                                             *)
CmdlineMatches == detail # NoPid => cmdline \in {detail, NoPid}

(* "no process signaling": no signal leaves a read-only view.              *)
ReadOnlySendsNothing == [][sent' # sent => ~readOnly]_vars
=============================================================================
