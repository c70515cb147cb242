---------------------------- MODULE SourceSettings ----------------------------
(***************************************************************************)
(* The administrator's page of the official sources: drafts of the settings*)
(* that are edited in place, the evidence that a version may be activated, *)
(* and operations that each end by loading everything again.  A load is    *)
(* answered in two waves, the settings and then health and histories, and  *)
(* nothing orders two loads that overlap.  What the server does is in      *)
(* SourceControl; here it is what the page can observe of it.              *)
(***************************************************************************)
EXTENDS Naturals, Sequences

CONSTANTS
  Sources,
  MaxVersion, \* bound of the model: config_version of a source
  MaxLoads,   \* bound of the model: loads begun
  MaxEdits    \* bound of the model: operations, edits, failed reads, changes at the server

VARIABLES
  rows,      \* server: mode, version and outcome of the API dry-run of it
  shadows,   \* server: the entries of the worker's shadow runs, by version
  polled,    \* server: version in force when the last poll ended; 0 is not well
  items,     \* the page: the rows, with the mode as edited
  evidence,  \* the page: activationEvidence
  approved,  \* the page: both approval fields are filled
  histories, \* the page: a history of the source is shown
  busy,      \* a source, "workbook" or "none"
  loads,     \* loads by number
  ops,       \* operations begun and not ended: [source, kind, stage, mode, load]
  workbook,  \* a workbook is being read
  edits

serverVars == <<rows, shadows, polled>>
pageVars == <<items, evidence, approved, histories, busy, workbook>>
settingsVars == <<serverVars, pageVars, loads, ops, edits>>

Versions == 1..MaxVersion
Modes == {"disabled", "dry_run", "active"}
Kinds == {"save", "probe", "dry_run", "activate", "history", "rollback"} \* probe: test or preview
NoEvidence == [loaded |-> FALSE, shadow |-> [v \in Versions |-> "none"], polled |-> 0]
NotShown == [mode |-> "disabled", version |-> 0, dry |-> "none"]
NewLoad == [stage |-> "settings", shadow |-> [s \in Sources |-> "asked"], health |-> "asked",
            shadows |-> [s \in Sources |-> NoEvidence.shadow], polled |-> [s \in Sources |-> 0]]

Loaded == [NewLoad EXCEPT !.stage = "done"]

(* The page is opened with an administrator's session at some time in the    *)
(* life of the sources, and loads.                                           *)
Init ==
  /\ rows \in [Sources -> [mode : {"disabled", "dry_run"}, version : Versions \ {MaxVersion},
                           dry : {"none", "ok"}]]
  /\ \A s \in Sources : rows[s].dry = "ok" => rows[s].mode = "dry_run"
  /\ shadows \in [Sources -> [Versions -> {"none", "zero"}]]
  /\ \A s \in Sources, v \in Versions : v > rows[s].version => shadows[s][v] = "none"
  /\ polled = [s \in Sources |-> rows[s].version]
  /\ items = [s \in Sources |-> NotShown] /\ evidence = [s \in Sources |-> NoEvidence]
  /\ approved = [s \in Sources |-> FALSE] /\ histories = [s \in Sources |-> FALSE]
  /\ busy = "none" /\ loads = <<NewLoad>> /\ ops = {}
  /\ workbook = FALSE /\ edits = 0

---------------------------------------------------------------------------
(* The server: another administrator, and the worker. *)

NewVersion(s, mode, dry) ==
  /\ rows[s].version < MaxVersion
  /\ rows' = [rows EXCEPT ![s] = [mode |-> mode, version |-> @.version + 1, dry |-> dry]]
  /\ UNCHANGED <<shadows, polled>>

Changes == edits < MaxEdits /\ edits' = edits + 1

OtherSaves(s, mode) ==
  /\ Changes /\ NewVersion(s, mode, "none")
  /\ UNCHANGED <<pageVars, loads, ops>>

(* A shadow run of the version it began with ends and is recorded: as good   *)
(* if it went well and wrote nothing.  An entry that is no good leaves an    *)
(* older one in place, for the page looks for the newest good one.           *)
WorkerShadow(s, v, good) ==
  /\ Changes /\ v <= rows[s].version
  /\ shadows' = [shadows EXCEPT ![s][v] = IF good THEN "zero" ELSE IF @ = "zero" THEN @ ELSE "failed"]
  /\ UNCHANGED <<rows, polled, pageVars, loads, ops>>

(* A poll ends, of whichever version: its time is compared with that of the  *)
(* version in force.                                                         *)
WorkerPolls(s, ok) ==
  /\ Changes
  /\ polled' = [polled EXCEPT ![s] = IF ok THEN rows[s].version ELSE 0]
  /\ UNCHANGED <<rows, shadows, pageVars, loads, ops>>

---------------------------------------------------------------------------
(* load *)

At(l, stage) == l \in DOMAIN loads /\ loads[l].stage = stage

(* Drafts are replaced, those of other sources too; evidence begins anew.    *)
ApplySettings(l) ==
  /\ At(l, "settings")
  /\ items' = rows
  /\ evidence' = [s \in Sources |-> NoEvidence]
  /\ loads' = [loads EXCEPT ![l].stage = "evidence"]
  /\ UNCHANGED <<serverVars, approved, histories, busy, workbook, ops, edits>>

HealthAnswered(l) ==
  /\ At(l, "evidence") /\ loads[l].health = "asked"
  /\ loads' = [loads EXCEPT ![l].health = "ok", ![l].polled = polled]
  /\ UNCHANGED <<serverVars, pageVars, ops, edits>>

HistoryAnswered(l, s) ==
  /\ At(l, "evidence") /\ loads[l].shadow[s] = "asked"
  /\ loads' = [loads EXCEPT ![l].shadow[s] = "ok", ![l].shadows[s] = shadows[s]]
  /\ UNCHANGED <<serverVars, pageVars, ops, edits>>

(* One of these reads fails: Promise.allSettled goes on without it.          *)
ReadFails(l) ==
  /\ At(l, "evidence") /\ Changes
  /\ \/ /\ loads[l].health = "asked" /\ loads' = [loads EXCEPT ![l].health = "failed"]
     \/ \E s \in Sources :
          loads[l].shadow[s] = "asked" /\ loads' = [loads EXCEPT ![l].shadow[s] = "failed"]
  /\ UNCHANGED <<serverVars, pageVars, ops>>

EvidenceOf(load, s) ==
  [loaded |-> load.health = "ok" /\ load.shadow[s] = "ok",
   shadow |-> load.shadows[s], polled |-> load.polled[s]]

ApplyEvidence(l) ==
  /\ At(l, "evidence") /\ loads[l].health # "asked"
  /\ \A s \in Sources : loads[l].shadow[s] # "asked"
  /\ evidence' = [s \in Sources |-> EvidenceOf(loads[l], s)]
  /\ loads' = [loads EXCEPT ![l] = Loaded]
  /\ UNCHANGED <<serverVars, items, approved, histories, busy, workbook, ops, edits>>

(* The settings cannot be read: an error is shown, nothing else changes.     *)
LoadFails(l) ==
  /\ At(l, "settings") /\ Changes
  /\ loads' = [loads EXCEPT ![l] = Loaded]
  /\ UNCHANGED <<serverVars, pageVars, ops>>

---------------------------------------------------------------------------
(* activationReadiness: what stands in the way of a version as it is shown.  *)

\* Mutant: the shadow of any version will do.
AnyShadow(item, e) == \E v \in Versions : e.shadow[v] = "zero"

ShadowIsProven(item, e) == item.version # 0 /\ e.shadow[item.version] = "zero"
ConnectorCurrent(item, e) == e.polled >= item.version
Ready(s) ==
  /\ items[s].mode = "dry_run" /\ items[s].dry = "ok"
  /\ evidence[s].loaded
  /\ ShadowIsProven(items[s], evidence[s]) /\ ConnectorCurrent(items[s], evidence[s])
CanActivate(s) == items[s].version # 0 /\ Ready(s) /\ approved[s]

---------------------------------------------------------------------------
(* Edits of the drafts. *)

Edited == UNCHANGED <<serverVars, evidence, histories, loads, ops>>
PatchMode(s, mode) ==
  /\ Changes /\ items[s].version # 0 /\ items[s].mode # mode
  /\ items' = [items EXCEPT ![s].mode = mode]
  /\ UNCHANGED <<approved, busy, workbook>> /\ Edited
FillApproval(s) ==
  /\ items[s].version # 0 /\ ~approved[s]
  /\ approved' = [approved EXCEPT ![s] = TRUE]
  /\ UNCHANGED <<items, busy, workbook, edits>> /\ Edited

---------------------------------------------------------------------------
(* run: an operation calls the server, and some load everything afterwards.  *)

Offered(s, kind) ==
  /\ items[s].version # 0 /\ busy # s
  /\ kind = "dry_run" => items[s].mode = "dry_run"
  /\ kind = "activate" => CanActivate(s)
  /\ kind = "rollback" => histories[s] /\ items[s].version # 1

Unlisted == UNCHANGED <<items, evidence, workbook>>

Run(s, kind) ==
  /\ Offered(s, kind) /\ Changes
  /\ ops' = ops \cup {[source |-> s, kind |-> kind, stage |-> "call", load |-> 0,
                       mode |-> IF kind = "save" THEN items[s].mode ELSE "disabled"]}
  /\ busy' = s
  /\ UNCHANGED <<serverVars, approved, histories, loads>> /\ Unlisted

(* What the server makes of the call: a save sends the mode of the draft, an *)
(* activation is of whatever version the server has by now.                  *)
ServerDoes(o, s) ==
  CASE o.kind = "save" ->
         /\ o.mode = "active" => rows[s].mode = "active"
         /\ \E mode \in IF o.mode = "active" THEN {"active", "dry_run"} ELSE {o.mode} :
              NewVersion(s, mode, "none")
    [] o.kind = "dry_run" ->
         /\ rows[s].mode = "dry_run"
         /\ \E dry \in {"ok", "bad"} : rows' = [rows EXCEPT ![s].dry = dry]
         /\ UNCHANGED <<shadows, polled>>
    [] o.kind = "activate" ->
         /\ rows[s].mode = "dry_run" /\ rows[s].dry = "ok"
         /\ shadows[s][rows[s].version] = "zero" /\ polled[s] = rows[s].version
         /\ NewVersion(s, "active", "ok")
    [] o.kind = "rollback" -> \E mode \in {"disabled", "dry_run"} : NewVersion(s, mode, "none")
    [] OTHER -> UNCHANGED serverVars

Reloads(kind) == kind \in {"save", "dry_run", "activate", "rollback"}

(* The answer; the approval is forgotten by whatever makes a version.        *)
Answered(o) ==
  /\ o.stage = "call"
  /\ LET s == o.source
     IN /\ ServerDoes(o, s)
        /\ approved' = IF o.kind \in {"save", "activate", "rollback"}
                       THEN [approved EXCEPT ![s] = FALSE] ELSE approved
        /\ histories' = [histories EXCEPT ![s] = @ \/ o.kind = "history"]
  /\ IF Reloads(o.kind)
     THEN /\ Len(loads) < MaxLoads /\ loads' = Append(loads, NewLoad)
          /\ ops' = (ops \ {o}) \cup {[o EXCEPT !.stage = "load", !.load = Len(loads) + 1]}
          /\ UNCHANGED busy
     ELSE ops' = ops \ {o} /\ busy' = "none" /\ UNCHANGED loads
  /\ UNCHANGED edits /\ Unlisted

(* The call failed, or all is loaded; finally, the page is no longer busy,   *)
(* whoever made it so.                                                       *)
Ends(o) ==
  /\ o.stage = "call" \/ At(o.load, "done")
  /\ ops' = ops \ {o}
  /\ busy' = "none"
  /\ UNCHANGED <<serverVars, approved, histories, loads, edits>> /\ Unlisted

(* previewBMKGWorkbook: busy like any operation, with a name of its own.     *)
PreviewWorkbook ==
  /\ ~workbook /\ busy # "workbook" /\ workbook' = TRUE /\ busy' = "workbook"
  /\ UNCHANGED <<serverVars, items, evidence, approved, histories, loads, ops, edits>>
WorkbookAnswered ==
  /\ workbook /\ workbook' = FALSE /\ busy' = "none"
  /\ UNCHANGED <<serverVars, items, evidence, approved, histories, loads, ops, edits>>

Next ==
  \/ \E s \in Sources :
       \/ \E mode \in {"disabled", "dry_run"} : OtherSaves(s, mode) \/ PatchMode(s, mode)
       \/ \E good \in BOOLEAN : WorkerPolls(s, good) \/ \E v \in Versions : WorkerShadow(s, v, good)
       \/ \E kind \in Kinds : Run(s, kind)
       \/ FillApproval(s)
  \/ \E l \in 1..MaxLoads :
       \/ ApplySettings(l) \/ HealthAnswered(l)
       \/ ReadFails(l) \/ ApplyEvidence(l) \/ LoadFails(l)
       \/ \E s \in Sources : HistoryAnswered(l, s)
  \/ \E o \in ops : Answered(o) \/ Ends(o)
  \/ PreviewWorkbook \/ WorkbookAnswered

Spec == Init /\ [][Next]_settingsVars

(* ---- Properties ---- *)

(* Type of the state. *)
TypeOK ==
  /\ \A s \in Sources :
       /\ rows[s].mode \in Modes /\ rows[s].version \in Versions
       /\ items[s].mode \in Modes /\ items[s].version \in 0..MaxVersion
       /\ evidence[s].polled \in 0..MaxVersion /\ histories[s] \in BOOLEAN
  /\ busy \in Sources \cup {"workbook", "none"}
  /\ \A o \in ops : o.kind \in Kinds

(* The button that activates is offered only for a version of which the      *)
(* server has a shadow run of the worker that wrote nothing, although the    *)
(* two waves of several loads, an operation that frees the page for another  *)
(* one, other administrators, late runs of older versions and local edits    *)
(* interleave.                                                               *)
ReadyIsProven ==
  \A s \in Sources : CanActivate(s) => shadows[s][items[s].version] = "zero"
=============================================================================
