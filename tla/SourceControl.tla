--------------------------- MODULE SourceControl ---------------------------
(***************************************************************************)
(* The control plane of one official source: the settings row that the    *)
(* administrator's API changes (apps/api/internal/http/                    *)
(* official_source_settings.go and official_source_onboarding.go) and the *)
(* poll cycles of the worker that read it (apps/worker/main.py,            *)
(* apps/worker/db/source_settings.py).                                     *)
(*                                                                         *)
(* Every API handler that holds the row lock for all it does is one        *)
(* action.  The dry-run handler calls the source between reading and       *)
(* writing the row, so it is two.  A poll reads the setting, takes the     *)
(* poll slot, fetches, writes and completes in separate steps.             *)
(*                                                                         *)
(* The columns that decide what is ingested and from where (mode, adapter, *)
(* mapping, URL, token, intervals) are one value, "content".  Guarded is   *)
(* TRUE for bmkg_cap and bmkg_air_quality, whose cycles take the poll      *)
(* slot, fence their writes by version and record shadow evidence, and     *)
(* FALSE for inatews, pvmbg, bnpb and inarisk, whose cycle does none of it.*)
(***************************************************************************)
EXTENDS Naturals

CONSTANTS
  Contents,     \* what the ingestion columns of the row can hold
  Workers,      \* worker processes that run the poll cycle
  Requests,     \* dry-run requests that may be open at the same time
  MaxVersion,   \* bound: config_version
  MaxFaults,    \* bound: worker deaths and lost database sessions
  Guarded       \* which of the two cycles polls the source

ASSUME ControlAssumption ==
  /\ MaxVersion \in Nat \ {0}
  /\ MaxFaults \in Nat
  /\ Guarded \in BOOLEAN

Modes == {"disabled", "dry_run", "active"}
Versions == 1..MaxVersion
Configs == [mode : Modes, content : Contents]

VARIABLES
  setting,   \* official_source_settings: mode, content, version and the
             \* last_dry_run columns (dryVersion 0 is NULL)
  history,   \* official_source_setting_versions
  shadow,    \* the newest worker_shadow audit row of each version
  health,    \* connector_health: is last_polled_at past updated_at and past
             \* the interval, was the last poll without error
  request,   \* open dry-run requests
  worker,    \* the poll cycle of each worker
  faults,    \* faults so far
  dryOk,     \* ghost: (version, content) an API dry-run found valid
  shadowOk,  \* ghost: (version, content) a shadow poll found valid
  writes     \* ghost: what was written and what the setting was then

vars == <<setting, history, shadow, health, request, worker, faults,
          dryOk, shadowOk, writes>>

ghosts == <<dryOk, shadowOk, writes>>

Free == [phase |-> "idle"]
Config == [mode |-> setting.mode, content |-> setting.content]

\* Migration 032 records a first version of every source; the sources that
\* were enabled before it are active.
Init ==
  /\ setting \in [mode : {"disabled", "active"}, content : Contents, version : {1},
                  dryValid : {FALSE}, dryVersion : {0}]
  /\ history = [v \in Versions |-> Config]
  /\ shadow = [v \in Versions |-> "none"]
  /\ health = [fresh |-> FALSE, ok |-> FALSE, due |-> TRUE]
  /\ request = [r \in Requests |-> Free]
  /\ worker = [w \in Workers |-> Free]
  /\ faults = 0
  /\ dryOk = {}
  /\ shadowOk = {}
  /\ writes = {}

---------------------------------------------------------------------------
(* The administrator's API. *)

\* A new version of the row and its copy in the history; updated_at is now.
SaveVersion(mode, content, keepDryRun) ==
  /\ setting.version < MaxVersion
  /\ setting' = [mode |-> mode, content |-> content, version |-> setting.version + 1,
                 dryValid |-> keepDryRun /\ setting.dryValid,
                 dryVersion |-> IF keepDryRun THEN setting.dryVersion ELSE 0]
  /\ history' = [history EXCEPT ![setting.version + 1] = [mode |-> mode, content |-> content]]
  /\ health' = [health EXCEPT !.fresh = FALSE]
  /\ UNCHANGED <<shadow, request, worker, faults, ghosts>>

\* Mutant: only a new token takes the source back to dry_run.
TokenChanged(content, token) == token

\* ingestionConfigChanged: a token that is sent counts as new.
IngestionConfigChanged(content, token) == content # setting.content \/ token

\* PUT of a setting.  It never activates a source; a change of what an active
\* source ingests takes it back to dry_run.
Update(mode, content, token) ==
  /\ mode = "active" => setting.mode = "active"
  /\ SaveVersion(IF mode = "active" /\ IngestionConfigChanged(content, token)
                   THEN "dry_run" ELSE mode,
                 content, FALSE)

\* The dry-run handler loads the configuration and calls the source ...
DryRunStart(r) ==
  /\ request[r] = Free
  /\ setting.mode = "dry_run"
  /\ request' = [request EXCEPT ![r] = [phase |-> "calling", version |-> setting.version,
                                        content |-> setting.content]]
  /\ UNCHANGED <<setting, history, shadow, health, worker, faults, ghosts>>

\* WHERE config_version=$3 AND run_mode='dry_run'
SameDryRunVersion(r) ==
  setting.version = request[r].version /\ setting.mode = "dry_run"

\* ... and records the result unless the version has changed meanwhile.
DryRunFinish(r, valid) ==
  /\ request[r].phase = "calling"
  /\ request' = [request EXCEPT ![r] = Free]
  /\ setting' = IF SameDryRunVersion(r)
                  THEN [setting EXCEPT !.dryValid = valid, !.dryVersion = setting.version]
                  ELSE setting
  /\ dryOk' = IF valid THEN dryOk \cup {<<request[r].version, request[r].content>>} ELSE dryOk
  /\ UNCHANGED <<history, shadow, health, worker, faults, shadowOk, writes>>

\* The four checks of OfficialSourceActivate.
DryRunPassed == /\ setting.mode = "dry_run"
                /\ setting.dryValid
                /\ setting.dryVersion = setting.version
ShadowPassed == shadow[setting.version] = "ok"
ConnectorHealthy == health.fresh /\ health.ok

Activate ==
  /\ DryRunPassed
  /\ ShadowPassed
  /\ ConnectorHealthy
  /\ SaveVersion("active", setting.content, TRUE)

\* A rollback copies an old version, but as dry_run.
Rollback(v) ==
  /\ v <= setting.version
  /\ SaveVersion(IF history[v].mode = "disabled" THEN "disabled" ELSE "dry_run",
                 history[v].content, FALSE)

---------------------------------------------------------------------------
(* The worker's poll cycle. *)

InPoll(w) == worker[w].phase \in {"fetching", "shadowing", "writing", "closing"}

\* pg_try_advisory_lock of the poll slot: held by the session of a poll, and
\* released with it.
SlotFree == \A w \in Workers : InPoll(w) => ~worker[w].slot

StartPoll(w) ==
  /\ worker' = [worker EXCEPT ![w] =
                  [phase |-> IF Guarded THEN "resolved" ELSE "fetching",
                   version |-> setting.version, mode |-> setting.mode,
                   content |-> setting.content, outcome |-> "none", slot |-> FALSE]]
  /\ UNCHANGED <<setting, history, shadow, health, request, faults, ghosts>>

\* Mutant: a disabled source is polled.
ResolveAny(w) == worker[w] = Free /\ StartPoll(w)

\* resolve_source_setting, and the check of setting.enabled.
Resolve(w) ==
  /\ worker[w] = Free
  /\ setting.mode # "disabled"
  /\ StartPoll(w)

\* Mutant: a source whose last poll failed is not due.
HealthyDue(w) ==
  /\ setting.mode # "disabled"
  /\ setting.version = worker[w].version
  /\ health.due /\ health.ok

\* _POLL_DUE_SQL.
PollDue(w) ==
  /\ setting.mode # "disabled"
  /\ setting.version = worker[w].version
  /\ health.due

AcquireSlot(w) ==
  /\ worker[w].phase = "resolved"
  /\ SlotFree
  /\ PollDue(w)
  /\ worker' = [worker EXCEPT ![w].phase = "fetching", ![w].slot = TRUE]
  /\ UNCHANGED <<setting, history, shadow, health, request, faults, ghosts>>

\* Somebody else polls, or there is nothing to do.
SkipPoll(w) ==
  /\ worker[w].phase = "resolved"
  /\ ~SlotFree \/ ~PollDue(w)
  /\ worker' = [worker EXCEPT ![w] = Free]
  /\ UNCHANGED <<setting, history, shadow, health, request, faults, ghosts>>

\* What a fetch ends with: "clean"; "stale", a CAP feed without news for two
\* days; "errors", some records rejected; "failed", nothing usable.  A dry_run
\* poll counts the rows of the source when it has its slot and again after the
\* fetch: "changed" is clean, but somebody else has added a row meanwhile.  The
\* delivery loop does (record_observation, after the transaction of a send, also
\* of a source contained since), and the expiry job when it queues a change.  An
\* active poll counts nothing, and a stale feed is an error to it.
Outcomes == {"clean", "changed", "stale", "errors", "failed"}

Fetch(w, outcome) ==
  /\ worker[w].phase = "fetching"
  /\ outcome \in {"changed", "stale"} => worker[w].mode = "dry_run"
  /\ worker' = [worker EXCEPT ![w].outcome = outcome,
                              ![w].phase = IF outcome = "failed" THEN "closing"
                                           ELSE IF worker[w].mode = "dry_run" THEN "shadowing"
                                           ELSE "writing"]
  /\ UNCHANGED <<setting, history, shadow, health, request, faults, ghosts>>

\* Mutant: persistence is measured from zero and not from the start of the poll.
ShadowOnTotals(w) == worker[w].outcome \in {"clean", "stale"} /\ writes = {}

\* success AND zero_persistence.
ShadowSucceeds(w) == worker[w].outcome \in {"clean", "stale"}

\* record_worker_shadow_evidence, with the version the poll has read.
RecordShadow(w) ==
  /\ worker[w].phase = "shadowing"
  /\ worker' = [worker EXCEPT ![w].phase = "closing"]
  /\ IF Guarded
       THEN /\ shadow' = [shadow EXCEPT ![worker[w].version] =
                            IF ShadowSucceeds(w) THEN "ok" ELSE "bad"]
            /\ shadowOk' = IF ShadowSucceeds(w)
                             THEN shadowOk \cup {<<worker[w].version, worker[w].content>>}
                             ELSE shadowOk
       ELSE UNCHANGED <<shadow, shadowOk>>
  /\ UNCHANGED <<setting, history, health, request, faults, dryOk, writes>>

\* Mutant: the version is not compared.
ActiveNow(w) == setting.mode = "active"

\* source_write_is_allowed.
SourceWriteIsAllowed(w) ==
  setting.mode = "active" /\ setting.version = worker[w].version

\* One record, fenced in the transaction that writes it.
Write(w) ==
  /\ worker[w].phase = "writing"
  /\ Guarded => SourceWriteIsAllowed(w)
  /\ writes' = writes \cup {[read |-> worker[w].content, mode |-> setting.mode,
                             content |-> setting.content]}
  /\ UNCHANGED <<setting, history, shadow, health, request, worker, faults,
                 dryOk, shadowOk>>

\* The fence refuses: the CAP cycle goes on to complete the poll, the
\* air-quality cycle returns at once.
WriteRefused(w) ==
  /\ worker[w].phase = "writing"
  /\ Guarded
  /\ ~SourceWriteIsAllowed(w)
  /\ \E next \in {Free, [worker[w] EXCEPT !.phase = "closing"]} :
       worker' = [worker EXCEPT ![w] = next]
  /\ UNCHANGED <<setting, history, shadow, health, request, faults, ghosts>>

\* No record is left.
WritesDone(w) ==
  /\ worker[w].phase = "writing"
  /\ worker' = [worker EXCEPT ![w].phase = "closing"]
  /\ UNCHANGED <<setting, history, shadow, health, request, faults, ghosts>>

\* complete_source_poll, in the session of the slot, without an error also when
\* a count has changed; when the session is gone it raises, and the cycle ends without it.  The plain cycle needs no session.
CompletePoll(w) ==
  /\ worker[w].phase = "closing"
  /\ IF Guarded /\ ~worker[w].slot
       THEN UNCHANGED health
       ELSE health' = [fresh |-> TRUE, ok |-> worker[w].outcome \in {"clean", "changed"},
                      due |-> FALSE]
  /\ worker' = [worker EXCEPT ![w] = Free]
  /\ UNCHANGED <<setting, history, shadow, request, faults, ghosts>>

\* The session of the slot dies, and the lock with it, but the worker goes on.
LoseSession(w) ==
  /\ faults < MaxFaults
  /\ InPoll(w) /\ worker[w].slot
  /\ worker' = [worker EXCEPT ![w].slot = FALSE]
  /\ faults' = faults + 1
  /\ UNCHANGED <<setting, history, shadow, health, request, ghosts>>

Crash(w) ==
  /\ faults < MaxFaults
  /\ worker[w] # Free
  /\ worker' = [worker EXCEPT ![w] = Free]
  /\ faults' = faults + 1
  /\ UNCHANGED <<setting, history, shadow, health, request, ghosts>>

\* poll_interval_seconds pass.
Elapse ==
  /\ ~health.due
  /\ health' = [health EXCEPT !.due = TRUE]
  /\ UNCHANGED <<setting, history, shadow, request, worker, faults, ghosts>>

---------------------------------------------------------------------------

Administrate ==
  \/ \E mode \in Modes, content \in Contents, token \in BOOLEAN : Update(mode, content, token)
  \/ \E r \in Requests : DryRunStart(r) \/ \E valid \in BOOLEAN : DryRunFinish(r, valid)
  \/ Activate
  \/ \E v \in Versions : Rollback(v)

Poll(w) ==
  \/ Resolve(w) \/ AcquireSlot(w) \/ SkipPoll(w)
  \/ \E outcome \in Outcomes : Fetch(w, outcome)
  \/ RecordShadow(w)
  \/ Write(w) \/ WriteRefused(w) \/ WritesDone(w)
  \/ CompletePoll(w)

Next == Administrate \/ Elapse \/ \E w \in Workers : Poll(w) \/ Crash(w) \/ LoseSession(w)

Spec == Init /\ [][Next]_vars

\* The scheduler starts a cycle every tick, fetches have a timeout and a feed
\* has finitely many records; time passes.  Administrators owe nothing.
FairSpec ==
  /\ Spec
  /\ WF_vars(Elapse)
  /\ \A w \in Workers :
       /\ WF_vars(Resolve(w))
       /\ WF_vars(SkipPoll(w))
       /\ SF_vars(AcquireSlot(w))
       /\ WF_vars(\E outcome \in Outcomes : Fetch(w, outcome))
       /\ WF_vars(RecordShadow(w))
       /\ WF_vars(WriteRefused(w) \/ WritesDone(w))
       /\ WF_vars(CompletePoll(w))

---------------------------------------------------------------------------
(* Properties. *)

Settings == [mode : Modes, content : Contents, version : Versions,
             dryValid : BOOLEAN, dryVersion : 0..MaxVersion]
Polls == [phase : {"resolved", "fetching", "shadowing", "writing", "closing"},
          version : Versions, mode : {"dry_run", "active"}, content : Contents,
          outcome : Outcomes \cup {"none"}, slot : BOOLEAN]
Calls == [phase : {"calling"}, version : Versions, content : Contents]

\* Every variable has its type.
TypeOK ==
  /\ setting \in Settings
  /\ history \in [Versions -> Configs]
  /\ shadow \in [Versions -> {"none", "ok", "bad"}]
  /\ health \in [fresh : BOOLEAN, ok : BOOLEAN, due : BOOLEAN]
  /\ request \in [Requests -> Calls \cup {Free}]
  /\ worker \in [Workers -> Polls \cup {Free}]
  /\ faults \in 0..MaxFaults
  /\ dryOk \subseteq Versions \X Contents
  /\ shadowOk \subseteq Versions \X Contents
  /\ writes \subseteq [read : Contents, mode : Modes, content : Contents]

\* A source is active only with a configuration that both an API dry-run and
\* a shadow poll of the worker found valid, as the version right before its
\* activation, and that has not changed since; no interleaving of updates,
\* rollbacks, late dry-run answers and late polls gets around it.
ActiveWasProven ==
  \A v \in Versions :
    v > 1 /\ v <= setting.version /\ history[v].mode = "active" =>
      /\ history[v - 1].content = history[v].content
      /\ \/ history[v - 1].mode = "active"
         \/ /\ history[v - 1].mode = "dry_run"
            /\ <<v - 1, history[v].content>> \in dryOk \cap shadowOk

\* The newest version of the history is the row itself.
CurrentIsRecorded == history[setting.version] = Config

\* Whatever a poll writes, it writes while the source is active and with the
\* configuration it was fetched with, however long ago it read the setting.
WritesAreAuthorised ==
  \A x \in writes : x.mode = "active" /\ x.read = x.content

\* When a dry-run poll of the current version completes without error, and
\* nobody added a row of the source between its two counts, its evidence is
\* there and the gate is open as soon as the API dry-run is valid, whatever was
\* written before (a lost session may let another poll report in between).
CleanPollOpensGate ==
  [][\A w \in Workers :
       /\ worker[w].phase = "closing" /\ worker'[w] = Free /\ faults' = 0
       /\ worker[w].mode = "dry_run" /\ worker[w].outcome = "clean"
       /\ worker[w].version = setting.version
       /\ health' # health
       => ShadowPassed' /\ ConnectorHealthy']_vars

\* A source that is due is polled in the end, or disabled.
DueIsPolled == health.due ~> (~health.due \/ setting.mode = "disabled")

=============================================================================
