------------------------ MODULE SourceControlProofs ------------------------
(***************************************************************************)
(* Proofs about SourceControl, for any number of workers, requests and    *)
(* versions.                                                               *)
(*                                                                         *)
(* The argument: a version of the history never changes once it is         *)
(* written, the row is its newest version, and whatever carries a version  *)
(* (an open dry-run, a poll, a recorded proof) carries the content that    *)
(* the history has for that version (Inv below).  The gate and the write   *)
(* fence compare versions, so they compare contents.                       *)
(***************************************************************************)
EXTENDS SourceControl, TLAPS

---------------------------------------------------------------------------
(* Types. *)

\* A worker that is not idle has a poll.
LEMMA BusyPolls ==
  ASSUME TypeOK, NEW w \in Workers, worker[w].phase # "idle"
  PROVE  worker[w] \in Polls
BY DEF TypeOK, Free

\* A new phase, outcome or slot of a poll is still a poll.
LEMMA PollUpdates ==
  ASSUME NEW p \in Polls
  PROVE  /\ \A x \in {"resolved", "fetching", "shadowing", "writing", "closing"} :
              [p EXCEPT !.phase = x] \in Polls
         /\ \A x \in {"resolved", "fetching", "shadowing", "writing", "closing"},
               y \in Outcomes : [p EXCEPT !.outcome = y, !.phase = x] \in Polls
         /\ [p EXCEPT !.phase = "fetching", !.slot = TRUE] \in Polls
         /\ [p EXCEPT !.slot = FALSE] \in Polls
BY DEF Polls

\* Every step of a worker that changes its own poll, and nothing else.
WorkerOnly(w, p) ==
  /\ worker' = [worker EXCEPT ![w] = p]
  /\ UNCHANGED <<setting, history, shadow, health, request, ghosts>>

LEMMA WorkerTypes ==
  ASSUME TypeOK, NEW w \in Workers, NEW p \in Polls \cup {Free}, WorkerOnly(w, p),
         faults' \in 0..MaxFaults
  PROVE  TypeOK'
BY DEF TypeOK, WorkerOnly, ghosts

LEMMA SaveVersionTypes ==
  ASSUME TypeOK, NEW mode \in Modes, NEW content \in Contents, NEW keep \in BOOLEAN,
         SaveVersion(mode, content, keep)
  PROVE  TypeOK'
<1>1. setting.version + 1 \in Versions
  BY ControlAssumption DEF TypeOK, Settings, SaveVersion, Versions
<1>2. setting' \in Settings
  BY <1>1, ControlAssumption DEF TypeOK, Settings, SaveVersion, Versions
<1>3. history' \in [Versions -> Configs]
  BY <1>1 DEF TypeOK, SaveVersion, Configs
<1>4. health' \in [fresh : BOOLEAN, ok : BOOLEAN, due : BOOLEAN]
  BY DEF TypeOK, SaveVersion
<1>5. QED
  BY <1>2, <1>3, <1>4 DEF TypeOK, SaveVersion, ghosts

LEMMA TypeInit == Init => TypeOK
<1> SUFFICES ASSUME Init PROVE TypeOK
  OBVIOUS
<1>1. 1 \in Versions /\ 0 \in 0..MaxVersion /\ 0 \in 0..MaxFaults
  BY ControlAssumption DEF Versions
<1>2. /\ setting.mode \in Modes /\ setting.content \in Contents
      /\ setting \in Settings
  BY <1>1 DEF Init, Settings, Modes
<1>3. history \in [Versions -> Configs]
  BY <1>2 DEF Init, Configs, Config
<1>4. /\ shadow \in [Versions -> {"none", "ok", "bad"}]
      /\ health \in [fresh : BOOLEAN, ok : BOOLEAN, due : BOOLEAN]
  BY DEF Init
<1>5. /\ request \in [Requests -> Calls \cup {Free}]
      /\ worker \in [Workers -> Polls \cup {Free}]
  BY DEF Init
<1>6. QED
  BY <1>1, <1>2, <1>3, <1>4, <1>5 DEF Init, TypeOK

LEMMA TypeStep == TypeOK /\ [Next]_vars => TypeOK'
<1> SUFFICES ASSUME TypeOK, [Next]_vars PROVE TypeOK'
  OBVIOUS
<1>1. ASSUME NEW mode \in Modes, NEW content \in Contents, NEW token \in BOOLEAN,
             Update(mode, content, token)
      PROVE  TypeOK'
  <2>1. \E m \in Modes : SaveVersion(m, content, FALSE)
    BY <1>1 DEF Update, Modes
  <2>2. QED
    BY <2>1, SaveVersionTypes
<1>2. ASSUME NEW r \in Requests, DryRunStart(r) PROVE TypeOK'
  <2>1. [phase |-> "calling", version |-> setting.version, content |-> setting.content]
          \in Calls
    BY DEF TypeOK, Settings, Calls
  <2>2. QED
    BY <1>2, <2>1 DEF DryRunStart, TypeOK, ghosts
<1>3. ASSUME NEW r \in Requests, NEW valid \in BOOLEAN, DryRunFinish(r, valid)
      PROVE  TypeOK'
  <2>1. request[r] \in Calls
    BY <1>3 DEF DryRunFinish, TypeOK, Free
  <2>2. <<request[r].version, request[r].content>> \in Versions \X Contents
    BY <2>1 DEF Calls
  <2>3. setting' \in Settings
    <3>1. setting.version \in 0..MaxVersion
      BY DEF TypeOK, Settings, Versions
    <3>2. [setting EXCEPT !.dryValid = valid, !.dryVersion = setting.version] \in Settings
      BY <3>1 DEF TypeOK, Settings
    <3>3. QED
      BY <1>3, <3>2 DEF DryRunFinish, TypeOK
  <2>4. QED
    BY <1>3, <2>2, <2>3 DEF DryRunFinish, TypeOK
<1>4. ASSUME Activate PROVE TypeOK'
  BY <1>4, SaveVersionTypes DEF Activate, Modes, TypeOK, Settings
<1>5. ASSUME NEW v \in Versions, Rollback(v) PROVE TypeOK'
  <2>1. \E m \in Modes : SaveVersion(m, history[v].content, FALSE)
    BY <1>5 DEF Rollback, Modes
  <2>2. history[v].content \in Contents
    BY DEF TypeOK, Configs
  <2>3. QED
    BY <2>1, <2>2, SaveVersionTypes
<1>6. ASSUME Elapse PROVE TypeOK'
  BY <1>6 DEF Elapse, TypeOK, ghosts
<1>7. ASSUME NEW w \in Workers, Resolve(w) PROVE TypeOK'
  <2>1. [phase |-> IF Guarded THEN "resolved" ELSE "fetching",
         version |-> setting.version, mode |-> setting.mode,
         content |-> setting.content, outcome |-> "none", slot |-> FALSE] \in Polls
    BY <1>7, ControlAssumption DEF Resolve, TypeOK, Settings, Polls, Modes
  <2>2. QED
    BY <1>7, <2>1, WorkerTypes DEF Resolve, StartPoll, WorkerOnly, TypeOK
<1>8. ASSUME NEW w \in Workers, AcquireSlot(w) PROVE TypeOK'
  <2>1. [worker[w] EXCEPT !.phase = "fetching", !.slot = TRUE] \in Polls
    BY <1>8, BusyPolls, PollUpdates DEF AcquireSlot
  <2>2. WorkerOnly(w, [worker[w] EXCEPT !.phase = "fetching", !.slot = TRUE])
    BY <1>8, <2>1 DEF AcquireSlot, WorkerOnly, TypeOK
  <2>3. QED
    BY <1>8, <2>1, <2>2, WorkerTypes DEF AcquireSlot, TypeOK
<1>9. ASSUME NEW w \in Workers, SkipPoll(w) PROVE TypeOK'
  BY <1>9, WorkerTypes DEF SkipPoll, WorkerOnly, TypeOK
<1>10. ASSUME NEW w \in Workers, NEW outcome \in Outcomes, Fetch(w, outcome)
       PROVE  TypeOK'
  <2>1. PICK x \in {"closing", "shadowing", "writing"} :
          worker' = [worker EXCEPT ![w].outcome = outcome, ![w].phase = x]
    BY <1>10 DEF Fetch
  <2>2. [worker[w] EXCEPT !.outcome = outcome, !.phase = x] \in Polls
    BY <1>10, BusyPolls, PollUpdates DEF Fetch
  <2>3. WorkerOnly(w, [worker[w] EXCEPT !.outcome = outcome, !.phase = x])
    BY <1>10, <2>1 DEF Fetch, WorkerOnly, TypeOK
  <2>4. QED
    BY <1>10, <2>2, <2>3, WorkerTypes DEF Fetch, TypeOK
<1>11. ASSUME NEW w \in Workers, RecordShadow(w) PROVE TypeOK'
  <2>1. worker[w] \in Polls
    BY <1>11, BusyPolls DEF RecordShadow
  <2>2. worker' \in [Workers -> Polls \cup {Free}]
    BY <1>11, <2>1, PollUpdates DEF RecordShadow, TypeOK
  <2>3. shadow' \in [Versions -> {"none", "ok", "bad"}]
    BY <1>11, <2>1 DEF RecordShadow, TypeOK, Polls
  <2>4. shadowOk' \subseteq Versions \X Contents
    BY <1>11, <2>1 DEF RecordShadow, TypeOK, Polls
  <2>5. QED
    BY <1>11, <2>2, <2>3, <2>4 DEF RecordShadow, TypeOK
<1>12. ASSUME NEW w \in Workers, Write(w) PROVE TypeOK'
  <2>1. worker[w] \in Polls
    BY <1>12, BusyPolls DEF Write
  <2>2. [read |-> worker[w].content, mode |-> setting.mode, content |-> setting.content]
          \in [read : Contents, mode : Modes, content : Contents]
    BY <2>1 DEF Polls, TypeOK, Settings
  <2>3. QED
    BY <1>12, <2>2 DEF Write, TypeOK
<1>13. ASSUME NEW w \in Workers, WriteRefused(w) PROVE TypeOK'
  <2>1. [worker[w] EXCEPT !.phase = "closing"] \in Polls
    BY <1>13, BusyPolls, PollUpdates DEF WriteRefused
  <2>2. \E next \in Polls \cup {Free} : WorkerOnly(w, next)
    BY <1>13, <2>1 DEF WriteRefused, WorkerOnly
  <2>3. QED
    BY <1>13, <2>2, WorkerTypes DEF WriteRefused, TypeOK
<1>14. ASSUME NEW w \in Workers, WritesDone(w) PROVE TypeOK'
  <2>1. [worker[w] EXCEPT !.phase = "closing"] \in Polls
    BY <1>14, BusyPolls, PollUpdates DEF WritesDone
  <2>2. WorkerOnly(w, [worker[w] EXCEPT !.phase = "closing"])
    BY <1>14 DEF WritesDone, WorkerOnly, TypeOK
  <2>3. QED
    BY <1>14, <2>1, <2>2, WorkerTypes DEF WritesDone, TypeOK
<1>15. ASSUME NEW w \in Workers, CompletePoll(w) PROVE TypeOK'
  <2>1. health' \in [fresh : BOOLEAN, ok : BOOLEAN, due : BOOLEAN]
    <3>1. \A b \in BOOLEAN : [fresh |-> TRUE, ok |-> b, due |-> FALSE]
                               \in [fresh : BOOLEAN, ok : BOOLEAN, due : BOOLEAN]
      OBVIOUS
    <3>2. (worker[w].outcome \in {"clean", "changed"}) \in BOOLEAN
      OBVIOUS
    <3>3. QED
      BY <1>15, <3>1, <3>2, Zenon DEF CompletePoll, TypeOK
  <2>2. QED
    BY <1>15, <2>1 DEF CompletePoll, TypeOK, ghosts
<1>16. ASSUME NEW w \in Workers, LoseSession(w) PROVE TypeOK'
  <2>1. [worker[w] EXCEPT !.slot = FALSE] \in Polls
    BY <1>16, BusyPolls, PollUpdates DEF LoseSession, InPoll
  <2>2. WorkerOnly(w, [worker[w] EXCEPT !.slot = FALSE])
    BY <1>16 DEF LoseSession, WorkerOnly, TypeOK
  <2>3. faults' \in 0..MaxFaults
    BY <1>16, ControlAssumption DEF LoseSession, TypeOK
  <2>4. QED
    BY <2>1, <2>2, <2>3, WorkerTypes
<1>17. ASSUME NEW w \in Workers, Crash(w) PROVE TypeOK'
  <2>1. faults' \in 0..MaxFaults
    BY <1>17, ControlAssumption DEF Crash, TypeOK
  <2>2. QED
    BY <1>17, <2>1, WorkerTypes DEF Crash, WorkerOnly
<1>18. CASE UNCHANGED vars
  BY <1>18 DEF vars, TypeOK
<1>19. QED
  BY <1>1, <1>2, <1>3, <1>4, <1>5, <1>6, <1>7, <1>8, <1>9, <1>10, <1>11, <1>12,
     <1>13, <1>14, <1>15, <1>16, <1>17, <1>18
     DEF Next, Administrate, Poll

\* Every reachable state of the control plane is well typed, for any number of
\* workers, requests and versions.
THEOREM TypeCorrect == Spec => []TypeOK
BY TypeInit, TypeStep, PTL DEF Spec

---------------------------------------------------------------------------
(* Versions identify contents. *)

\* What carries a version carries what the history says of that version.
Recorded(version, content) ==
  version \in 1..setting.version /\ history[version].content = content

CarriersAgree ==
  /\ \A w \in Workers : worker[w].phase # "idle" =>
       Recorded(worker[w].version, worker[w].content)
  /\ \A r \in Requests : request[r].phase # "idle" =>
       Recorded(request[r].version, request[r].content)

\* The evidence the gate looks up was given for the content of its version.
EvidenceAgrees ==
  /\ setting.dryValid /\ setting.dryVersion > 0 =>
       /\ setting.dryVersion \in 1..setting.version
       /\ <<setting.dryVersion, history[setting.dryVersion].content>> \in dryOk
  /\ \A v \in Versions : shadow[v] = "ok" =>
       v \in 1..setting.version /\ <<v, history[v].content>> \in shadowOk

Inv ==
  /\ CurrentIsRecorded
  /\ CarriersAgree
  /\ EvidenceAgrees
  /\ ActiveWasProven

\* A new version leaves the older ones alone, so everything that was said of
\* them still holds; it must itself be proven when it is active.
LEMMA NewVersion ==
  ASSUME TypeOK, Inv, NEW mode \in Modes, NEW content \in Contents, NEW keep \in BOOLEAN,
         SaveVersion(mode, content, keep),
         mode = "active" =>
           /\ content = setting.content
           /\ \/ setting.mode = "active"
              \/ /\ setting.mode = "dry_run"
                 /\ <<setting.version, setting.content>> \in dryOk \cap shadowOk
  PROVE  Inv'
<1> DEFINE n == setting.version + 1
<1>1. /\ n \in Versions /\ setting.version \in Nat /\ n \notin 1..setting.version
      /\ setting'.version = n /\ 1..n = 1..setting.version \cup {n}
      /\ setting.version \in Versions /\ Versions \subseteq Nat
  BY ControlAssumption DEF TypeOK, Settings, SaveVersion, Versions
<1>2. /\ history'[n] = [mode |-> mode, content |-> content]
      /\ \A v \in Versions : v # n => history'[v] = history[v]
  BY <1>1 DEF TypeOK, SaveVersion
<1>3. CurrentIsRecorded'
  BY <1>1, <1>2 DEF CurrentIsRecorded, Config, SaveVersion
<1>4. \A v, c : Recorded(v, c) => v \in 1..n /\ history'[v].content = c
  BY <1>1, <1>2, ControlAssumption DEF Recorded, Versions, TypeOK, Settings
<1>5. CarriersAgree'
  BY <1>1, <1>4 DEF Inv, CarriersAgree, Recorded, SaveVersion
<1>6. EvidenceAgrees'
  <2>1. setting'.dryValid /\ setting'.dryVersion > 0 =>
          setting.dryValid /\ setting'.dryVersion = setting.dryVersion
    BY DEF SaveVersion
  <2>2. setting.dryValid /\ setting.dryVersion > 0 =>
          setting.dryVersion \in Versions /\ setting.dryVersion # n
    BY <1>1, ControlAssumption DEF Inv, EvidenceAgrees, Versions
  <2>3. \A v \in Versions : shadow[v] = "ok" => v # n /\ v \in 1..n
    BY <1>1 DEF Inv, EvidenceAgrees
  <2>4. dryOk' = dryOk /\ shadowOk' = shadowOk /\ shadow' = shadow
    BY DEF SaveVersion, ghosts
  <2>5. QED
    BY <1>1, <1>2, <2>1, <2>2, <2>3, <2>4 DEF Inv, EvidenceAgrees
<1>7. ActiveWasProven'
  <2> SUFFICES ASSUME NEW v \in Versions, v > 1, v <= n, history'[v].mode = "active"
               PROVE  /\ history'[v - 1].content = history'[v].content
                      /\ \/ history'[v - 1].mode = "active"
                         \/ /\ history'[v - 1].mode = "dry_run"
                            /\ <<v - 1, history'[v].content>> \in dryOk' \cap shadowOk'
    BY <1>1 DEF ActiveWasProven
  <2>1. dryOk' = dryOk /\ shadowOk' = shadowOk
    BY DEF SaveVersion, ghosts
  <2>2. v - 1 \in Versions /\ v - 1 # n /\ v - 1 \in 1..setting.version
    BY <1>1, ControlAssumption DEF Versions
  <2>3. history'[v - 1] = history[v - 1]
    BY <1>2, <2>2
  <2>4. CASE v = n
    <3>1. /\ v - 1 = setting.version
          /\ history[v - 1].mode = setting.mode /\ history[v - 1].content = setting.content
      BY <1>1, <2>4 DEF Inv, CurrentIsRecorded, Config
    <3>2. mode = "active" /\ history'[v].content = content
      BY <1>2, <2>4
    <3>3. QED
      BY <2>1, <2>3, <3>1, <3>2
  <2>5. CASE v # n
    <3>1. v <= setting.version /\ history'[v] = history[v]
      BY <1>1, <1>2, <2>5
    <3>2. QED
      BY <2>1, <2>3, <3>1 DEF Inv, ActiveWasProven
  <2>6. QED
    BY <2>4, <2>5
<1>8. QED
  BY <1>3, <1>5, <1>6, <1>7 DEF Inv

\* A step that leaves the row, the history and the evidence alone keeps what
\* is said of them; the polls and calls must agree by themselves.
LEMMA QuietStep ==
  ASSUME Inv, UNCHANGED <<setting, history, shadow, dryOk, shadowOk>>, CarriersAgree'
  PROVE  Inv'
BY DEF Inv, CurrentIsRecorded, Config, EvidenceAgrees, ActiveWasProven

\* A poll that keeps its version and content, or ends, still agrees.
LEMMA PollKept ==
  ASSUME TypeOK, Inv, NEW w \in Workers, NEW p, worker' = [worker EXCEPT ![w] = p],
         p.phase # "idle" => /\ worker[w].phase # "idle"
                             /\ p.version = worker[w].version
                             /\ p.content = worker[w].content,
         UNCHANGED <<setting, history, request>>
  PROVE  CarriersAgree'
BY DEF Inv, CarriersAgree, Recorded, TypeOK

LEMMA InvStep == TypeOK /\ Inv /\ [Next]_vars => Inv'
<1> SUFFICES ASSUME TypeOK, Inv, [Next]_vars PROVE Inv'
  OBVIOUS
<1> USE DEF ghosts
<1>0. Free.phase = "idle"
  BY DEF Free
<1>1. ASSUME NEW mode \in Modes, NEW content \in Contents, NEW token \in BOOLEAN,
             Update(mode, content, token)
      PROVE  Inv'
  <2>1. CASE mode = "active" /\ ~IngestionConfigChanged(content, token)
    <3>1. SaveVersion(mode, content, FALSE) /\ content = setting.content
          /\ setting.mode = "active"
      BY <1>1, <2>1 DEF Update, IngestionConfigChanged
    <3>2. QED
      BY <3>1, NewVersion
  <2>2. CASE mode = "active" /\ IngestionConfigChanged(content, token)
    <3>1. SaveVersion("dry_run", content, FALSE)
      BY <1>1, <2>2 DEF Update
    <3>2. "dry_run" \in Modes
      BY DEF Modes
    <3>3. QED
      BY <3>1, <3>2, NewVersion
  <2>3. CASE mode # "active"
    <3>1. SaveVersion(mode, content, FALSE)
      BY <1>1, <2>3 DEF Update
    <3>2. QED
      BY <2>3, <3>1, NewVersion
  <2>4. QED
    BY <2>1, <2>2, <2>3
<1>2. ASSUME NEW r \in Requests, DryRunStart(r) PROVE Inv'
  <2>1. Recorded(setting.version, setting.content)
    BY ControlAssumption
    DEF Inv, CurrentIsRecorded, Config, Recorded, TypeOK, Settings, Versions
  <2>2. CarriersAgree'
    BY <1>2, <2>1 DEF Inv, CarriersAgree, Recorded, DryRunStart, TypeOK
  <2>3. QED
    BY <1>2, <2>2, QuietStep DEF DryRunStart
<1>3. ASSUME NEW r \in Requests, NEW valid \in BOOLEAN, DryRunFinish(r, valid)
      PROVE  Inv'
  <2>1. Recorded(request[r].version, request[r].content)
    BY <1>3 DEF DryRunFinish, Inv, CarriersAgree
  <2>2. /\ setting'.version = setting.version /\ setting'.mode = setting.mode
        /\ setting'.content = setting.content
    BY <1>3 DEF DryRunFinish, TypeOK, Settings
  <2>3. UNCHANGED <<history, shadow, shadowOk, worker>> /\ dryOk \subseteq dryOk'
    BY <1>3 DEF DryRunFinish
  <2>4. CurrentIsRecorded'
    BY <2>2, <2>3 DEF Inv, CurrentIsRecorded, Config
  <2>5. CarriersAgree'
    BY <1>0, <1>3, <2>2, <2>3 DEF Inv, CarriersAgree, Recorded, DryRunFinish, TypeOK
  <2>6. EvidenceAgrees'
    <3>1. CASE setting' = setting
      BY <2>3, <3>1 DEF Inv, EvidenceAgrees
    <3>2. CASE setting' # setting
      <4>1. /\ setting.version = request[r].version
            /\ setting'.dryValid = valid /\ setting'.dryVersion = setting.version
        BY <1>3, <3>2 DEF DryRunFinish, SameDryRunVersion, TypeOK, Settings
      <4>2. valid => <<setting.version, history[setting.version].content>> \in dryOk'
        BY <1>3, <2>1, <4>1 DEF DryRunFinish, Recorded
      <4>3. QED
        BY <2>1, <2>2, <2>3, <4>1, <4>2 DEF Inv, EvidenceAgrees, Recorded
    <3>3. QED
      BY <3>1, <3>2
  <2>7. ActiveWasProven'
    BY <2>2, <2>3 DEF Inv, ActiveWasProven
  <2>8. QED
    BY <2>4, <2>5, <2>6, <2>7 DEF Inv
<1>4. ASSUME Activate PROVE Inv'
  <2>1. setting.version \in Versions /\ setting.version > 0
    BY ControlAssumption DEF TypeOK, Settings, Versions
  <2>2. history[setting.version].content = setting.content
    BY DEF Inv, CurrentIsRecorded, Config
  <2>3. <<setting.version, setting.content>> \in dryOk
    BY <1>4, <2>1, <2>2 DEF Activate, DryRunPassed, Inv, EvidenceAgrees
  <2>4. <<setting.version, setting.content>> \in shadowOk
    BY <1>4, <2>1, <2>2 DEF Activate, ShadowPassed, Inv, EvidenceAgrees
  <2>5. /\ setting.mode = "dry_run" /\ SaveVersion("active", setting.content, TRUE)
        /\ "active" \in Modes /\ setting.content \in Contents
    BY <1>4 DEF Activate, DryRunPassed, Modes, TypeOK, Settings
  <2>6. QED
    BY <2>3, <2>4, <2>5, NewVersion
<1>5. ASSUME NEW v \in Versions, Rollback(v) PROVE Inv'
  <2>1. PICK m \in {"disabled", "dry_run"} : SaveVersion(m, history[v].content, FALSE)
    BY <1>5 DEF Rollback
  <2>2. history[v].content \in Contents /\ m \in Modes /\ m # "active"
    BY DEF TypeOK, Configs, Modes
  <2>3. QED
    BY <2>1, <2>2, NewVersion
<1>6. ASSUME Elapse PROVE Inv'
  BY <1>6, QuietStep DEF Elapse, Inv, CarriersAgree, Recorded
<1>7. ASSUME NEW w \in Workers, Resolve(w) PROVE Inv'
  <2>1. Recorded(setting.version, setting.content)
    BY ControlAssumption
    DEF Inv, CurrentIsRecorded, Config, Recorded, TypeOK, Settings, Versions
  <2>2. CarriersAgree'
    BY <1>7, <2>1 DEF Inv, CarriersAgree, Recorded, Resolve, StartPoll, TypeOK
  <2>3. QED
    BY <1>7, <2>2, QuietStep DEF Resolve, StartPoll
<1>8. ASSUME NEW w \in Workers, AcquireSlot(w) PROVE Inv'
  <2> DEFINE p == [worker[w] EXCEPT !.phase = "fetching", !.slot = TRUE]
  <2>1. /\ worker[w].phase # "idle" /\ p.version = worker[w].version
        /\ p.content = worker[w].content
    BY <1>8, BusyPolls DEF AcquireSlot, Polls
  <2>2. worker' = [worker EXCEPT ![w] = p]
    BY <1>8 DEF AcquireSlot, TypeOK
  <2>3. CarriersAgree'
    BY <1>8, <2>1, <2>2, PollKept DEF AcquireSlot
  <2>4. QED
    BY <1>8, <2>3, QuietStep DEF AcquireSlot
<1>9. ASSUME NEW w \in Workers, SkipPoll(w) PROVE Inv'
  <2>1. CarriersAgree'
    BY <1>0, <1>9, PollKept DEF SkipPoll
  <2>2. QED
    BY <1>9, <2>1, QuietStep DEF SkipPoll
<1>10. ASSUME NEW w \in Workers, NEW outcome \in Outcomes, Fetch(w, outcome) PROVE Inv'
  <2>1. CarriersAgree'
    BY <1>10, BusyPolls, PollKept DEF Fetch, TypeOK, Polls
  <2>2. QED
    BY <1>10, <2>1, QuietStep DEF Fetch
<1>11. ASSUME NEW w \in Workers, RecordShadow(w) PROVE Inv'
  <2>1. worker[w] \in Polls /\ Recorded(worker[w].version, worker[w].content)
    BY <1>11, BusyPolls DEF RecordShadow, Inv, CarriersAgree
  <2>2. UNCHANGED <<setting, history, request, dryOk>> /\ shadowOk \subseteq shadowOk'
    BY <1>11 DEF RecordShadow
  <2>3. CarriersAgree'
    BY <1>11, <2>1, <2>2, PollKept DEF RecordShadow, TypeOK, Polls
  <2>4. CurrentIsRecorded'
    BY <2>2 DEF Inv, CurrentIsRecorded, Config
  <2>5. ActiveWasProven'
    BY <2>2 DEF Inv, ActiveWasProven
  <2>6. EvidenceAgrees'
    <3>1. \A v \in Versions : shadow'[v] = "ok" =>
            v \in 1..setting.version /\ <<v, history[v].content>> \in shadowOk'
      BY <1>11, <2>1, <2>2 DEF RecordShadow, Inv, EvidenceAgrees, Recorded, TypeOK
    <3>2. QED
      BY <2>2, <3>1 DEF Inv, EvidenceAgrees
  <2>7. QED
    BY <2>3, <2>4, <2>5, <2>6 DEF Inv
<1>12. ASSUME NEW w \in Workers, Write(w) PROVE Inv'
  BY <1>12, QuietStep DEF Write, Inv, CarriersAgree, Recorded
<1>13. ASSUME NEW w \in Workers, WriteRefused(w) PROVE Inv'
  <2>1. PICK next \in {Free, [worker[w] EXCEPT !.phase = "closing"]} :
          worker' = [worker EXCEPT ![w] = next]
    BY <1>13 DEF WriteRefused
  <2>2. CarriersAgree'
    BY <1>0, <1>13, <2>1, BusyPolls, PollKept DEF WriteRefused, Polls
  <2>3. QED
    BY <1>13, <2>2, QuietStep DEF WriteRefused
<1>14. ASSUME NEW w \in Workers, WritesDone(w) PROVE Inv'
  <2>1. CarriersAgree'
    BY <1>14, BusyPolls, PollKept DEF WritesDone, TypeOK, Polls
  <2>2. QED
    BY <1>14, <2>1, QuietStep DEF WritesDone
<1>15. ASSUME NEW w \in Workers, CompletePoll(w) PROVE Inv'
  <2>1. CarriersAgree'
    BY <1>0, <1>15, PollKept DEF CompletePoll
  <2>2. QED
    BY <1>15, <2>1, QuietStep DEF CompletePoll
<1>16. ASSUME NEW w \in Workers, LoseSession(w) PROVE Inv'
  <2>1. CarriersAgree'
    BY <1>16, BusyPolls, PollKept DEF LoseSession, InPoll, TypeOK, Polls
  <2>2. QED
    BY <1>16, <2>1, QuietStep DEF LoseSession
<1>17. ASSUME NEW w \in Workers, Crash(w) PROVE Inv'
  <2>1. CarriersAgree'
    BY <1>0, <1>17, PollKept DEF Crash
  <2>2. QED
    BY <1>17, <2>1, QuietStep DEF Crash
<1>18. CASE UNCHANGED vars
  BY <1>18, QuietStep DEF vars, Inv, CarriersAgree, Recorded
<1>19. QED
  BY <1>1, <1>2, <1>3, <1>4, <1>5, <1>6, <1>7, <1>8, <1>9, <1>10, <1>11, <1>12,
     <1>13, <1>14, <1>15, <1>16, <1>17, <1>18
     DEF Next, Administrate, Poll

LEMMA InvInit == Init => Inv
<1> SUFFICES ASSUME Init PROVE Inv
  OBVIOUS
<1>1. 1 \in Versions /\ setting.version = 1
  BY ControlAssumption DEF Init, Versions
<1>2. CurrentIsRecorded
  BY <1>1 DEF Init, CurrentIsRecorded
<1>3. CarriersAgree
  BY DEF Init, CarriersAgree, Free
<1>4. EvidenceAgrees
  BY DEF Init, EvidenceAgrees
<1>5. ActiveWasProven
  BY <1>1 DEF ActiveWasProven, Versions
<1>6. QED
  BY <1>2, <1>3, <1>4, <1>5 DEF Inv

LEMMA InvAlways == Spec => []Inv
BY InvInit, InvStep, TypeCorrect, PTL DEF Spec

\* No source is active with a configuration that was not proven, by an API
\* dry-run and by a shadow poll, as the very version before its activation.
THEOREM ActivationIsProven == Spec => []ActiveWasProven
<1>1. Inv => ActiveWasProven
  BY DEF Inv
<1>2. QED
  BY <1>1, InvAlways, PTL

---------------------------------------------------------------------------
(* The write fence. *)

LEMMA WriteStep ==
  ASSUME Guarded
  PROVE  TypeOK /\ Inv /\ WritesAreAuthorised /\ [Next]_vars => WritesAreAuthorised'
<1> SUFFICES ASSUME TypeOK, Inv, WritesAreAuthorised, [Next]_vars
             PROVE  WritesAreAuthorised'
  OBVIOUS
<1>1. ASSUME NEW w \in Workers, Write(w) PROVE WritesAreAuthorised'
  <2>1. /\ setting.mode = "active" /\ setting.version = worker[w].version
        /\ worker[w].phase # "idle"
    BY <1>1 DEF Write, SourceWriteIsAllowed
  <2>2. history[setting.version].content = worker[w].content
    BY <2>1 DEF Inv, CarriersAgree, Recorded
  <2>3. worker[w].content = setting.content
    BY <2>2 DEF Inv, CurrentIsRecorded, Config
  <2>4. QED
    BY <1>1, <2>1, <2>3 DEF Write, WritesAreAuthorised
<1>2. CASE UNCHANGED writes
  BY <1>2 DEF WritesAreAuthorised
<1>3. \/ UNCHANGED writes
      \/ \E w \in Workers : Write(w)
  BY DEF Next, vars, ghosts, Administrate, Poll, Update, SaveVersion, DryRunStart,
     DryRunFinish, Activate, Rollback, Elapse, Resolve, StartPoll, AcquireSlot, SkipPoll,
     Fetch, RecordShadow, WriteRefused, WritesDone, CompletePoll, LoseSession, Crash
<1>4. QED
  BY <1>1, <1>2, <1>3

\* Of the two guarded sources nothing is written by a poll whose configuration
\* is not the active one at that moment, slot or no slot: the version fence is
\* enough, for any number of workers.
THEOREM WritesAuthorised ==
  ASSUME Guarded
  PROVE  Spec => []WritesAreAuthorised
<1>1. Init => WritesAreAuthorised
  BY DEF Init, WritesAreAuthorised
<1>2. TypeOK /\ Inv /\ WritesAreAuthorised /\ [Next]_vars => WritesAreAuthorised'
  BY WriteStep
<1>3. QED
  BY <1>1, <1>2, TypeCorrect, InvAlways, PTL DEF Spec

---------------------------------------------------------------------------
(* The run of a poll. *)

\* While no session was lost, a poll has the slot and is the only one.  A poll
\* that writes was active, so that a dry-run poll which closes without error
\* comes from its evidence, and nobody else has replaced that.
PollsInTurn ==
  \A w \in Workers : InPoll(w) =>
    worker[w].slot /\ \A x \in Workers : InPoll(x) => x = w

PollsReport ==
  \A w \in Workers :
    /\ worker[w].phase = "writing" => worker[w].mode = "active"
    /\ /\ worker[w].phase = "closing" /\ worker[w].mode = "dry_run"
       /\ worker[w].outcome = "clean"
       => shadow[worker[w].version] = "ok"

PollInv == faults = 0 => PollsInTurn /\ PollsReport

\* A poll that goes on with its slot to another phase, without reporting.
LEMMA PollGoesOn ==
  ASSUME TypeOK, PollsInTurn, PollsReport, NEW w \in Workers, NEW p \in Polls,
         worker' = [worker EXCEPT ![w] = p], UNCHANGED shadow,
         InPoll(w), p.slot = worker[w].slot,
         p.phase = "writing" => p.mode = "active",
         p.phase = "closing" =>
           p.mode = "active" \/ p.outcome # "clean" \/ shadow[p.version] = "ok"
  PROVE  PollsInTurn' /\ PollsReport'
<1>1. \A x \in Workers : x # w => worker'[x] = worker[x]
  BY DEF TypeOK
<1>2. worker'[w] = p
  BY DEF TypeOK
<1>3. PollsInTurn'
  BY <1>1, <1>2 DEF PollsInTurn, InPoll
<1>4. PollsReport'
  BY <1>1, <1>2 DEF PollsReport, Polls
<1>5. QED
  BY <1>3, <1>4

\* A poll that ends, or that has not begun, leaves the others as they are.
LEMMA PollRests ==
  ASSUME TypeOK, PollsInTurn, PollsReport, NEW w \in Workers, NEW p,
         p.phase = "idle" \/ p.phase = "resolved",
         worker' = [worker EXCEPT ![w] = p], UNCHANGED shadow
  PROVE  PollsInTurn' /\ PollsReport'
<1>1. \A x \in Workers : x # w => worker'[x] = worker[x]
  BY DEF TypeOK
<1>2. worker'[w] = p
  BY DEF TypeOK
<1>3. PollsInTurn'
  BY <1>1, <1>2 DEF PollsInTurn, InPoll
<1>4. PollsReport'
  BY <1>1, <1>2 DEF PollsReport
<1>5. QED
  BY <1>3, <1>4

\* Steps of others leave the polls and their evidence alone.
LEMMA PollsUntouched ==
  ASSUME PollsInTurn, PollsReport, UNCHANGED <<worker, shadow>>
  PROVE  PollsInTurn' /\ PollsReport'
BY DEF PollsInTurn, PollsReport, InPoll

LEMMA PollStep ==
  ASSUME Guarded
  PROVE  TypeOK /\ PollInv /\ [Next]_vars => PollInv'
<1> SUFFICES ASSUME TypeOK, PollInv, [Next]_vars, faults' = 0
             PROVE  PollsInTurn' /\ PollsReport'
  BY DEF PollInv
<1> USE DEF ghosts
<1>0. /\ Free.phase = "idle"
      /\ faults \in Nat
  BY ControlAssumption DEF Free, TypeOK
<1>1. ASSUME NEW w \in Workers, Crash(w) \/ LoseSession(w) PROVE FALSE
  BY <1>0, <1>1 DEF Crash, LoseSession
<1>2. faults = 0
  BY <1>0, <1>1
  DEF Next, vars, Administrate, Poll, Update, SaveVersion, DryRunStart, DryRunFinish,
      Activate, Rollback, Elapse, Resolve, StartPoll, AcquireSlot, SkipPoll, Fetch,
      RecordShadow, Write, WriteRefused, WritesDone, CompletePoll
<1>3. PollsInTurn /\ PollsReport
  BY <1>2 DEF PollInv
<1>4. CASE Administrate \/ Elapse \/ UNCHANGED vars
  <2>1. UNCHANGED <<worker, shadow>>
    BY <1>4 DEF vars, Administrate, Update, SaveVersion, DryRunStart, DryRunFinish,
                Activate, Rollback, Elapse
  <2>2. QED
    BY <1>3, <2>1, PollsUntouched
<1>5. ASSUME NEW w \in Workers, Resolve(w) PROVE PollsInTurn' /\ PollsReport'
  <2> DEFINE p == [phase |-> IF Guarded THEN "resolved" ELSE "fetching",
                   version |-> setting.version, mode |-> setting.mode,
                   content |-> setting.content, outcome |-> "none", slot |-> FALSE]
  <2>1. p.phase = "resolved"
    OBVIOUS
  <2>2. worker' = [worker EXCEPT ![w] = p]
    BY <1>5 DEF Resolve, StartPoll
  <2>3. shadow' = shadow
    BY <1>5 DEF Resolve, StartPoll
  <2>4. QED
    BY <1>3, <2>1, <2>2, <2>3, PollRests
<1>6. ASSUME NEW w \in Workers, AcquireSlot(w) PROVE PollsInTurn' /\ PollsReport'
  <2>1. \A x \in Workers : x # w => worker'[x] = worker[x]
    BY <1>6 DEF AcquireSlot, TypeOK
  <2>2. /\ worker'[w].phase = "fetching" /\ worker'[w].slot
        /\ shadow' = shadow
    BY <1>6, BusyPolls DEF AcquireSlot, TypeOK, Polls
  <2>3. \A x \in Workers : ~InPoll(x)
    BY <1>3, <1>6 DEF AcquireSlot, SlotFree, PollsInTurn
  <2>4. \A x \in Workers : InPoll(x)' => x = w
    BY <2>1, <2>3 DEF InPoll
  <2>5. PollsInTurn'
    BY <2>2, <2>4 DEF PollsInTurn
  <2>6. PollsReport'
    BY <1>3, <2>1, <2>2 DEF PollsReport
  <2>7. QED
    BY <2>5, <2>6
<1>7. ASSUME NEW w \in Workers, SkipPoll(w) \/ CompletePoll(w)
      PROVE  PollsInTurn' /\ PollsReport'
  BY <1>0, <1>3, <1>7, PollRests DEF SkipPoll, CompletePoll
<1>8. ASSUME NEW w \in Workers, NEW outcome \in Outcomes, Fetch(w, outcome)
      PROVE  PollsInTurn' /\ PollsReport'
  <2> DEFINE x == IF outcome = "failed" THEN "closing"
                  ELSE IF worker[w].mode = "dry_run" THEN "shadowing" ELSE "writing"
             p == [worker[w] EXCEPT !.outcome = outcome, !.phase = x]
  <2>1. worker[w] \in Polls /\ InPoll(w)
    BY <1>8, BusyPolls DEF Fetch, InPoll
  <2>2. p \in Polls
    BY <2>1, PollUpdates
  <2>3. worker' = [worker EXCEPT ![w] = p] /\ UNCHANGED shadow
    BY <1>8 DEF Fetch, TypeOK
  <2>4. /\ p.slot = worker[w].slot /\ p.mode = worker[w].mode
        /\ p.phase = x /\ p.outcome = outcome
    BY <2>1 DEF Polls
  <2>5. /\ p.phase = "writing" => p.mode = "active"
        /\ p.phase = "closing" => p.outcome # "clean"
    BY <2>1, <2>4 DEF Polls
  <2> HIDE DEF p, x
  <2>6. QED
    BY <1>3, <2>1, <2>2, <2>3, <2>4, <2>5, PollGoesOn
<1>9. ASSUME NEW w \in Workers, RecordShadow(w) PROVE PollsInTurn' /\ PollsReport'
  <2>1. worker[w] \in Polls /\ InPoll(w)
    BY <1>9, BusyPolls DEF RecordShadow, InPoll
  <2>2. \A x \in Workers : x # w => worker'[x] = worker[x] /\ ~InPoll(x)
    BY <1>3, <1>9, <2>1 DEF RecordShadow, TypeOK, PollsInTurn
  <2>3. /\ worker'[w].phase = "closing" /\ worker'[w].slot = worker[w].slot
        /\ worker'[w].version = worker[w].version
        /\ worker'[w].outcome = worker[w].outcome
    BY <1>9, <2>1 DEF RecordShadow, TypeOK, Polls
  <2>4. PollsInTurn'
    BY <1>3, <2>1, <2>2, <2>3 DEF PollsInTurn, InPoll
  <2>5. worker[w].outcome = "clean" => shadow'[worker[w].version] = "ok"
    BY <1>9, <2>1 DEF RecordShadow, ShadowSucceeds, TypeOK, Polls
  <2>6. \A x \in Workers : x # w =>
          worker'[x].phase # "writing" /\ worker'[x].phase # "closing"
    BY <2>2 DEF InPoll
  <2>7. PollsReport'
    BY <2>3, <2>5, <2>6 DEF PollsReport
  <2>8. QED
    BY <2>4, <2>7
<1>10. ASSUME NEW w \in Workers, Write(w) PROVE PollsInTurn' /\ PollsReport'
  BY <1>3, <1>10, PollsUntouched DEF Write
<1>11. ASSUME NEW w \in Workers, WriteRefused(w) \/ WritesDone(w)
       PROVE  PollsInTurn' /\ PollsReport'
  <2> DEFINE p == [worker[w] EXCEPT !.phase = "closing"]
  <2>1. worker[w] \in Polls /\ InPoll(w) /\ worker[w].mode = "active"
    BY <1>3, <1>11, BusyPolls DEF WriteRefused, WritesDone, InPoll, PollsReport
  <2>2. p \in Polls
    BY <2>1, PollUpdates
  <2>3. p.slot = worker[w].slot /\ p.mode = "active" /\ p.phase = "closing"
    BY <2>1 DEF Polls
  <2>4. shadow' = shadow
    BY <1>11 DEF WriteRefused, WritesDone
  <2>5. \/ worker' = [worker EXCEPT ![w] = p]
        \/ worker' = [worker EXCEPT ![w] = Free]
    BY <1>11 DEF WriteRefused, WritesDone
  <2>6. CASE worker' = [worker EXCEPT ![w] = p]
    <3> HIDE DEF p
    <3> QED BY <1>3, <2>1, <2>2, <2>3, <2>4, <2>6, PollGoesOn
  <2>7. CASE worker' = [worker EXCEPT ![w] = Free]
    BY <1>0, <1>3, <2>4, <2>7, PollRests
  <2>8. QED
    BY <2>5, <2>6, <2>7
<1>12. QED
  BY <1>1, <1>4, <1>5, <1>6, <1>7, <1>8, <1>9, <1>10, <1>11 DEF Next, Poll

LEMMA PollAlways ==
  ASSUME Guarded
  PROVE  Spec => []PollInv
<1>1. Init => PollInv
  BY DEF Init, PollInv, PollsInTurn, PollsReport, InPoll, Free
<1>2. TypeOK /\ PollInv /\ [Next]_vars => PollInv'
  BY PollStep
<1>3. QED
  BY <1>1, <1>2, TypeCorrect, PTL DEF Spec

\* A dry-run poll of the current version that completes without error, and
\* between whose counts nobody added a row of the source, leaves its evidence and a healthy connector, so that only the API dry-run is
\* missing, for any number of workers of the guarded sources whose polls take
\* turns.
THEOREM CleanPollIsEnough ==
  ASSUME Guarded
  PROVE  Spec => CleanPollOpensGate
<1> DEFINE Opens ==
      \A w \in Workers :
        /\ worker[w].phase = "closing" /\ worker'[w] = Free /\ faults' = 0
        /\ worker[w].mode = "dry_run" /\ worker[w].outcome = "clean"
        /\ worker[w].version = setting.version
        /\ health' # health
        => ShadowPassed' /\ ConnectorHealthy'
<1>1. TypeOK /\ PollInv /\ [Next]_vars => [Opens]_vars
  <2> SUFFICES ASSUME TypeOK, PollInv, Next, NEW w \in Workers,
                      worker[w].phase = "closing", worker'[w] = Free, faults' = 0,
                      worker[w].mode = "dry_run", worker[w].outcome = "clean",
                      worker[w].version = setting.version, health' # health
               PROVE  ShadowPassed' /\ ConnectorHealthy'
    OBVIOUS
  <2>1. worker' # worker
    BY DEF Free
  <2>2. PICK x \in Workers : CompletePoll(x)
    BY <2>1 DEF Next, Administrate, Poll, Update, SaveVersion, DryRunStart,
      DryRunFinish, Activate, Rollback, Elapse, Resolve, StartPoll, AcquireSlot,
      SkipPoll, Fetch, RecordShadow, Write, WriteRefused, WritesDone, Crash, LoseSession
  <2>3. x = w
    <3>1. x # w => worker'[w] = worker[w]
      BY <2>2 DEF CompletePoll, TypeOK
    <3>2. QED
      BY <3>1 DEF Free
  <2>4. UNCHANGED <<setting, shadow, faults>>
    BY <2>2 DEF CompletePoll
  <2>5. shadow[setting.version] = "ok"
    BY <2>4 DEF PollInv, PollsReport
  <2>6. health' = [fresh |-> TRUE, ok |-> worker[w].outcome \in {"clean", "changed"},
                   due |-> FALSE]
    BY <2>2, <2>3 DEF CompletePoll
  <2>7. health'.fresh /\ health'.ok
    BY <2>6
  <2>8. QED
    BY <2>4, <2>5, <2>7 DEF ShadowPassed, ConnectorHealthy
<1>2. QED
  BY <1>1, PollAlways, TypeCorrect, PTL DEF Spec, CleanPollOpensGate

=============================================================================
