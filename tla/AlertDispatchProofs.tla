------------------------ MODULE AlertDispatchProofs ------------------------
(***************************************************************************)
(* Proofs about AlertDispatch, for any number of events, concurrent        *)
(* cycles, targets and faults.                                             *)
(*                                                                         *)
(* The argument: the unique key leaves one alert per event and kind, and   *)
(* a cycle that dispatches has inserted its alert (Dispatches below), so   *)
(* an alert has one dispatcher, which writes the only rows of the alert.   *)
(***************************************************************************)
EXTENDS AlertDispatch, TLAPS

---------------------------------------------------------------------------
(* Types. *)

\* A cycle that creates or dispatches knows which alert.
LEMMA RunsHaveKeys ==
  ASSUME TypeOK, NEW c \in Cycles, cycle[c].phase \in {"creating", "dispatching"}
  PROVE  /\ cycle[c].key \in Keys
         /\ cycle[c].kind \in Kinds
         /\ cycle[c].todo \in SUBSET Keys
         /\ cycle[c].left \in SUBSET Targets
         /\ cycle[c] \in [phase : {"creating", "dispatching"}, kind : Kinds,
                          todo : SUBSET Keys, key : Keys, left : SUBSET Targets]
BY DEF TypeOK, Idle, Runs

LEMMA LookersHaveLists ==
  ASSUME TypeOK, NEW c \in Cycles, cycle[c].phase = "looking"
  PROVE  /\ cycle[c].kind \in Kinds
         /\ cycle[c].todo \in SUBSET Keys
         /\ cycle[c] \in [phase : {"looking"}, kind : Kinds, todo : SUBSET Keys]
BY DEF TypeOK, Idle, Runs

\* The steps that only move a cycle on.
MovesOnly(c, run) ==
  /\ cycle' = [cycle EXCEPT ![c] = run]
  /\ UNCHANGED <<wanted, alerts, log, faults, cut>>

LEMMA MoveTypes ==
  ASSUME TypeOK, NEW c \in Cycles, NEW run \in {Idle} \cup Runs, MovesOnly(c, run)
  PROVE  TypeOK'
BY DEF TypeOK, MovesOnly

\* A cycle dispatches the alert it has inserted, to some of those it concerns.
Dispatches ==
  \A c \in Cycles : Dispatching(c) =>
    /\ Mine(c) \in alerts
    /\ cycle[c].left \subseteq wanted[cycle[c].key]

LEMMA TypeInit == Init => TypeOK
<1> SUFFICES ASSUME Init PROVE TypeOK
  OBVIOUS
<1>1. 0 \in 0..MaxFaults
  BY DispatchAssumption
<1>2. QED
  BY <1>1 DEF Init, TypeOK

LEMMA TypeStep == TypeOK /\ Dispatches /\ [Next]_vars => TypeOK'
<1> SUFFICES ASSUME TypeOK, Dispatches, [Next]_vars PROVE TypeOK'
  OBVIOUS
<1>1. ASSUME NEW c \in Cycles, StartCycle(c) PROVE TypeOK'
  <2>1. [phase |-> "looking", kind |-> "peril",
         todo |-> [event : Events, kind : {"peril"}]] \in {Idle} \cup Runs
    BY DEF Runs, Kinds, Keys
  <2>2. QED
    BY <1>1, <2>1, MoveTypes DEF StartCycle, MovesOnly
<1>2. ASSUME NEW c \in Cycles, NEW high \in SUBSET Events, LoadHighRisk(c, high)
      PROVE TypeOK'
  <2>1. [phase |-> "looking", kind |-> "risk_score",
         todo |-> [event : high, kind : {"risk_score"}]] \in {Idle} \cup Runs
    BY DEF Runs, Kinds, Keys
  <2>2. QED
    BY <1>2, <2>1, MoveTypes DEF LoadHighRisk, MovesOnly
<1>3. ASSUME NEW c \in Cycles, EndCycle(c) \/ CreateRefused(c) PROVE TypeOK'
  BY <1>3, MoveTypes DEF EndCycle, CreateRefused, MovesOnly
<1>4. ASSUME NEW c \in Cycles, NEW k \in Keys, PassOver(c, k) PROVE TypeOK'
  <2>1. [cycle[c] EXCEPT !.todo = @ \ {k}] \in {Idle} \cup Runs
    BY <1>4, LookersHaveLists DEF PassOver, Looking, Runs
  <2>2. MovesOnly(c, [cycle[c] EXCEPT !.todo = @ \ {k}])
    BY <1>4 DEF PassOver, MovesOnly
  <2>3. QED
    BY <2>1, <2>2, MoveTypes
<1>5. ASSUME NEW c \in Cycles, NEW k \in Keys, Decide(c, k) PROVE TypeOK'
  <2>1. [phase |-> "creating", kind |-> cycle[c].kind, todo |-> cycle[c].todo \ {k},
         key |-> k, left |-> {}] \in {Idle} \cup Runs
    BY <1>5, LookersHaveLists DEF Decide, Looking, Runs
  <2>2. QED
    BY <1>5, <2>1, MoveTypes DEF Decide, MovesOnly
<1>6. ASSUME NEW c \in Cycles, CreateAlert(c) PROVE TypeOK'
  <2>1. cycle[c].key \in Keys /\ wanted[cycle[c].key] \in SUBSET Targets
    BY <1>6, RunsHaveKeys DEF CreateAlert, TypeOK
  <2>2. alerts' \subseteq Alerts
    BY <1>6, <2>1 DEF CreateAlert, TypeOK, Alerts
  <2>3. [cycle[c] EXCEPT !.phase = "dispatching", !.left = wanted[cycle[c].key]] \in Runs
    BY <1>6, <2>1, RunsHaveKeys DEF CreateAlert, Runs
  <2>4. cycle' = [cycle EXCEPT ![c] =
                    [cycle[c] EXCEPT !.phase = "dispatching", !.left = wanted[cycle[c].key]]]
    BY <1>6 DEF CreateAlert
  <2>5. QED
    BY <1>6, <2>2, <2>3, <2>4 DEF CreateAlert, TypeOK
<1>7. ASSUME NEW c \in Cycles, NEW t \in Targets, DispatchTo(c, t) PROVE TypeOK'
  <2>1. Mine(c) \in Alerts
    BY <1>7, RunsHaveKeys DEF DispatchTo, Dispatching, Mine, Alerts
  <2>2. log' \subseteq Rows
    BY <1>7, <2>1 DEF DispatchTo, TypeOK, Rows
  <2>3. [cycle[c] EXCEPT !.left = @ \ {t}] \in Runs
    BY <1>7, RunsHaveKeys DEF DispatchTo, Dispatching, Runs
  <2>4. QED
    BY <1>7, <2>2, <2>3 DEF DispatchTo, TypeOK
<1>8. ASSUME NEW c \in Cycles, EndDispatch(c) PROVE TypeOK'
  <2>1. [phase |-> "looking", kind |-> cycle[c].kind, todo |-> cycle[c].todo] \in Runs
    BY <1>8, RunsHaveKeys DEF EndDispatch, Dispatching, Runs
  <2>2. QED
    BY <1>8, <2>1, MoveTypes DEF EndDispatch, MovesOnly
<1>9. ASSUME NEW c \in Cycles, Fault(c) PROVE TypeOK'
  <2>1. faults' \in 0..MaxFaults
    BY <1>9, DispatchAssumption DEF Fault, TypeOK
  <2>2. cut' \subseteq alerts'
    BY <1>9 DEF Fault, TypeOK, Dispatches
  <2>3. cycle' \in [Cycles -> {Idle} \cup Runs]
    BY <1>9 DEF Fault, TypeOK
  <2>4. QED
    BY <1>9, <2>1, <2>2, <2>3 DEF Fault, TypeOK
<1>10. CASE UNCHANGED vars
  BY <1>10 DEF TypeOK, vars
<1>11. QED
  BY <1>1, <1>2, <1>3, <1>4, <1>5, <1>6, <1>7, <1>8, <1>9, <1>10 DEF Next, Evaluate

---------------------------------------------------------------------------
(* The inductive invariant. *)

\* The unique key: one alert per event and kind.
OnePerKey == \A a, b \in alerts : a.key = b.key => a = b

\* Rows are about alerts that exist, for those they concern.
RowsBelong == \A r \in log : r.alert \in alerts /\ r.to \in wanted[r.alert.key]

Inv == TypeOK /\ Dispatches /\ OnePerKey /\ RowsBelong /\ LostOnlyByFault

LEMMA InvInit == Init => Inv
<1> SUFFICES ASSUME Init PROVE Inv
  OBVIOUS
<1>1. TypeOK
  BY TypeInit
<1>2. Dispatches
  BY DEF Init, Dispatches, Dispatching, Idle
<1>3. OnePerKey /\ RowsBelong /\ LostOnlyByFault
  BY DEF Init, OnePerKey, RowsBelong, LostOnlyByFault
<1>4. QED
  BY <1>1, <1>2, <1>3 DEF Inv

\* A step that moves a cycle which does not dispatch to a phase in which it
\* does not either.
LEMMA MoveKeepsInv ==
  ASSUME Inv, TypeOK', NEW c \in Cycles, NEW run, MovesOnly(c, run),
         \/ ~Dispatching(c)
         \/ cycle[c].left = {},
         run.phase # "dispatching"
  PROVE  Inv'
<1>1. ~Dispatching(c)'
  BY DEF Inv, TypeOK, MovesOnly, Dispatching
<1>2. \A d \in Cycles \ {c} : cycle'[d] = cycle[d]
  BY DEF Inv, TypeOK, MovesOnly
<1>3. Dispatches'
  BY <1>1, <1>2 DEF Inv, Dispatches, Dispatching, Mine, MovesOnly
<1>4. OnePerKey' /\ RowsBelong'
  BY DEF Inv, OnePerKey, RowsBelong, MovesOnly
<1>5. LostOnlyByFault'
  BY <1>1, <1>2 DEF Inv, LostOnlyByFault, Dispatching, Mine, MovesOnly
<1>6. QED
  BY <1>3, <1>4, <1>5 DEF Inv

LEMMA CreateKeepsInv ==
  ASSUME Inv, TypeOK', NEW c \in Cycles, CreateAlert(c)
  PROVE  Inv'
<1> DEFINE new == [key |-> cycle[c].key, by |-> c]
<1>1. /\ cycle[c].key \in Keys
      /\ ~HasAlert(cycle[c].key)
      /\ alerts' = alerts \cup {new}
      /\ log' = log /\ wanted' = wanted /\ cut' = cut
  BY RunsHaveKeys DEF CreateAlert, Inv, KeyTaken
<1>2. \A d \in Cycles \ {c} : cycle'[d] = cycle[d]
  BY DEF CreateAlert, Inv, TypeOK
<1>3. /\ Dispatching(c)'
      /\ cycle'[c].key = cycle[c].key
      /\ cycle'[c].left = wanted[cycle[c].key]
      /\ Mine(c)' = new
  BY RunsHaveKeys DEF CreateAlert, Inv, TypeOK, Dispatching, Mine
<1>4. Dispatches'
  BY <1>1, <1>2, <1>3 DEF Inv, Dispatches, Dispatching, Mine
<1>5. OnePerKey'
  BY <1>1 DEF Inv, OnePerKey, HasAlert
<1>6. RowsBelong'
  BY <1>1 DEF Inv, RowsBelong
<1>7. LostOnlyByFault'
  <2> SUFFICES ASSUME NEW a \in alerts', NEW t \in wanted'[a.key]
               PROVE  (\/ \E r \in log : r.alert = a /\ r.to = t
                       \/ \E d \in Cycles : Dispatching(d) /\ Mine(d) = a /\ t \in cycle[d].left
                       \/ a \in cut)'
    BY DEF LostOnlyByFault
  <2>1. CASE a = new
    BY <2>1, <1>1, <1>3
  <2>2. CASE a \in alerts
    <3>1. ~Dispatching(c)
      BY DEF CreateAlert, Dispatching
    <3>2. QED
      BY <2>2, <3>1, <1>1, <1>2 DEF Inv, LostOnlyByFault, Dispatching, Mine
  <2>3. QED
    BY <2>1, <2>2, <1>1
<1>8. QED
  BY <1>4, <1>5, <1>6, <1>7 DEF Inv

LEMMA DispatchKeepsInv ==
  ASSUME Inv, TypeOK', NEW c \in Cycles, NEW t \in Targets, DispatchTo(c, t)
  PROVE  Inv'
<1>1. /\ alerts' = alerts /\ wanted' = wanted /\ cut' = cut
      /\ Dispatching(c) /\ t \in cycle[c].left
  BY DEF DispatchTo
<1>2. \A d \in Cycles \ {c} : cycle'[d] = cycle[d]
  BY DEF DispatchTo, Inv, TypeOK
<1>3. /\ Dispatching(c)' /\ Mine(c)' = Mine(c)
      /\ cycle'[c].key = cycle[c].key
      /\ cycle'[c].left = cycle[c].left \ {t}
  BY RunsHaveKeys DEF DispatchTo, Dispatching, Mine, Inv, TypeOK
<1>4. Dispatches'
  BY <1>1, <1>2, <1>3 DEF Inv, Dispatches, Dispatching, Mine
<1>5. OnePerKey'
  BY <1>1 DEF Inv, OnePerKey
<1>6. Mine(c) \in alerts /\ t \in wanted[Mine(c).key]
  BY <1>1 DEF Inv, Dispatches, Mine
<1>7. RowsBelong'
  BY <1>1, <1>6 DEF Inv, RowsBelong, DispatchTo
<1>8. \E r \in log' : r.alert = Mine(c) /\ r.to = t
  <2> DEFINE row == [alert |-> Mine(c), to |-> t]
  <2>1. CASE Logged(Mine(c), t)
    BY <2>1 DEF DispatchTo, Logged
  <2>2. CASE ~Logged(Mine(c), t)
    <3>1. row \in log'
      BY <2>2 DEF DispatchTo
    <3>2. row.alert = Mine(c) /\ row.to = t
      OBVIOUS
    <3> HIDE DEF row
    <3>3. QED
      BY <3>1, <3>2
  <2>3. QED
    BY <2>1, <2>2
<1>9. log \subseteq log'
  BY DEF DispatchTo
<1>10. LostOnlyByFault'
  <2> SUFFICES ASSUME NEW a \in alerts', NEW u \in wanted'[a.key]
               PROVE  (\/ \E r \in log : r.alert = a /\ r.to = u
                       \/ \E d \in Cycles : Dispatching(d) /\ Mine(d) = a /\ u \in cycle[d].left
                       \/ a \in cut)'
    BY DEF LostOnlyByFault
  <2>1. CASE \E r \in log : r.alert = a /\ r.to = u
    BY <2>1, <1>9
  <2>2. CASE \E d \in Cycles : Dispatching(d) /\ Mine(d) = a /\ u \in cycle[d].left
    <3>1. PICK d \in Cycles : Dispatching(d) /\ Mine(d) = a /\ u \in cycle[d].left
      BY <2>2
    <3>2. CASE d = c
      BY <3>1, <3>2, <1>3, <1>8
    <3>3. CASE d # c
      BY <3>1, <3>3, <1>2 DEF Dispatching, Mine
    <3>4. QED
      BY <3>2, <3>3
  <2>3. QED
    BY <2>1, <2>2, <1>1 DEF Inv, LostOnlyByFault
<1>11. QED
  BY <1>4, <1>5, <1>7, <1>10 DEF Inv

LEMMA FaultKeepsInv ==
  ASSUME Inv, TypeOK', NEW c \in Cycles, Fault(c)
  PROVE  Inv'
<1>1. /\ alerts' = alerts /\ wanted' = wanted /\ log' = log
      /\ cut \subseteq cut'
      /\ Dispatching(c) => Mine(c) \in cut'
  BY DEF Fault
<1>2. /\ ~Dispatching(c)'
      /\ \A d \in Cycles \ {c} : cycle'[d] = cycle[d]
  BY DEF Fault, Inv, TypeOK, Dispatching, Idle
<1>3. Dispatches'
  BY <1>1, <1>2 DEF Inv, Dispatches, Dispatching, Mine
<1>4. OnePerKey' /\ RowsBelong'
  BY <1>1 DEF Inv, OnePerKey, RowsBelong
<1>5. LostOnlyByFault'
  BY <1>1, <1>2 DEF Inv, LostOnlyByFault, Dispatching, Mine
<1>6. QED
  BY <1>3, <1>4, <1>5 DEF Inv

LEMMA InvStep == Inv /\ [Next]_vars => Inv'
<1> SUFFICES ASSUME Inv, [Next]_vars PROVE Inv'
  OBVIOUS
<1>1. TypeOK'
  BY TypeStep DEF Inv
<1>2. ASSUME NEW c \in Cycles, StartCycle(c) PROVE Inv'
  <2> DEFINE run == [phase |-> "looking", kind |-> "peril",
                     todo |-> [event : Events, kind : {"peril"}]]
  <2>1. run.phase # "dispatching" /\ ~Dispatching(c) /\ MovesOnly(c, run)
    BY <1>2 DEF StartCycle, MovesOnly, Dispatching, Idle
  <2> HIDE DEF run
  <2>2. QED
    BY <2>1, <1>1, MoveKeepsInv
<1>3. ASSUME NEW c \in Cycles, EndCycle(c) \/ CreateRefused(c) PROVE Inv'
  <2>1. Idle.phase # "dispatching" /\ ~Dispatching(c) /\ MovesOnly(c, Idle)
    BY <1>3 DEF EndCycle, CreateRefused, MovesOnly, Dispatching, Idle
  <2>2. QED
    BY <2>1, <1>1, MoveKeepsInv
<1>4. ASSUME NEW c \in Cycles, NEW high \in SUBSET Events, LoadHighRisk(c, high)
      PROVE Inv'
  <2> DEFINE run == [phase |-> "looking", kind |-> "risk_score",
                     todo |-> [event : high, kind : {"risk_score"}]]
  <2>1. run.phase # "dispatching" /\ ~Dispatching(c) /\ MovesOnly(c, run)
    BY <1>4 DEF LoadHighRisk, MovesOnly, Dispatching
  <2> HIDE DEF run
  <2>2. QED
    BY <2>1, <1>1, MoveKeepsInv
<1>5. ASSUME NEW c \in Cycles, NEW k \in Keys, PassOver(c, k) PROVE Inv'
  <2> DEFINE run == [cycle[c] EXCEPT !.todo = @ \ {k}]
  <2>1. run.phase = "looking"
    BY <1>5, LookersHaveLists DEF PassOver, Looking, Inv
  <2>2. MovesOnly(c, run) /\ ~Dispatching(c)
    BY <1>5 DEF PassOver, Looking, MovesOnly, Dispatching
  <2> HIDE DEF run
  <2>3. QED
    BY <2>1, <2>2, <1>1, MoveKeepsInv
<1>6. ASSUME NEW c \in Cycles, NEW k \in Keys, Decide(c, k) PROVE Inv'
  <2> DEFINE run == [phase |-> "creating", kind |-> cycle[c].kind,
                     todo |-> cycle[c].todo \ {k}, key |-> k, left |-> {}]
  <2>1. run.phase # "dispatching" /\ ~Dispatching(c) /\ MovesOnly(c, run)
    BY <1>6 DEF Decide, Looking, MovesOnly, Dispatching
  <2> HIDE DEF run
  <2>2. QED
    BY <2>1, <1>1, MoveKeepsInv
<1>7. ASSUME NEW c \in Cycles, CreateAlert(c) PROVE Inv'
  BY <1>1, <1>7, CreateKeepsInv
<1>8. ASSUME NEW c \in Cycles, NEW t \in Targets, DispatchTo(c, t) PROVE Inv'
  BY <1>1, <1>8, DispatchKeepsInv
<1>9. ASSUME NEW c \in Cycles, EndDispatch(c) PROVE Inv'
  <2> DEFINE run == [phase |-> "looking", kind |-> cycle[c].kind, todo |-> cycle[c].todo]
  <2>1. run.phase # "dispatching" /\ cycle[c].left = {} /\ MovesOnly(c, run)
    BY <1>9 DEF EndDispatch, MovesOnly
  <2> HIDE DEF run
  <2>2. QED
    BY <2>1, <1>1, MoveKeepsInv
<1>10. ASSUME NEW c \in Cycles, Fault(c) PROVE Inv'
  BY <1>1, <1>10, FaultKeepsInv
<1>11. CASE UNCHANGED vars
  BY <1>11, <1>1 DEF Inv, vars, Dispatches, OnePerKey, RowsBelong, LostOnlyByFault,
     Dispatching, Mine
<1>12. QED
  BY <1>2, <1>3, <1>4, <1>5, <1>6, <1>7, <1>8, <1>9, <1>10, <1>11 DEF Next, Evaluate

---------------------------------------------------------------------------
(* The theorems. *)

LEMMA InvAlways == Spec => []Inv
<1>1. QED
  BY InvInit, InvStep, PTL DEF Spec

\* Every reachable state of evaluation and dispatch is well typed.
THEOREM TypeCorrect == Spec => []TypeOK
<1>1. Inv => TypeOK
  BY DEF Inv
<1>2. QED
  BY <1>1, InvAlways, PTL

\* Whatever the cycles that race for an alert, each target has at most one row
\* for an event and kind of alert, and only if the alert concerns it.
THEOREM TellsOnce == Spec => []ToldOnce
<1>1. Inv => ToldOnce
  BY DEF Inv, ToldOnce, OnePerKey, RowsBelong, TypeOK, Rows
<1>2. QED
  BY <1>1, InvAlways, PTL

\* Whoever an alert concerns has a row, will get one from the cycle that
\* dispatches it, or lost it to a fault in the midst of the dispatch.
THEOREM LosesOnlyByFault == Spec => []LostOnlyByFault
<1>1. Inv => LostOnlyByFault
  BY DEF Inv
<1>2. QED
  BY <1>1, InvAlways, PTL

=============================================================================
