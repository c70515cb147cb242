---------------------------- MODULE WarningFeed ----------------------------
(***************************************************************************)
(* What the delivery of official alerts promises a recipient, without      *)
(* queue, workers, leases or retries: the revisions of an alert only move  *)
(* forward, and whatever reaches a recipient is the revision that is       *)
(* current, while the source is open.                                      *)
(***************************************************************************)
EXTENDS Naturals

CONSTANTS Targets, MaxRevision

VARIABLES
  open,      \* the source is enabled and active
  revision,  \* the current revision, 0 before the first
  latest     \* the newest revision each target has received

feed == <<open, revision, latest>>

Init ==
  /\ open \in BOOLEAN
  /\ revision = 0
  /\ latest = [t \in Targets |-> 0]

\* The source publishes a revision.
Announce ==
  /\ open
  /\ revision < MaxRevision
  /\ revision' = revision + 1
  /\ UNCHANGED <<open, latest>>

\* The source is contained or resumed.
Switch ==
  /\ open' = ~open
  /\ UNCHANGED <<revision, latest>>

\* A target hears of the current revision.
Deliver(t) ==
  /\ open
  /\ revision > 0
  /\ latest' = [latest EXCEPT ![t] = revision]
  /\ UNCHANGED <<open, revision>>

Next == Announce \/ Switch \/ \E t \in Targets : Deliver(t)

Spec == Init /\ [][Next]_feed

=============================================================================
