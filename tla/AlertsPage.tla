------------------------------ MODULE AlertsPage ------------------------------
(***************************************************************************)
(* The page of the alerts: a list that is read, read again every interval, *)
(* and acknowledged one by one or all at once.  An acknowledgement is      *)
(* shown at once and taken back when the API refuses it; any number of     *)
(* them and of reads overlap.  The filters are left out: they only take    *)
(* rows, and with them buttons, off the page.                              *)
(***************************************************************************)
EXTENDS Integers, FiniteSets

CONSTANTS
  Alerts,
  MaxWork   \* bound of the model: reads, acknowledgements and cards begun

PageAssumption == IsFiniteSet(Alerts) /\ MaxWork \in Nat

VARIABLES
  acknowledged,    \* server: the alerts that are acknowledged
  rows,            \* the alerts of the list: is it shown as acknowledged?
  unacknowledged,  \* the counter above the list
  loading,
  refreshing,
  error,           \* a message of failure is shown
  acknowledgingId, \* the alert whose button is disabled, or Nobody
  actionCards,     \* the alerts whose card is open
  loadingCardId,   \* the alert whose card is being read, or Nobody
  loads,           \* the reads of the list on their way
  acks,            \* the acknowledgements on their way
  cardReads,       \* the reads of cards on their way
  work

alertsVars == <<acknowledged, rows, unacknowledged, loading, refreshing, error,
                acknowledgingId, actionCards, loadingCardId, loads, acks, cardReads, work>>
cardVars == <<actionCards, loadingCardId, cardReads>>

Nobody == "none"
NotRead == [rows |-> <<>>, count |-> 0]
PendingIn(list) == {a \in DOMAIN list : ~list[a]}

(* What the API answers: the counter is a statement of its own, and 0 when   *)
(* that fails.                                                               *)
Served(answer) ==
  /\ answer.rows = [a \in Alerts |-> a \in acknowledged]
  /\ answer.count \in {0, Cardinality(Alerts \ acknowledged)}
Answers ==
  {answer \in [rows : [Alerts -> BOOLEAN], count : 0..Cardinality(Alerts)] : Served(answer)}

Begin == work < MaxWork /\ work' = work + 1

Init ==
  /\ acknowledged \in SUBSET Alerts
  /\ rows = <<>> /\ unacknowledged = 0 /\ loading = TRUE /\ refreshing = FALSE
  /\ error = FALSE /\ acknowledgingId = Nobody /\ work = 0
  /\ actionCards = {} /\ loadingCardId = Nobody /\ cardReads = {} /\ acks = {}
  /\ loads = {[n |-> 0, mode |-> "initial", answer |-> NotRead]}

(* Another user of the API.                                                  *)
OtherAcknowledges(a) ==
  /\ a \notin acknowledged /\ acknowledged' = acknowledged \cup {a}
  /\ UNCHANGED <<rows, unacknowledged, loading, refreshing, error, acknowledgingId, cardVars, loads, acks, work>>

---------------------------------------------------------------------------
(* Reads of the list: by the interval, by a tab that comes back, and by the  *)
(* button, which alone waits for the one before.  The last answer stands.    *)

Refresh ==
  /\ Begin
  /\ loads' = loads \cup {[n |-> work', mode |-> "refresh", answer |-> NotRead]}
  /\ refreshing' = TRUE /\ error' = FALSE
  /\ UNCHANGED <<acknowledged, rows, unacknowledged, loading, acknowledgingId, cardVars, acks>>

ServerLists(l) ==
  /\ l.answer = NotRead
  /\ \E answer \in Answers : loads' = (loads \ {l}) \cup {[l EXCEPT !.answer = answer]}
  /\ UNCHANGED <<acknowledged, rows, unacknowledged, loading, refreshing, error, acknowledgingId, cardVars, acks, work>>

LoadEnds(l) ==
  /\ loads' = loads \ {l}
  /\ IF l.answer # NotRead
       THEN rows' = l.answer.rows /\ unacknowledged' = l.answer.count /\ UNCHANGED error
       ELSE error' = TRUE /\ UNCHANGED <<rows, unacknowledged>>
  /\ loading' = (loading /\ l.mode # "initial")
  /\ refreshing' = (refreshing /\ l.mode # "refresh")
  /\ UNCHANGED <<acknowledged, acknowledgingId, cardVars, acks, work>>

---------------------------------------------------------------------------
(* Acknowledgements: each keeps the list it found, to take itself back.      *)

Acknowledging(ids, all) ==
  [n |-> work', ids |-> ids, all |-> all, waiting |-> ids, previous |-> rows,
   stage |-> "asked", answer |-> NotRead]

AckOffered(a) == ~loading /\ a \in PendingIn(rows) /\ acknowledgingId # a
HandleAcknowledge(a) ==
  /\ AckOffered(a) /\ Begin
  /\ acks' = acks \cup {Acknowledging({a}, FALSE)}
  /\ acknowledgingId' = a
  /\ rows' = [rows EXCEPT ![a] = TRUE]
  /\ unacknowledged' = IF unacknowledged > 0 THEN unacknowledged - 1 ELSE 0
  /\ UNCHANGED <<acknowledged, loading, refreshing, error, cardVars, loads>>

AllOffered == unacknowledged > 0
HandleAcknowledgeAll ==
  /\ AllOffered /\ PendingIn(rows) # {} /\ Begin
  /\ acks' = acks \cup {Acknowledging(PendingIn(rows), TRUE)}
  /\ rows' = [a \in DOMAIN rows |-> TRUE]
  /\ unacknowledged' = 0
  /\ UNCHANGED <<acknowledged, loading, refreshing, error, acknowledgingId, cardVars, loads>>

ServerAcknowledges(k, a) ==
  /\ k.stage = "asked" /\ a \in k.waiting
  /\ acknowledged' = acknowledged \cup {a}
  /\ acks' = (acks \ {k}) \cup {[k EXCEPT !.waiting = @ \ {a}]}
  /\ UNCHANGED <<rows, unacknowledged, loading, refreshing, error, acknowledgingId, cardVars, loads, work>>

(* Of many requests, each must have been answered.                           *)
Freed(k) == IF k.all THEN acknowledgingId ELSE Nobody
AckEnds(k) ==
  /\ k.stage = "asked" /\ k.waiting = {}
  /\ acks' = acks \ {k} /\ acknowledgingId' = Freed(k)
  /\ UNCHANGED <<acknowledged, rows, unacknowledged, loading, refreshing, error, cardVars, loads, work>>

(* One request is refused, or its answer lost: the list is as it was found,  *)
(* and read again.                                                           *)
AckFails(k) ==
  /\ k.stage = "asked"
  /\ rows' = k.previous
  /\ acks' = (acks \ {k}) \cup {[k EXCEPT !.stage = "reading"]}
  /\ UNCHANGED <<acknowledged, unacknowledged, loading, refreshing, error, acknowledgingId, cardVars, loads, work>>

ServerRelists(k) ==
  /\ k.stage = "reading" /\ k.answer = NotRead
  /\ \E answer \in Answers : acks' = (acks \ {k}) \cup {[k EXCEPT !.answer = answer]}
  /\ UNCHANGED <<acknowledged, rows, unacknowledged, loading, refreshing, error, acknowledgingId, cardVars, loads, work>>

\* Mutant: the failure is reported only if the list could be read again.
SaysIfRead(k) == error \/ k.answer # NotRead

SaysReverted(k) == TRUE

Reverted(k) ==
  /\ k.stage = "reading"
  /\ IF k.answer # NotRead
       THEN rows' = k.answer.rows /\ unacknowledged' = k.answer.count
       ELSE UNCHANGED <<rows, unacknowledged>>
  /\ error' = SaysReverted(k)
  /\ acks' = acks \ {k} /\ acknowledgingId' = Freed(k)
  /\ UNCHANGED <<acknowledged, loading, refreshing, cardVars, loads, work>>

---------------------------------------------------------------------------
(* The card of what to do: one press reads and opens it, another closes it.  *)

ToggleActionCard(a) ==
  /\ ~loading /\ a \in DOMAIN rows
  /\ IF a \in actionCards
       THEN actionCards' = actionCards \ {a} /\ UNCHANGED <<loadingCardId, cardReads, work>>
       ELSE /\ Begin /\ cardReads' = cardReads \cup {[n |-> work', alert |-> a]}
            /\ loadingCardId' = a /\ UNCHANGED actionCards
  /\ UNCHANGED <<acknowledged, rows, unacknowledged, loading, refreshing, error, acknowledgingId, loads, acks>>

CardAnswered(c, ok) ==
  /\ cardReads' = cardReads \ {c} /\ loadingCardId' = Nobody
  /\ actionCards' = IF ok THEN actionCards \cup {c.alert} ELSE actionCards
  /\ error' = (error \/ ~ok)
  /\ UNCHANGED <<acknowledged, rows, unacknowledged, loading, refreshing, acknowledgingId, loads, acks, work>>

Next ==
  \/ Refresh \/ HandleAcknowledgeAll
  \/ \E a \in Alerts : OtherAcknowledges(a) \/ HandleAcknowledge(a) \/ ToggleActionCard(a)
  \/ \E l \in loads : ServerLists(l) \/ LoadEnds(l)
  \/ \E k \in acks : \/ AckEnds(k) \/ AckFails(k) \/ ServerRelists(k) \/ Reverted(k)
                     \/ \E a \in k.waiting : ServerAcknowledges(k, a)
  \/ \E c \in cardReads, ok \in BOOLEAN : CardAnswered(c, ok)

Spec == Init /\ [][Next]_alertsVars

(* ---- Properties ---- *)

(* Type of the state. *)
TypeOK ==
  /\ acknowledged \subseteq Alerts /\ rows \in [Alerts -> BOOLEAN] \cup {<<>>}
  /\ unacknowledged \in 0..Cardinality(Alerts)
  /\ acknowledgingId \in Alerts \cup {Nobody} /\ loadingCardId \in Alerts \cup {Nobody}
  /\ actionCards \subseteq Alerts /\ error \in BOOLEAN /\ work \in 0..MaxWork

(* An alert that is shown as acknowledged and is not has its request on its  *)
(* way, or the list is being read again, or a failure is shown: two          *)
(* acknowledgements that fail one after the other put the optimism of the    *)
(* first back into the list, and only the message tells.                     *)
AcknowledgedOrSaid ==
  \A a \in DOMAIN rows : rows[a] /\ a \notin acknowledged =>
    \/ \E k \in acks : k.stage = "asked" /\ a \in k.waiting
    \/ error \/ loads # {} \/ \E k \in acks : k.stage = "reading"

(* A button that waits, and "refreshing", wait for a request of their own:   *)
(* the end of an older one frees them early, never late.                     *)
WaitsForItsOwn ==
  /\ acknowledgingId # Nobody => \E k \in acks : k.ids = {acknowledgingId}
  /\ loadingCardId # Nobody => \E c \in cardReads : c.alert = loadingCardId
  /\ refreshing => \E l \in loads : l.mode = "refresh"
  /\ loading => \E l \in loads : l.mode = "initial"
=============================================================================
