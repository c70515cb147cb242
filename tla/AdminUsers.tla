------------------------------ MODULE AdminUsers ------------------------------
(***************************************************************************)
(* The administrator's page of the users: a list that is loaded for the    *)
(* session and for what is typed, after a pause; blocking, deleting after  *)
(* a question, and links to sign in.  The buttons of the rows are disabled  *)
(* while the page is busy, the one that confirms a deletion only during    *)
(* that deletion: two calls overlap when one is confirmed over another.    *)
(***************************************************************************)
EXTENDS Naturals, Sequences

CONSTANTS
  Users,
  MaxLoads,  \* bound of the model: loads begun
  MaxCalls   \* bound of the model: calls begun

VARIABLES
  accounts,       \* server: "active" or "banned" by user; deleted users are absent
  rows,           \* users: what the table shows, in the same form
  query,          \* what is typed: everybody ("") or the one user it matches
  pause,          \* the timer of the search runs
  initialLoading,
  loads,          \* by number: [query, stage, rows]
  busy,           \* a [what, user] or Idle
  open,           \* the calls on their way: [n, what, user, stage, known]
  confirmDelete,  \* the user in the question, or Nobody
  notice,         \* the user it is about, or Nobody
  generatedLink,  \* the user the link is for, or Nobody
  error,
  calls,
  overlapped      \* history: a deletion was confirmed while the page was busy

usersVars == <<accounts, rows, query, pause, initialLoading, loads, busy, open,
               confirmDelete, notice, generatedLink, error, calls, overlapped>>
listVars == <<rows, query, pause, initialLoading, loads>>
panelVars == <<confirmDelete, notice, generatedLink, error>>
callVars == <<busy, open, calls, overlapped>>

Nobody == "nobody"
Everybody == "everybody"
Idle == [what |-> "none", user |-> Nobody]

Matches(q) == IF q = Everybody THEN DOMAIN accounts ELSE DOMAIN accounts \cap {q}
Found(q) == [u \in Matches(q) |-> accounts[u]]

Load(q) ==
  /\ Len(loads) < MaxLoads
  /\ loads' = Append(loads, [query |-> q, stage |-> "asked", rows |-> <<>>])
  /\ initialLoading' = TRUE
  /\ error' = FALSE

(* A session is there, the whole list is asked for.                          *)
Init ==
  /\ accounts \in [Users -> {"active", "banned"}]
  /\ rows = <<>> /\ query = Everybody /\ pause = FALSE /\ initialLoading = TRUE
  /\ loads = <<[query |-> Everybody, stage |-> "asked", rows |-> <<>>]>>
  /\ busy = Idle /\ open = {} /\ confirmDelete = Nobody /\ notice = Nobody
  /\ generatedLink = Nobody /\ error = FALSE /\ calls = 0 /\ overlapped = FALSE

---------------------------------------------------------------------------
(* The list. *)

(* A token is renewed: the effect on the session asks for the whole list     *)
(* again, whatever is typed.                                                 *)
SessionChanges ==
  /\ Load(Everybody)
  /\ UNCHANGED <<accounts, rows, query, pause, confirmDelete, notice, generatedLink, callVars>>

(* The effect on the query: an empty one loads at once, unless a load is     *)
(* under way; another one after a pause that each key begins again.          *)
TypeQuery(q) ==
  /\ query # q /\ query' = q /\ pause' = (q # Everybody)
  /\ IF q = Everybody /\ ~initialLoading THEN Load(q) ELSE UNCHANGED <<loads, initialLoading, error>>
  /\ UNCHANGED <<accounts, rows, confirmDelete, notice, generatedLink, callVars>>

PauseEnds ==
  /\ pause /\ pause' = FALSE /\ Load(query)
  /\ UNCHANGED <<accounts, rows, query, confirmDelete, notice, generatedLink, callVars>>

ServerLists(l) ==
  /\ l \in DOMAIN loads /\ loads[l].stage = "asked"
  /\ loads' = [loads EXCEPT ![l].stage = "answered", ![l].rows = Found(loads[l].query)]
  /\ UNCHANGED <<accounts, rows, query, pause, initialLoading, panelVars, callVars>>

(* Whichever answer comes last is the list.                                  *)
LoadEnds(l, ok) ==
  /\ l \in DOMAIN loads /\ loads[l].stage = (IF ok THEN "answered" ELSE "asked")
  /\ loads' = [loads EXCEPT ![l] = [query |-> Everybody, stage |-> "done", rows |-> <<>>]]
  /\ rows' = IF ok THEN loads[l].rows ELSE rows
  /\ error' = (error \/ ~ok)
  /\ initialLoading' = FALSE
  /\ UNCHANGED <<accounts, query, pause, confirmDelete, notice, generatedLink, callVars>>

---------------------------------------------------------------------------
(* The operations on a user, offered in the rows while nothing is busy and   *)
(* the list is not loading, under the question of a deletion as well: the    *)
(* dialog takes the page from the mouse, the keyboard reaches the rows.      *)

Offered(u) == u \in DOMAIN rows /\ ~initialLoading

\* Mutant: only a deletion disables the buttons of the rows.
NothingIsDeleted == busy.what # "delete"

RowIsFree == busy = Idle

Begin(what, u, known) ==
  /\ calls < MaxCalls /\ calls' = calls + 1
  /\ busy' = [what |-> what, user |-> u]
  /\ open' = open \cup {[n |-> calls', what |-> what, user |-> u, stage |-> "asked", known |-> known]}
  /\ UNCHANGED <<accounts, listVars>>

HandleBanToggle(u) ==
  /\ Offered(u) /\ RowIsFree /\ Begin("ban", u, rows[u])
  /\ notice' = Nobody /\ UNCHANGED <<confirmDelete, generatedLink, error, overlapped>>

HandleResend(u) ==
  /\ Offered(u) /\ RowIsFree /\ Begin("resend", u, rows[u])
  /\ notice' = Nobody /\ error' = FALSE /\ UNCHANGED <<confirmDelete, generatedLink, overlapped>>

AskDelete(u) ==
  /\ Offered(u) /\ RowIsFree /\ confirmDelete' = u
  /\ UNCHANGED <<accounts, listVars, notice, generatedLink, error, callVars>>

CancelDelete ==
  /\ confirmDelete # Nobody /\ confirmDelete' = Nobody
  /\ UNCHANGED <<accounts, listVars, notice, generatedLink, error, callVars>>

(* Only the deletion of the same user disables the button, so that it can be *)
(* pressed over a call that the keyboard began under the question.           *)
HandleDelete ==
  /\ confirmDelete # Nobody /\ busy # [what |-> "delete", user |-> confirmDelete]
  /\ Begin("delete", confirmDelete, "active")
  /\ overlapped' = (overlapped \/ busy # Idle)
  /\ error' = FALSE /\ UNCHANGED <<confirmDelete, notice, generatedLink>>

(* The link is copied, and the page says so.                                 *)
CopyLink ==
  /\ generatedLink # Nobody /\ notice # Nobody /\ ~error /\ notice' = generatedLink
  /\ UNCHANGED <<accounts, listVars, confirmDelete, generatedLink, error, callVars>>

(* The server does it: a block that is known is lifted, and the reverse.     *)
Toggled(status) == IF status = "active" THEN "banned" ELSE "active"
Serve(c) ==
  /\ c.stage = "asked" /\ c.user \in DOMAIN accounts
  /\ accounts' = CASE c.what = "ban" -> [accounts EXCEPT ![c.user] = Toggled(c.known)]
                   [] c.what = "delete" -> [u \in DOMAIN accounts \ {c.user} |-> accounts[u]]
                   [] OTHER -> accounts
  /\ open' = (open \ {c}) \cup {[c EXCEPT !.stage = "done"]}
  /\ UNCHANGED <<listVars, busy, panelVars, calls, overlapped>>

(* The answer: the row, the notice, the open question closed by a deletion,  *)
(* and the page free, whichever call made it busy.                           *)
Settled(c) ==
  CASE c.what = "ban" /\ c.user \in DOMAIN rows -> [rows EXCEPT ![c.user] = Toggled(c.known)]
    [] c.what = "delete" -> [u \in DOMAIN rows \ {c.user} |-> rows[u]]
    [] OTHER -> rows
Answer(c) ==
  /\ c.stage = "done"
  /\ rows' = Settled(c)
  /\ notice' = c.user
  /\ confirmDelete' = IF c.what = "delete" THEN Nobody ELSE confirmDelete
  /\ generatedLink' = IF c.what = "resend" THEN c.user ELSE generatedLink
  /\ busy' = Idle /\ open' = open \ {c}
  /\ UNCHANGED <<accounts, query, pause, initialLoading, loads, error, calls, overlapped>>

(* Refused, or the answer is lost after the server has done it.              *)
CallFails(c) ==
  /\ busy' = Idle /\ open' = open \ {c} /\ error' = TRUE
  /\ UNCHANGED <<accounts, listVars, confirmDelete, notice, generatedLink, calls, overlapped>>

Next ==
  \/ SessionChanges \/ PauseEnds \/ CancelDelete \/ HandleDelete \/ CopyLink
  \/ \E c \in open : Serve(c) \/ Answer(c) \/ CallFails(c)
  \/ \E q \in Users \cup {Everybody} : TypeQuery(q)
  \/ \E l \in 1..MaxLoads : ServerLists(l) \/ \E ok \in BOOLEAN : LoadEnds(l, ok)
  \/ \E u \in Users : HandleBanToggle(u) \/ HandleResend(u) \/ AskDelete(u)

Spec == Init /\ [][Next]_usersVars

(* ---- Properties ---- *)

(* Type of the state. *)
TypeOK ==
  /\ DOMAIN accounts \subseteq Users /\ DOMAIN rows \subseteq Users
  /\ query \in Users \cup {Everybody} /\ pause \in BOOLEAN
  /\ confirmDelete \in Users \cup {Nobody} /\ generatedLink \in Users \cup {Nobody}
  /\ calls \in 0..MaxCalls

(* What the page says that it is busy with is a call on its way, whatever    *)
(* overlaps.  Until a deletion is confirmed over another call it is the only *)
(* one, no row can begin a second under it, and a deletion that is answered  *)
(* closes its own question: only the button of the question, which the page  *)
(* leaves enabled, has an answer free the page for the call of another.      *)
BusyIsThisCall ==
  /\ busy # Idle => \E c \in open : busy = [what |-> c.what, user |-> c.user]
  /\ ~overlapped =>
       /\ \A c, d \in open : c = d
       /\ busy = Idle => open = {}
       /\ \A c \in open : c.what = "delete" => confirmDelete \in {Nobody, c.user}
=============================================================================
