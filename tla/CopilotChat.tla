----------------------------- MODULE CopilotChat -----------------------------
(***************************************************************************)
(* The page of the analyst copilot, the request behind each question and   *)
(* the tools of the agent that answers it.  The answer of a question       *)
(* arrives in chunks that are appended to whatever message is the last;    *)
(* nothing but the order of starting, stopping and ending keeps chunks of  *)
(* one question out of the message of another.                             *)
(***************************************************************************)
EXTENDS Naturals, Sequences

CONSTANTS
  MaxQuestions, \* bound of the model: questions asked
  MaxVisits     \* bound of the model: times the page is opened again

VARIABLES
  messages, \* the chat: role, question, and whose chunks the content holds
  loading,
  abortRef, \* the question whose request can be stopped; 0 is none
  requests, \* by question: [phase, facts]
  visits

chatVars == <<messages, loading, abortRef, requests, visits>>

Questions == 1..MaxQuestions
Message(role, q) == [role |-> role, of |-> q, chunks |-> {}, failed |-> FALSE]

Init ==
  /\ messages = <<>> /\ loading = FALSE /\ abortRef = 0
  /\ requests = <<>> /\ visits = 0

Last == messages[Len(messages)]
LastIsAnswer == messages # <<>> /\ Last.role = "assistant"
WithLast(m) == [messages EXCEPT ![Len(messages)] = m]

(* handleSend: question and empty answer are shown before the request is.    *)
HandleSend ==
  /\ ~loading /\ Len(requests) < MaxQuestions
  /\ LET q == Len(requests) + 1
         older == [r \in DOMAIN requests |->
                     IF r = abortRef THEN [requests[r] EXCEPT !.phase = "ended"] ELSE requests[r]]
     IN /\ messages' = messages \o <<Message("user", q), Message("assistant", q)>>
        /\ requests' = Append(older, [phase |-> "open", facts |-> {}])
        /\ abortRef' = q
  /\ loading' = TRUE
  /\ UNCHANGED visits

---------------------------------------------------------------------------
(* The agent.  Its tool reads the dashboard, with two optional parts; one    *)
(* read that fails is an error of the whole tool.  The exposure of single    *)
(* events never fails, but is zero when it cannot be had.                    *)
Always == {"events", "alerts", "riskScores", "briefing", "accumulations"}
DashboardContext(includeNews, includeHealth, failed) ==
  LET wanted == Always \cup (IF includeNews THEN {"news"} ELSE {})
                       \cup (IF includeHealth THEN {"connectorHealth"} ELSE {})
  IN IF failed \cap (wanted \ {"accumulations"}) = {} THEN wanted ELSE {}

Open(q) == q \in DOMAIN requests /\ requests[q].phase = "open"

CallTool(q, includeNews, includeHealth, failed) ==
  /\ Open(q)
  /\ requests' = [requests EXCEPT ![q].facts =
                    @ \cup DashboardContext(includeNews, includeHealth, failed)]
  /\ UNCHANGED <<messages, loading, abortRef, visits>>

GetAccumulation(q, ok) ==
  /\ Open(q)
  /\ requests' = [requests EXCEPT ![q].facts = @ \cup (IF ok THEN {"accumulation"} ELSE {})]
  /\ UNCHANGED <<messages, loading, abortRef, visits>>

---------------------------------------------------------------------------
(* The stream. *)

OnChunk(q) ==
  /\ Open(q)
  /\ messages' = IF LastIsAnswer THEN WithLast([Last EXCEPT !.chunks = @ \cup {q}]) ELSE messages
  /\ UNCHANGED <<loading, abortRef, requests, visits>>

(* The answer is not 200: its body is still to be read. *)
Refused(q) ==
  /\ Open(q)
  /\ requests' = [requests EXCEPT ![q].phase = "refused"]
  /\ UNCHANGED <<messages, loading, abortRef, visits>>

Ended(q) == [requests EXCEPT ![q].phase = "ended"]
Failed(q) ==
  IF LastIsAnswer THEN WithLast([Last EXCEPT !.chunks = {}, !.failed = TRUE])
  ELSE Append(messages, [Message("assistant", q) EXCEPT !.failed = TRUE])

OnComplete(q) ==
  /\ Open(q)
  /\ requests' = Ended(q) /\ loading' = FALSE /\ abortRef' = 0
  /\ UNCHANGED <<messages, visits>>

(* The refusal is known, or the connection is cut. *)
OnError(q) ==
  /\ q \in DOMAIN requests /\ requests[q].phase \in {"open", "refused"}
  /\ requests' = Ended(q)
  /\ messages' = Failed(q)
  /\ loading' = FALSE /\ abortRef' = 0
  /\ UNCHANGED visits

---------------------------------------------------------------------------
(* handleStop: the request is aborted.  The error that this makes is         *)
(* ignored, unless the body of a refusal was being read: then its error is   *)
(* reported at once.                                                         *)
HandleStop ==
  /\ loading
  /\ loading' = FALSE /\ abortRef' = 0
  /\ IF abortRef = 0 THEN UNCHANGED <<messages, requests>>
     ELSE /\ requests' = Ended(abortRef)
          /\ messages' = IF requests[abortRef].phase = "refused" THEN Failed(abortRef) ELSE messages
  /\ UNCHANGED visits

(* handleClear: the request goes on. *)
HandleClear ==
  /\ messages # <<>> /\ messages' = <<>>
  /\ UNCHANGED <<loading, abortRef, requests, visits>>

(* Another page, or signed out: the request goes on for nobody. *)
Reopen ==
  /\ visits < MaxVisits /\ visits' = visits + 1
  /\ messages' = <<>> /\ loading' = FALSE /\ abortRef' = 0
  /\ requests' = [q \in DOMAIN requests |-> [requests[q] EXCEPT
                    !.phase = IF @ = "ended" THEN "ended" ELSE "unheard"]]

Next ==
  \/ HandleSend \/ HandleStop \/ HandleClear \/ Reopen
  \/ \E q \in Questions :
       \/ OnChunk(q) \/ Refused(q) \/ OnComplete(q) \/ OnError(q)
       \/ \E ok \in BOOLEAN : GetAccumulation(q, ok)
       \/ \E news, health \in BOOLEAN, failed \in SUBSET {"alerts", "news"} :
            CallTool(q, news, health, failed)

Spec == Init /\ [][Next]_chatVars

(* ---- Properties ---- *)

(* Type of the state. *)
TypeOK ==
  /\ loading \in BOOLEAN /\ abortRef \in 0..MaxQuestions /\ visits \in 0..MaxVisits
  /\ \A q \in DOMAIN requests : requests[q].phase \in {"open", "refused", "ended", "unheard"}
  /\ \A k \in DOMAIN messages :
       messages[k].role \in {"user", "assistant"} /\ messages[k].chunks \subseteq Questions

(* A message of the assistant stands under its question and holds chunks of  *)
(* the answer to that question only, however questions are asked, stopped,   *)
(* cleared and refused.  (After a clear an error may stand alone.)           *)
AnswersStandUnderTheirQuestion ==
  \A k \in DOMAIN messages :
    messages[k].role = "assistant" =>
      /\ messages[k].chunks \subseteq {messages[k].of}
      /\ k > 1 => messages[k - 1] = Message("user", messages[k].of)

(* The page is busy exactly as long as a request of its own is open: a stop, *)
(* an error or an end of an older one never frees it, and none leaves it     *)
(* busy for ever.                                                            *)
BusyIsOpen ==
  /\ loading <=> abortRef # 0
  /\ loading => requests[abortRef].phase \in {"open", "refused"}
=============================================================================
