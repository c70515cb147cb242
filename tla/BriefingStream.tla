--------------------------- MODULE BriefingStream ---------------------------
(***************************************************************************)
(* The page of the daily briefing, its AI section, the event stream of the *)
(* API behind it and the workflow of the Mastra service behind that.       *)
(*                                                                         *)
(* A stream is a request of the page: the API answers from its cache, or   *)
(* runs the workflow (gather the context, let the agent write), or falls   *)
(* back to a text made from the database.  Every part of the answer is an  *)
(* event that the page applies when it comes; the page follows one stream  *)
(* at a time, and closes it when another is started or the account leaves. *)
(***************************************************************************)
EXTENDS Naturals, Sequences

CONSTANTS
  MaxStreams, \* bound of the model: streams asked for
  MaxSwitches \* bound of the model: sign-ins and sign-outs

VARIABLES
  signed,     \* there is a session
  switches,
  page,       \* [briefing, error, loading, refreshing] of the daily briefing
  pending,    \* loads of the daily briefing on their way, by mode
  ai,         \* [loading, error] of the AI section
  live,       \* aiLiveContent: which stream wrote it, and how
  aiBriefing, \* the same of the final text
  active,     \* activeAiStreamRef
  streams,    \* the streams: [phase, context, closed]
  cached      \* the row of ai_executive_briefing_cache is fresh

accountVars == <<signed, switches>>
pageVars == <<page, pending>>
aiVars == <<ai, live, aiBriefing, active>>
serverVars == <<streams, cached>>
briefingVars == <<accountVars, pageVars, aiVars, serverVars>>

Ids == 1..MaxStreams
NoText == [of |-> 0, mode |-> "none"]
NewPage == [briefing |-> FALSE, error |-> FALSE, loading |-> TRUE, refreshing |-> FALSE]
NewLoads == [initial |-> 1, refresh |-> 0]

Init ==
  /\ signed = FALSE /\ switches = 0
  /\ page = NewPage /\ pending = NewLoads
  /\ ai = [loading |-> FALSE, error |-> FALSE]
  /\ live = NoText /\ aiBriefing = NoText /\ active = 0
  /\ streams = <<>> /\ cached \in BOOLEAN

---------------------------------------------------------------------------
(* The daily briefing. *)

(* loadBriefing('refresh') of the interval, of the return to the tab and of  *)
(* the button; any number of loads may be on their way (here: two).          *)
CanRefresh == pending.refresh < 2
Refreshing == [page EXCEPT !.refreshing = TRUE, !.error = FALSE]
OneMoreRefresh == [pending EXCEPT !.refresh = @ + 1]

Refresh ==
  /\ CanRefresh /\ page' = Refreshing /\ pending' = OneMoreRefresh
  /\ UNCHANGED <<accountVars, aiVars, serverVars>>

(* Its answer.  A success clears no error of a load that failed before it    *)
(* and after it was started.                                                 *)
BriefingAnswer(mode, ok) ==
  /\ pending[mode] > 0
  /\ pending' = [pending EXCEPT ![mode] = @ - 1]
  /\ page' = [page EXCEPT !.briefing = ok \/ @, !.error = ~ok \/ @,
                          !.loading = mode # "initial" /\ @,
                          !.refreshing = mode # "refresh" /\ @]
  /\ UNCHANGED <<accountVars, aiVars, serverVars>>

(* What the page shows: of the AI section the gate of the login, a spinner,  *)
(* the error, the text or an invitation.                                     *)
Shown ==
  CASE page.loading -> "skeleton"
    [] page.error -> "error"
    [] ~page.briefing -> "empty"
    [] ~signed -> "login"
    [] ai.loading /\ live = NoText -> "spinner"
    [] ai.error -> "ai error"
    [] aiBriefing # NoText \/ live # NoText -> "text"
    [] OTHER -> "invitation"

---------------------------------------------------------------------------
(* The AI section. *)

\* Mutant: the stream is forgotten and not closed.
ForgetAiStream == streams

(* stopAiStream: close() aborts the request, and its promise is fulfilled    *)
(* without a word.                                                           *)
StopAiStream == [i \in DOMAIN streams |->
                   IF i = active THEN [streams[i] EXCEPT !.closed = TRUE] ELSE streams[i]]

(* loadAiBriefing: whatever was shown is taken away, a new stream is open.   *)
NewStream == [phase |-> "asked", context |-> {}, closed |-> FALSE]
LoadAiBriefing ==
  /\ Len(streams) < MaxStreams
  /\ streams' = Append(StopAiStream, NewStream)
  /\ active' = Len(streams) + 1
  /\ ai' = [loading |-> TRUE, error |-> FALSE]
  /\ live' = NoText /\ aiBriefing' = NoText

(* The effect that runs after a commit with a session, a briefing and no     *)
(* text: also after an error, at once and as often as it fails.              *)
AutoStart ==
  /\ signed /\ page.briefing /\ aiBriefing = NoText /\ ~ai.loading
  /\ LoadAiBriefing
  /\ UNCHANGED <<accountVars, pageVars, cached>>

(* handleAiRefresh: the button of the section. *)
HandleAiRefresh ==
  /\ Shown \in {"ai error", "text", "invitation"} /\ ~ai.loading
  /\ LoadAiBriefing
  /\ UNCHANGED <<accountVars, pageVars, cached>>

(* handleRefresh: the button of the page, also without a session. *)
HandleRefresh ==
  /\ ~page.loading /\ ~page.refreshing /\ CanRefresh
  /\ page' = Refreshing /\ pending' = OneMoreRefresh
  /\ LoadAiBriefing
  /\ UNCHANGED <<accountVars, cached>>

(* onAuthStateChange.  Without a session the stream is closed; ai.loading    *)
(* stays what it was.                                                        *)
SignIn ==
  /\ ~signed /\ switches < MaxSwitches
  /\ signed' = TRUE /\ switches' = switches + 1
  /\ UNCHANGED <<pageVars, aiVars, serverVars>>
SignOut ==
  /\ signed /\ switches < MaxSwitches
  /\ signed' = FALSE /\ switches' = switches + 1
  /\ streams' = StopAiStream /\ active' = 0
  /\ UNCHANGED <<pageVars, ai, live, aiBriefing, cached>>

(* The page is left, and opened again. *)
Remount ==
  /\ streams' = StopAiStream /\ active' = 0
  /\ page' = NewPage /\ pending' = NewLoads
  /\ ai' = [loading |-> FALSE, error |-> FALSE]
  /\ live' = NoText /\ aiBriefing' = NoText
  /\ UNCHANGED <<accountVars, cached>>

---------------------------------------------------------------------------
(* The server's side of stream i.  A request that the page aborts is given   *)
(* up by the server as well.                                                 *)
At(i, phases) == i \in DOMAIN streams /\ ~streams[i].closed /\ streams[i].phase \in phases
Moved(i, phase) == [streams EXCEPT ![i].phase = phase]

(* Frees the page of stream i: the callbacks have no guard of their own, but *)
(* only an open stream calls them.                                           *)
Fail(i) ==
  /\ ai' = [loading |-> FALSE, error |-> TRUE] /\ active' = 0
  /\ UNCHANGED <<live, aiBriefing>>

(* No lease, no session, another answer than 200, or the connection is cut:  *)
(* the promise is rejected, and its handler looks whether the stream is      *)
(* still the one the page follows.                                           *)
Cut(i) ==
  /\ At(i, {"asked", "working", "prompted", "fallback", "final"})
  /\ streams' = [Moved(i, "ended") EXCEPT ![i].closed = TRUE]
  /\ IF active = i THEN Fail(i) ELSE UNCHANGED aiVars
  /\ UNCHANGED <<accountVars, pageVars, cached>>

(* onFinal: content and mode are shown together. *)
HandleFinal(i, mode) ==
  /\ live' = [of |-> i, mode |-> mode] /\ aiBriefing' = live'
  /\ UNCHANGED <<ai, active>>

(* emitCachedExecutiveBriefing. *)
ServeCached(i) ==
  /\ At(i, {"asked"}) /\ signed /\ cached
  /\ streams' = Moved(i, "final")
  /\ HandleFinal(i, "cache")
  /\ UNCHANGED <<accountVars, pageVars, cached>>

(* The lease was acquired: the run is created and the workflow streams.      *)
StartRun(i) ==
  /\ At(i, {"asked"}) /\ signed /\ ~cached
  /\ streams' = Moved(i, "working")
  /\ UNCHANGED <<accountVars, pageVars, aiVars, cached>>

(* gather-dashboard-context: the reads run together; four of them fail the   *)
(* step, the other two and the exposure of single events only leave a gap.   *)
Required == {"events", "alerts", "risk-scores", "briefings/today"}
Optional == {"news", "health/connectors", "accumulation"}
Gather(i, failed) ==
  /\ At(i, {"working"})
  /\ streams' = IF failed \cap Required # {} THEN Moved(i, "fallback")
                ELSE [Moved(i, "prompted") EXCEPT ![i].context = (Required \cup Optional) \ failed]
  /\ UNCHANGED <<accountVars, pageVars, aiVars, cached>>

(* generate-executive-briefing: the text comes in parts, ... *)
Partial(i) ==
  /\ At(i, {"prompted"})
  /\ live' = [of |-> i, mode |-> "ai"]
  /\ UNCHANGED <<accountVars, pageVars, ai, aiBriefing, active, serverVars>>

(* ... is kept and sent as a whole, ... *)
Generated(i) ==
  /\ At(i, {"prompted"})
  /\ cached' = TRUE /\ streams' = Moved(i, "final")
  /\ HandleFinal(i, "ai")
  /\ UNCHANGED <<accountVars, pageVars>>

(* ... or there is none: an error of the run, a timeout, an empty answer.    *)
RunFails(i) ==
  /\ At(i, {"working", "prompted"})
  /\ streams' = Moved(i, "fallback")
  /\ UNCHANGED <<accountVars, pageVars, aiVars, cached>>

(* handleBriefingFallback, with a database to read from ... *)
FallbackPartial(i) ==
  /\ At(i, {"fallback"})
  /\ live' = [of |-> i, mode |-> "fallback"]
  /\ UNCHANGED <<accountVars, pageVars, ai, aiBriefing, active, serverVars>>
FallbackFinal(i) ==
  /\ At(i, {"fallback"})
  /\ streams' = Moved(i, "final")
  /\ HandleFinal(i, "fallback")
  /\ UNCHANGED <<accountVars, pageVars, cached>>

(* ... or without: briefing_error. *)
BriefingError(i) ==
  /\ At(i, {"fallback"})
  /\ streams' = [Moved(i, "ended") EXCEPT ![i].closed = TRUE]
  /\ Fail(i)
  /\ UNCHANGED <<accountVars, pageVars, cached>>

(* done. *)
HandleDone(i) ==
  /\ At(i, {"final"})
  /\ streams' = [Moved(i, "ended") EXCEPT ![i].closed = TRUE]
  /\ ai' = [ai EXCEPT !.loading = FALSE] /\ active' = 0
  /\ UNCHANGED <<accountVars, pageVars, live, aiBriefing, cached>>

(* The row of the cache grows older than the limit. *)
CacheExpires ==
  /\ cached /\ cached' = FALSE
  /\ UNCHANGED <<accountVars, pageVars, aiVars, streams>>

Next ==
  \/ Refresh \/ AutoStart \/ HandleAiRefresh \/ HandleRefresh
  \/ SignIn \/ SignOut \/ Remount \/ CacheExpires
  \/ \E mode \in {"initial", "refresh"}, ok \in BOOLEAN : BriefingAnswer(mode, ok)
  \/ \E i \in Ids :
       \/ Cut(i) \/ ServeCached(i) \/ StartRun(i) \/ Partial(i) \/ Generated(i)
       \/ RunFails(i) \/ FallbackPartial(i) \/ FallbackFinal(i)
       \/ BriefingError(i) \/ HandleDone(i)
       \/ \E failed \in SUBSET {"events", "news", "accumulation"} : Gather(i, failed)

Spec == Init /\ [][Next]_briefingVars

(* ---- Properties ---- *)

(* Type of the state. *)
TypeOK ==
  /\ signed \in BOOLEAN /\ cached \in BOOLEAN /\ active \in 0..MaxStreams
  /\ {live, aiBriefing} \subseteq [of : 0..MaxStreams, mode : {"none", "ai", "cache", "fallback"}]
  /\ \A i \in DOMAIN streams : streams[i].context \subseteq Required \cup Optional

(* Text of the AI section is of the stream that was asked for last, and the  *)
(* mode beside a final text (the banner of the fallback) is of that text;    *)
(* late parts of a stream that was replaced never come back, whatever the    *)
(* order of closing, failing and starting.                                   *)
TextIsOfItsRequest ==
  /\ {live.of, aiBriefing.of} \subseteq {0, Len(streams)}
  /\ aiBriefing # NoText => live = aiBriefing

(* Text of mode "ai" was written from the four required reads.               *)
AiTextHasContext ==
  aiBriefing.mode = "ai" => Required \subseteq streams[aiBriefing.of].context

(* While the section says it is at work it follows a stream, or the stream   *)
(* it followed was cut short by the page: a sign-out closes it without a     *)
(* word, and the section waits on.  A stream that came to its end, whether   *)
(* by its text, an error or a lost connection, always frees the section.     *)
LoadingHasStream ==
  LET last == Len(streams) IN
  /\ active # 0 => ai.loading
  /\ ai.loading /\ active = 0 => last > 0 /\ streams[last].closed /\ streams[last].phase # "ended"
=============================================================================
