--------------------------- MODULE WebPagesProofs ----------------------------
(***************************************************************************)
(* Inductive invariants of the pages of the web client and of its frame,   *)
(* in the form of WebMapProofs: what an open request of a page knows, so   *)
(* that its answer, whenever it comes, is put where it belongs.            *)
(***************************************************************************)
EXTENDS WebClient, Sequences, FiniteSets, FiniteSetTheorems, FunctionTheorems, TLAPS

---------------------------------------------------------------------------
(* WebShell: tokens of the human check, and the gate's calls                 *)

ShellGateType ==
  [mode : {"in", "up"}, email : Emails \cup {""}, busy : BOOLEAN, pending : BOOLEAN,
   token : 0..MaxTokens]
ShellCallType ==
  [kind : {"in", "up", "resend"}, email : Emails \cup {""}, token : 0..MaxTokens,
   mine : BOOLEAN]

(* Type of what the two properties are about. *)
ShellTypeInv ==
  /\ shellIssued \in 0..MaxTokens /\ spent \in [1..MaxTokens -> Nat]
  /\ gate \in ShellGateType /\ shellCalls \in SUBSET ShellCallType

(* The gate knows tokens that were issued, and none was sent before. *)
ShellTokensAreIssued ==
  /\ gate.token <= shellIssued
  /\ \A t \in 1..MaxTokens : t > shellIssued => spent[t] = 0

(* A token that was sent is still in the gate only while its call is out.    *)
ShellSentIsOnItsWay ==
  gate.token # Shell!NoToken /\ spent[gate.token] # 0 =>
    \E c \in shellCalls : c.mine /\ c.kind # "resend"

ShellSentOnce == \A t \in 1..MaxTokens : spent[t] <= 1

(* BusyIsOneCall, without the set. *)
ShellOneCall ==
  /\ gate.busy <=> \E c \in shellCalls : c.mine
  /\ \A c, d \in shellCalls : c.mine /\ d.mine => c = d

ShellInv ==
  /\ ShellTypeInv /\ ShellTokensAreIssued /\ ShellSentIsOnItsWay /\ ShellSentOnce
  /\ ShellOneCall

(* A gate with another token is a gate. *)
LEMMA ShellGateWithToken ==
  ASSUME NEW g \in ShellGateType, NEW t \in 0..MaxTokens
  PROVE  /\ [g EXCEPT !.token = t] \in ShellGateType
         /\ [g EXCEPT !.token = t].token = t
         /\ [g EXCEPT !.token = t].busy = g.busy
BY DEF ShellGateType

(* No token is a token a gate may have. *)
LEMMA ShellNoTokenIsOne == ASSUME MaxTokens \in Nat PROVE Shell!NoToken \in 0..MaxTokens
BY DEF Shell!NoToken

(* The gate keeps its token and its calls: nothing is disturbed. *)
LEMMA ShellGateEdited ==
  ASSUME ShellInv, gate' \in ShellGateType, gate'.token = gate.token, gate'.busy = gate.busy,
         UNCHANGED <<shellIssued, shellCalls, spent>>
  PROVE  ShellInv'
<1>1. ShellTypeInv'
  BY DEF ShellInv, ShellTypeInv
<1> QED
  BY <1>1 DEF ShellInv, ShellTokensAreIssued, ShellSentIsOnItsWay, ShellSentOnce, ShellOneCall,
         Shell!NoToken

\* Steps that leave the gate alone.
LEMMA ShellUnchanged ==
  ASSUME ShellInv, UNCHANGED <<gate, shellIssued, shellCalls, spent>>
  PROVE  ShellInv'
BY DEF ShellInv, ShellTypeInv, ShellTokensAreIssued, ShellSentIsOnItsWay, ShellSentOnce,
       ShellOneCall, Shell!NoToken

(* A gate that is left: all of its calls belong to nobody. *)
LEMMA ShellGateLeft ==
  ASSUME MaxTokens \in Nat, ShellInv, Shell!Unmount
  PROVE  ShellInv'
<1>1. /\ gate' = Shell!NewGate /\ UNCHANGED <<shellIssued, spent>>
      /\ shellCalls' = {[c EXCEPT !.mine = FALSE] : c \in shellCalls}
  BY DEF Shell!Unmount
<1>2. /\ Shell!NewGate \in ShellGateType /\ Shell!NewGate.token = Shell!NoToken
      /\ Shell!NewGate.busy = FALSE
  BY DEF Shell!NewGate, ShellGateType, Shell!NoToken
<1>3. shellCalls' \in SUBSET ShellCallType /\ \A c \in shellCalls' : c.mine = FALSE
  BY <1>1 DEF ShellInv, ShellTypeInv, ShellCallType
<1>4. ShellTypeInv'
  BY <1>1, <1>2, <1>3 DEF ShellInv, ShellTypeInv
<1>5. ShellTokensAreIssued'
  BY <1>1, <1>2 DEF ShellInv, ShellTypeInv, ShellTokensAreIssued, Shell!NoToken
<1> QED
  BY <1>1, <1>2, <1>3, <1>4, <1>5 DEF ShellInv, ShellSentIsOnItsWay, ShellSentOnce, ShellOneCall

\* The shell as it is opened.
LEMMA ShellInitInv == ASSUME MaxTokens \in Nat PROVE Shell!Init => ShellInv
<1> SUFFICES ASSUME Shell!Init PROVE ShellInv
  OBVIOUS
<1>1. /\ gate = Shell!NewGate /\ shellIssued = 0 /\ shellCalls = {}
      /\ spent = [t \in 1..MaxTokens |-> 0]
  BY DEF Shell!Init
<1>2. Shell!NewGate \in ShellGateType /\ Shell!NewGate.token = 0 /\ Shell!NewGate.busy = FALSE
  BY DEF Shell!NewGate, ShellGateType, Shell!NoToken
<1> QED
  BY <1>1, <1>2 DEF ShellInv, ShellTypeInv, ShellTokensAreIssued, ShellSentIsOnItsWay,
         ShellSentOnce, ShellOneCall, Shell!NoToken

\* Navigation, sessions, the gate and its calls, in any order.
LEMMA ShellStepInv ==
  ASSUME MaxTokens \in Nat
  PROVE  ShellInv /\ [Shell!Next]_(Shell!webVars) => ShellInv'
<1> SUFFICES ASSUME ShellInv, [Shell!Next]_(Shell!webVars) PROVE ShellInv'
  OBVIOUS
<1> USE DEF Shell!gateVars, Shell!shellVars, Shell!authVars
<1>1. ASSUME NEW kind, Shell!OpenMenu(kind) PROVE ShellInv'
  BY <1>1, ShellUnchanged DEF Shell!OpenMenu, Shell!Stay
<1>2. CASE Shell!Dismiss
  BY <1>2, ShellUnchanged DEF Shell!Dismiss, Shell!Stay
<1>3. ASSUME NEW s \in Sections, Shell!Navigate(s) PROVE ShellInv'
  BY <1>3, ShellUnchanged, ShellGateLeft DEF Shell!Navigate, Shell!Stay
<1>4. CASE Shell!FirstSession
  BY <1>4, ShellUnchanged, ShellGateLeft DEF Shell!FirstSession, Shell!SessionBecomes,
         Shell!Stay
<1>5. ASSUME NEW on \in BOOLEAN, Shell!AuthEvent(on) PROVE ShellInv'
  BY <1>5, ShellUnchanged, ShellGateLeft DEF Shell!AuthEvent, Shell!SessionBecomes, Shell!Stay
<1>6. CASE Shell!MountWidget
  BY <1>6, ShellUnchanged DEF Shell!MountWidget
<1>7. CASE Shell!OnVerify
  <2>1. /\ gate' = [gate EXCEPT !.token = shellIssued'] /\ shellIssued' = shellIssued + 1
        /\ shellIssued' \in 1..MaxTokens /\ UNCHANGED <<shellCalls, spent>>
    BY <1>7 DEF Shell!OnVerify, ShellInv, ShellTypeInv
  <2>2. gate' \in ShellGateType /\ gate'.token = shellIssued' /\ gate'.busy = gate.busy
    <3>1. gate \in ShellGateType
      BY DEF ShellInv, ShellTypeInv
    <3>2. shellIssued' \in 0..MaxTokens
      BY <2>1
    <3> QED
      BY <2>1, <3>1, <3>2, ShellGateWithToken
  <2>3. spent[shellIssued'] = 0
    BY <2>1 DEF ShellInv, ShellTypeInv, ShellTokensAreIssued
  <2>4. ShellTypeInv'
    BY <2>1, <2>2 DEF ShellInv, ShellTypeInv
  <2>5. ShellTokensAreIssued'
    BY <2>1, <2>2 DEF ShellInv, ShellTypeInv, ShellTokensAreIssued
  <2> QED
    BY <2>1, <2>2, <2>3, <2>4, <2>5 DEF ShellInv, ShellSentIsOnItsWay, ShellSentOnce,
           ShellOneCall
<1>8. CASE Shell!OnExpire
  <2>1. /\ gate' = [gate EXCEPT !.token = Shell!NoToken]
        /\ UNCHANGED <<shellIssued, shellCalls, spent>>
    BY <1>8 DEF Shell!OnExpire
  <2>2. gate' \in ShellGateType /\ gate'.token = Shell!NoToken /\ gate'.busy = gate.busy
    <3>1. gate \in ShellGateType /\ Shell!NoToken \in 0..MaxTokens
      BY ShellNoTokenIsOne DEF ShellInv, ShellTypeInv
    <3> QED
      BY <2>1, <3>1, ShellGateWithToken
  <2>3. ShellTypeInv' /\ ShellTokensAreIssued'
    BY <2>1, <2>2 DEF ShellInv, ShellTypeInv, ShellTokensAreIssued, Shell!NoToken
  <2> QED
    BY <2>1, <2>2, <2>3 DEF ShellInv, ShellSentIsOnItsWay, ShellSentOnce, ShellOneCall
<1>9. ASSUME NEW e \in Emails, Shell!EditEmail(e) PROVE ShellInv'
  <2>1. /\ gate' = [gate EXCEPT !.email = e, !.pending = FALSE]
        /\ UNCHANGED <<shellIssued, shellCalls, spent>>
    BY <1>9 DEF Shell!EditEmail, Shell!Gate
  <2>2. gate' \in ShellGateType /\ gate'.token = gate.token /\ gate'.busy = gate.busy
    BY <2>1 DEF ShellInv, ShellTypeInv, ShellGateType
  <2> QED
    BY <2>1, <2>2, ShellGateEdited
<1>10. CASE Shell!SwitchMode
  <2>1. /\ gate' = [gate EXCEPT !.mode = IF gate.mode = "in" THEN "up"
                                                             ELSE "in", !.pending = FALSE]
        /\ UNCHANGED <<shellIssued, shellCalls, spent>>
    BY <1>10 DEF Shell!SwitchMode, Shell!Gate
  <2>2. gate' \in ShellGateType /\ gate'.token = gate.token /\ gate'.busy = gate.busy
    BY <2>1 DEF ShellInv, ShellTypeInv, ShellGateType
  <2> QED
    BY <2>1, <2>2, ShellGateEdited
<1>11. ASSUME NEW kind \in {"in", "up", "resend"}, NEW token \in 0..MaxTokens,
              ~gate.busy, Shell!Call(kind, token)
       PROVE  /\ gate' \in ShellGateType /\ gate'.token = gate.token /\ gate'.busy
              /\ shellCalls' \in SUBSET ShellCallType /\ shellIssued' = shellIssued
              /\ \E c \in shellCalls' : c.mine /\ c.kind = kind
              /\ \A c, d \in shellCalls' : c.mine /\ d.mine => c = d
  <2> DEFINE sent == [kind |-> kind, email |-> gate.email, token |-> token, mine |-> TRUE]
  <2>1. /\ shellCalls' = shellCalls \cup {sent} /\ gate' = [gate EXCEPT !.busy = TRUE]
        /\ shellIssued' = shellIssued
    BY <1>11 DEF Shell!Call
  <2>2. sent \in ShellCallType /\ sent.mine /\ sent.kind = kind
    BY DEF ShellInv, ShellTypeInv, ShellCallType, ShellGateType
  <2>3. gate' \in ShellGateType /\ gate'.token = gate.token /\ gate'.busy
    BY <2>1 DEF ShellInv, ShellTypeInv, ShellGateType
  <2> HIDE DEF sent
  <2>4. \A c \in shellCalls : ~c.mine
    BY <1>11 DEF ShellInv, ShellOneCall
  <2> QED
    BY <2>1, <2>2, <2>3, <2>4 DEF ShellInv, ShellTypeInv
<1>12. CASE Shell!Submit
  <2>1. /\ ~gate.busy /\ Shell!Call(gate.mode, gate.token)
        /\ spent' = [t \in 1..MaxTokens |-> IF t = gate.token THEN spent[t] + 1 ELSE spent[t]]
    BY <1>12 DEF Shell!Submit, Shell!CanSubmit
  <2>2. /\ gate.mode \in {"in", "up"} /\ gate.token \in 0..MaxTokens
        /\ gate.token <= shellIssued /\ shellIssued \in 0..MaxTokens
        /\ spent \in [1..MaxTokens -> Nat]
    BY DEF ShellInv, ShellTypeInv, ShellGateType, ShellTokensAreIssued
  <2>3. /\ gate' \in ShellGateType /\ gate'.token = gate.token /\ gate'.busy
        /\ shellCalls' \in SUBSET ShellCallType /\ shellIssued' = shellIssued
        /\ \E c \in shellCalls' : c.mine /\ c.kind = gate.mode
        /\ \A c, d \in shellCalls' : c.mine /\ d.mine => c = d
    BY <1>11, <2>1, <2>2
  <2>4. gate.token # Shell!NoToken => spent[gate.token] = 0
    BY <2>1 DEF ShellInv, ShellSentIsOnItsWay, ShellOneCall
  <2>5. \A t \in 1..MaxTokens : spent'[t] = IF t = gate.token THEN 1 ELSE spent[t]
    BY <2>1, <2>2, <2>4 DEF Shell!NoToken
  <2>6. ShellTypeInv'
    <3>1. spent' \in [1..MaxTokens -> Nat]
      BY <2>1, <2>2
    <3> QED
      BY <2>2, <2>3, <3>1 DEF ShellTypeInv
  <2>7. ShellTokensAreIssued'
    BY <2>2, <2>3, <2>5 DEF ShellInv, ShellTokensAreIssued
  <2>8. ShellSentOnce'
    BY <2>2, <2>5 DEF ShellInv, ShellSentOnce
  <2>9. ShellSentIsOnItsWay'
    BY <2>2, <2>3 DEF ShellSentIsOnItsWay
  <2> QED
    BY <2>3, <2>6, <2>7, <2>8, <2>9 DEF ShellInv, ShellOneCall
<1>13. CASE Shell!HandleResend
  <2>1. ~gate.busy /\ Shell!Call("resend", Shell!NoToken) /\ spent' = spent
    BY <1>13 DEF Shell!HandleResend
  <2>2. Shell!NoToken \in 0..MaxTokens
    BY DEF Shell!NoToken
  <2>3. /\ gate' \in ShellGateType /\ gate'.token = gate.token /\ gate'.busy
        /\ shellCalls' \in SUBSET ShellCallType /\ shellIssued' = shellIssued
        /\ \E c \in shellCalls' : c.mine /\ c.kind = "resend"
        /\ \A c, d \in shellCalls' : c.mine /\ d.mine => c = d
    BY <1>11, <2>1, <2>2
  <2>4. gate.token # Shell!NoToken => spent[gate.token] = 0
    BY <2>1 DEF ShellInv, ShellSentIsOnItsWay, ShellOneCall
  <2>5. ShellTypeInv' /\ ShellTokensAreIssued' /\ ShellSentOnce'
    BY <2>1, <2>3 DEF ShellInv, ShellTypeInv, ShellTokensAreIssued, ShellSentOnce
  <2> QED
    BY <2>1, <2>3, <2>4, <2>5 DEF ShellInv, ShellOneCall, ShellSentIsOnItsWay
<1>14. ASSUME NEW c \in shellCalls, NEW ok \in BOOLEAN, NEW confirm \in BOOLEAN,
              Shell!Answer(c, ok, confirm)
       PROVE  ShellInv'
  <2>1. shellCalls' = shellCalls \ {c} /\ UNCHANGED <<shellIssued, spent>>
    BY <1>14 DEF Shell!Answer
  <2>2. CASE ~c.mine
    <3>1. gate' = gate
      BY <1>14, <2>2 DEF Shell!Answer
    <3>2. ShellTypeInv' /\ ShellTokensAreIssued' /\ ShellSentOnce'
      BY <2>1, <3>1 DEF ShellInv, ShellTypeInv, ShellTokensAreIssued, ShellSentOnce
    <3> QED
      BY <2>1, <2>2, <3>1, <3>2 DEF ShellInv, ShellSentIsOnItsWay, ShellOneCall, Shell!NoToken
  <2>3. CASE c.mine
    <3>1. gate' = Shell!Answered(c, ok, confirm)
      BY <1>14, <2>3 DEF Shell!Answer
    <3>2. PICK asked \in BOOLEAN, token \in {gate.token, Shell!NoToken} :
            /\ gate' = [gate EXCEPT !.busy = FALSE, !.token = token, !.pending = asked]
            /\ c.kind # "resend" => token = Shell!NoToken
      BY <3>1 DEF Shell!Answered, ShellInv, ShellTypeInv, ShellGateType
    <3>3. gate' \in ShellGateType /\ gate'.busy = FALSE /\ gate'.token = token
      <4>1. gate \in ShellGateType /\ token \in 0..MaxTokens
        <5>1. gate.token \in 0..MaxTokens
          BY DEF ShellInv, ShellTypeInv, ShellGateType
        <5> QED
          BY <5>1, ShellNoTokenIsOne DEF ShellInv, ShellTypeInv
      <4> DEFINE g == [gate EXCEPT !.busy = FALSE, !.token = token, !.pending = asked]
      <4>2. g \in ShellGateType /\ g.token = token /\ g.busy = FALSE
        BY <4>1 DEF ShellGateType
      <4>3. gate' = g
        BY <3>2
      <4> HIDE DEF g
      <4> QED
        BY <4>2, <4>3
    <3>4. \A d \in shellCalls' : ~d.mine
      BY <2>1, <2>3 DEF ShellInv, ShellOneCall
    <3>5. ShellTypeInv' /\ ShellTokensAreIssued' /\ ShellSentOnce'
      BY <2>1, <3>2, <3>3 DEF ShellInv, ShellTypeInv, ShellTokensAreIssued, ShellSentOnce,
             Shell!NoToken
    <3>6. ShellSentIsOnItsWay'
      BY <2>1, <2>3, <3>2, <3>3 DEF ShellInv, ShellSentIsOnItsWay, ShellOneCall, Shell!NoToken
    <3> QED
      BY <3>3, <3>4, <3>5, <3>6 DEF ShellInv, ShellOneCall
  <2> QED
    BY <2>2, <2>3
<1>15. CASE UNCHANGED Shell!webVars
  BY <1>15, ShellUnchanged DEF Shell!webVars
<1> QED
  BY <1>1, <1>2, <1>3, <1>4, <1>5, <1>6, <1>7, <1>8, <1>9, <1>10, <1>12, <1>13, <1>14, <1>15
     DEF Shell!Next

(* What the frame and the gate are made of, beside what the calls need. *)
ShellFrame ==
  /\ section \in Sections /\ menu \in {"closed", "mobile", "desktop"}
  /\ checking \in {"in", "out", "done"}
  /\ widget \in {"none", "absent", "challenge", "solved"}
  /\ \A c \in shellCalls : c.email \in Emails

\* The frame as it is opened.
LEMMA ShellInitFrame == ASSUME Shell!SectionsAssumption PROVE Shell!Init => ShellFrame
BY DEF Shell!Init, ShellFrame, Shell!SectionsAssumption

\* Sections, menus, the widget and the emails of the calls.
LEMMA ShellStepFrame == ShellInv /\ ShellFrame /\ [Shell!Next]_(Shell!webVars) => ShellFrame'
<1> SUFFICES ASSUME ShellInv, ShellFrame, [Shell!Next]_(Shell!webVars) PROVE ShellFrame'
  OBVIOUS
<1> USE DEF Shell!gateVars, Shell!shellVars, Shell!authVars, Shell!Stay, ShellFrame
<1>1. ASSUME Shell!Unmount
      PROVE  widget' \in {"none", "absent"} /\ \A c \in shellCalls' : c.email \in Emails
  BY <1>1 DEF Shell!Unmount, ShellInv, ShellTypeInv, ShellCallType
<1>2. ASSUME NEW kind \in {"in", "up", "resend"}, NEW token, gate.email # "",
               Shell!Call(kind, token)
      PROVE  \A c \in shellCalls' : c.email \in Emails
  <2>1. gate.email \in Emails
    BY <1>2 DEF ShellInv, ShellTypeInv, ShellGateType
  <2> DEFINE sent == [kind |-> kind, email |-> gate.email, token |-> token, mine |-> TRUE]
  <2>2. shellCalls' = shellCalls \cup {sent}
    BY <1>2 DEF Shell!Call
  <2>3. sent.email \in Emails
    BY <2>1
  <2> HIDE DEF sent
  <2> QED
    BY <2>2, <2>3 DEF ShellFrame
<1>3. ASSUME NEW kind \in {"mobile", "desktop"}, Shell!OpenMenu(kind) PROVE ShellFrame'
  BY <1>3 DEF Shell!OpenMenu
<1>4. CASE Shell!Dismiss
  BY <1>4 DEF Shell!Dismiss
<1>5. ASSUME NEW s \in Sections, Shell!Navigate(s) PROVE ShellFrame'
  BY <1>5, <1>1 DEF Shell!Navigate
<1>6. CASE Shell!FirstSession
  BY <1>6, <1>1 DEF Shell!FirstSession, Shell!SessionBecomes
<1>7. ASSUME NEW on \in BOOLEAN, Shell!AuthEvent(on) PROVE ShellFrame'
  BY <1>7, <1>1 DEF Shell!AuthEvent, Shell!SessionBecomes
<1>8. CASE Shell!MountWidget \/ Shell!OnVerify \/ Shell!OnExpire
  BY <1>8 DEF Shell!MountWidget, Shell!OnVerify, Shell!OnExpire
<1>9. ASSUME NEW e \in Emails, Shell!EditEmail(e) PROVE ShellFrame'
  BY <1>9 DEF Shell!EditEmail, Shell!Gate
<1>10. CASE Shell!SwitchMode
  BY <1>10 DEF Shell!SwitchMode, Shell!Gate
<1>11. CASE Shell!Submit
  <2>1. gate.mode \in {"in", "up", "resend"}
    BY DEF ShellInv, ShellTypeInv, ShellGateType
  <2>2. \A c \in shellCalls' : c.email \in Emails
    BY <1>11, <1>2, <2>1 DEF Shell!Submit, Shell!CanSubmit
  <2> QED
    BY <1>11, <2>2 DEF Shell!Submit, Shell!Call
<1>12. CASE Shell!HandleResend
  <2>1. \A c \in shellCalls' : c.email \in Emails
    BY <1>12, <1>2 DEF Shell!HandleResend
  <2> QED
    BY <1>12, <2>1 DEF Shell!HandleResend, Shell!Call
<1>13. ASSUME NEW c \in shellCalls, NEW ok \in BOOLEAN, NEW confirm \in BOOLEAN,
              Shell!Answer(c, ok, confirm)
       PROVE  ShellFrame'
  BY <1>13 DEF Shell!Answer, Shell!ResetWidget
<1>14. CASE UNCHANGED Shell!webVars
  BY <1>14 DEF Shell!webVars
<1> QED
  BY <1>3, <1>4, <1>5, <1>6, <1>7, <1>8, <1>9, <1>10, <1>11, <1>12, <1>13, <1>14 DEF Shell!Next

\* The type that the runs check.
LEMMA ShellIsTyped == ASSUME MaxTokens \in Nat PROVE ShellInv /\ ShellFrame => Shell!TypeOK
<1> SUFFICES ASSUME ShellInv, ShellFrame PROVE Shell!TypeOK
  OBVIOUS
<1>1. gate.email \in Emails \cup {""}
  BY DEF ShellInv, ShellTypeInv, ShellGateType
<1>2. gate.token \in 0..shellIssued
  <2>1. gate.token \in 0..MaxTokens /\ shellIssued \in 0..MaxTokens
    BY DEF ShellInv, ShellTypeInv, ShellGateType
  <2>2. gate.token <= shellIssued
    BY DEF ShellInv, ShellTokensAreIssued
  <2> QED
    BY <2>1, <2>2
<1>3. \A c \in shellCalls : c.kind \in {"in", "up", "resend"}
  BY DEF ShellInv, ShellTypeInv, ShellCallType
<1> QED
  BY <1>1, <1>2, <1>3 DEF ShellFrame, Shell!TypeOK

\* No token is sent with two calls (submit of LoginGate).
LEMMA ShellIsSentOnce == ASSUME MaxTokens \in Nat PROVE ShellInv => Shell!TokenUsedOnce
BY DEF ShellInv, ShellTypeInv, ShellSentOnce, Shell!TokenUsedOnce

\* A gate is busy exactly while one call of its own is on its way
\* (setBusy).
LEMMA ShellIsOneCall == ShellInv => Shell!BusyIsOneCall
BY DEF ShellInv, ShellOneCall, Shell!BusyIsOneCall

---------------------------------------------------------------------------
(* SourceSettings: an activation is offered with its evidence                *)

SettingsEntries == {"none", "zero", "failed"}
SettingsRowType(versions) == [mode : Settings!Modes, version : versions,
                              dry : {"none", "ok", "bad"}]
SettingsEvidenceType ==
  [loaded : BOOLEAN, shadow : [Settings!Versions -> SettingsEntries], polled : 0..MaxVersion]
SettingsLoadType ==
  [stage : {"settings", "evidence", "done"}, shadow : [Sources -> {"asked", "ok", "failed"}],
   health : {"asked", "ok", "failed"},
     shadows : [Sources -> [Settings!Versions -> SettingsEntries]],
   polled : [Sources -> 0..MaxVersion]]
SettingsOpType ==
  /\ [source : Sources, kind : Settings!Kinds, stage : {"call", "load"}, load : Nat,
      mode : Settings!Modes]

SettingsServerType ==
  /\ settingsRows \in [Sources -> SettingsRowType(Settings!Versions)]
  /\ shadows \in [Sources -> [Settings!Versions -> SettingsEntries]]
  /\ polled \in [Sources -> 0..MaxVersion]
SettingsPageType ==
  /\ items \in [Sources -> SettingsRowType(0..MaxVersion)]
  /\ evidence \in [Sources -> SettingsEvidenceType]
  /\ histories \in [Sources -> BOOLEAN]
  /\ settingsBusy \in Sources \cup {"workbook", "none"}
SettingsCallsType == settingsLoads \in Seq(SettingsLoadType) /\ ops \in SUBSET SettingsOpType

(* Every entry "zero" of a copy tells of a version that was proven. *)
SettingsProven(entries) ==
  \A s \in Sources, v \in Settings!Versions : entries[s][v] = "zero" => shadows[s][v] = "zero"
SettingsLoadsAreProven ==
  \A l \in DOMAIN settingsLoads : SettingsProven(settingsLoads[l].shadows)
SettingsEvidenceIsProven ==
  \A s \in Sources, v \in Settings!Versions :
    evidence[s].shadow[v] = "zero" => shadows[s][v] = "zero"

SettingsTypeInv == SettingsServerType /\ SettingsPageType /\ SettingsCallsType
SettingsInv ==
  SettingsTypeInv /\ SettingsLoadsAreProven /\ SettingsEvidenceIsProven

(* What the page begins with knows nothing. *)
LEMMA SettingsNothingKnown ==
  ASSUME MaxVersion \in Nat
  PROVE  /\ Settings!NoEvidence \in SettingsEvidenceType
         /\ \A v \in Settings!Versions : Settings!NoEvidence.shadow[v] = "none"
         /\ Settings!NewLoad \in SettingsLoadType /\ Settings!Loaded \in SettingsLoadType
         /\ \A s \in Sources, v \in Settings!Versions : Settings!NewLoad.shadows[s][v] = "none"
         /\ \A s \in Sources, v \in Settings!Versions : Settings!Loaded.shadows[s][v] = "none"
<1>1. /\ Settings!NoEvidence.shadow \in [Settings!Versions -> SettingsEntries]
      /\ \A v \in Settings!Versions : Settings!NoEvidence.shadow[v] = "none"
  BY DEF Settings!NoEvidence, SettingsEntries
<1>2. 0 \in 0..MaxVersion
  OBVIOUS
<1>3. Settings!NoEvidence \in SettingsEvidenceType
  BY <1>2 DEF Settings!NoEvidence, SettingsEvidenceType, SettingsEntries
<1> DEFINE known == [s \in Sources |-> Settings!NoEvidence.shadow]
<1>4. /\ known \in [Sources -> [Settings!Versions -> SettingsEntries]]
      /\ \A s \in Sources, v \in Settings!Versions : known[s][v] = "none"
  BY <1>1
<1>5. Settings!NewLoad = [stage |-> "settings", shadow |-> [s \in Sources |-> "asked"],
                          health |-> "asked",
                 shadows |-> known, polled |-> [s \in Sources |-> 0]]
  BY DEF Settings!NewLoad
<1> HIDE DEF known
<1>6. Settings!NewLoad \in SettingsLoadType /\ Settings!NewLoad.shadows = known
  BY <1>2, <1>4, <1>5 DEF SettingsLoadType
<1>7. Settings!Loaded \in SettingsLoadType /\ Settings!Loaded.shadows = known
  BY <1>6 DEF Settings!Loaded, SettingsLoadType
<1> QED
  BY <1>1, <1>3, <1>4, <1>6, <1>7

(* One load goes on, and the page and the server stay as they are. *)
LEMMA SettingsLoadGoesOn ==
  ASSUME SettingsInv, NEW l \in DOMAIN settingsLoads, NEW q \in SettingsLoadType,
           SettingsProven(q.shadows),
         settingsLoads' = [settingsLoads EXCEPT ![l] = q],
         UNCHANGED <<settingsRows, shadows, polled, items, evidence, histories,
                     settingsBusy, ops>>
  PROVE  SettingsInv'
<1>1. SettingsCallsType'
  BY DEF SettingsInv, SettingsTypeInv, SettingsCallsType
<1>2. SettingsLoadsAreProven'
  BY DEF SettingsInv, SettingsTypeInv, SettingsCallsType, SettingsLoadsAreProven, SettingsProven
<1> QED
  BY <1>1, <1>2 DEF SettingsInv, SettingsTypeInv, SettingsServerType, SettingsPageType,
         SettingsProven, SettingsEvidenceIsProven

(* What is copied from the load is a load. *)
LEMMA SettingsLoadAt ==
  ASSUME SettingsInv, NEW l, NEW stage, Settings!At(l, stage)
  PROVE  /\ l \in DOMAIN settingsLoads /\ settingsLoads[l] \in SettingsLoadType
         /\ SettingsProven(settingsLoads[l].shadows)
BY DEF Settings!At, SettingsInv, SettingsTypeInv, SettingsCallsType, SettingsLoadsAreProven

(* A change that leaves the entries, the evidence and the loads alone.       *)
LEMMA SettingsEntriesStay ==
  ASSUME SettingsInv, SettingsTypeInv', UNCHANGED <<shadows, evidence, settingsLoads>>
  PROVE  SettingsInv'
BY DEF SettingsInv, SettingsProven, SettingsLoadsAreProven, SettingsEvidenceIsProven

(* A new version of a row, and the other changes of the server's rows.       *)
LEMMA SettingsNewRow ==
  ASSUME MaxVersion \in Nat, SettingsInv, NEW s \in Sources, NEW mode \in Settings!Modes,
         NEW dry \in {"none", "ok"}, Settings!NewVersion(s, mode, dry)
  PROVE  SettingsServerType'
<1>1. /\ settingsRows[s].version \in Settings!Versions
      /\ settingsRows[s].version + 1 \in Settings!Versions
  BY DEF Settings!NewVersion, SettingsInv, SettingsTypeInv, SettingsServerType, SettingsRowType,
         Settings!Versions
<1> DEFINE r == [mode |-> mode, version |-> settingsRows[s].version + 1, dry |-> dry]
<1>2. r \in SettingsRowType(Settings!Versions)
  BY <1>1 DEF SettingsRowType
<1>3. settingsRows' = [settingsRows EXCEPT ![s] = r]
  BY DEF Settings!NewVersion
<1> HIDE DEF r
<1> QED
  BY <1>2, <1>3 DEF Settings!NewVersion, SettingsInv, SettingsTypeInv, SettingsServerType

\* The page as it is opened.
LEMMA SettingsInitInv == ASSUME MaxVersion \in Nat PROVE Settings!Init => SettingsInv
<1> SUFFICES ASSUME Settings!Init PROVE SettingsInv
  OBVIOUS
<1>1. settingsRows \in [Sources -> SettingsRowType(Settings!Versions)]
  BY DEF Settings!Init, SettingsRowType, Settings!Modes
<1>2. shadows \in [Sources -> [Settings!Versions -> SettingsEntries]]
  BY DEF Settings!Init, SettingsEntries
<1>3. polled \in [Sources -> 0..MaxVersion]
  BY <1>1 DEF Settings!Init, SettingsRowType, Settings!Versions
<1>4. SettingsServerType
  BY <1>1, <1>2, <1>3 DEF SettingsServerType
<1>5. items \in [Sources -> SettingsRowType(0..MaxVersion)]
  <2>1. Settings!NotShown \in SettingsRowType(0..MaxVersion)
    BY DEF Settings!NotShown, SettingsRowType, Settings!Modes
  <2> QED
    BY <2>1 DEF Settings!Init
<1>6. /\ evidence = [s \in Sources |-> Settings!NoEvidence]
      /\ Settings!NoEvidence \in SettingsEvidenceType
  BY SettingsNothingKnown DEF Settings!Init
<1>7. SettingsPageType
  BY <1>5, <1>6 DEF Settings!Init, SettingsPageType
<1>8. SettingsEvidenceIsProven
  BY <1>6, SettingsNothingKnown DEF SettingsEvidenceIsProven
<1>9. settingsLoads = <<Settings!NewLoad>> /\ settingsLoads \in Seq(SettingsLoadType)
  BY SettingsNothingKnown DEF Settings!Init
<1>10. SettingsCallsType
  BY <1>9 DEF SettingsCallsType, Settings!Init
<1>11. SettingsLoadsAreProven
  BY <1>9, SettingsNothingKnown DEF SettingsLoadsAreProven, SettingsProven
<1> QED
  BY <1>4, <1>7, <1>8, <1>10, <1>11 DEF SettingsInv, SettingsTypeInv

(* The server's steps. *)
LEMMA SettingsServerSteps ==
  ASSUME MaxVersion \in Nat, SettingsInv, NEW s \in Sources,
         \/ \E mode \in {"disabled", "dry_run"} : Settings!OtherSaves(s, mode)
         \/ \E v \in Settings!Versions, good \in BOOLEAN : Settings!WorkerShadow(s, v, good)
         \/ \E ok \in BOOLEAN : Settings!WorkerPolls(s, ok)
  PROVE  SettingsInv'
<1> USE DEF Settings!pageVars
<1>1. ASSUME NEW mode \in {"disabled", "dry_run"}, Settings!OtherSaves(s, mode)
      PROVE SettingsInv'
  <2>1. /\ Settings!NewVersion(s, mode, "none")
        /\ UNCHANGED <<Settings!pageVars, settingsLoads, ops>>
    BY <1>1 DEF Settings!OtherSaves
  <2>2. mode \in Settings!Modes
    BY DEF Settings!Modes
  <2>3. SettingsServerType'
    BY <2>1, <2>2, SettingsNewRow
  <2>4. SettingsTypeInv'
    BY <2>1, <2>3 DEF SettingsInv, SettingsTypeInv, SettingsPageType, SettingsCallsType
  <2> QED
    BY <2>1, <2>4, SettingsEntriesStay DEF Settings!NewVersion
<1>2. ASSUME NEW v \in Settings!Versions, NEW good \in BOOLEAN, Settings!WorkerShadow(s, v, good)
      PROVE SettingsInv'
  <2> DEFINE entry == IF good THEN "zero" ELSE IF shadows[s][v] = "zero" THEN "zero" ELSE "failed"
  <2>1. /\ shadows' = [shadows EXCEPT ![s] = [shadows[s] EXCEPT ![v] = entry]]
        /\ UNCHANGED <<settingsRows, polled, Settings!pageVars, settingsLoads, ops>>
    BY <1>2 DEF Settings!WorkerShadow
  <2>2. entry \in SettingsEntries /\ (shadows[s][v] = "zero" => entry = "zero")
    BY DEF SettingsEntries
  <2> HIDE DEF entry
  <2>3. /\ shadows' \in [Sources -> [Settings!Versions -> SettingsEntries]]
        /\ \A t \in Sources, w \in Settings!Versions :
              shadows[t][w] = "zero" => shadows'[t][w] = "zero"
    BY <2>1, <2>2 DEF SettingsInv, SettingsTypeInv, SettingsServerType
  <2>4. SettingsTypeInv'
    BY <2>1, <2>3 DEF SettingsInv, SettingsTypeInv, SettingsServerType, SettingsPageType,
           SettingsCallsType
  <2>5. SettingsLoadsAreProven'
    BY <2>1, <2>3 DEF SettingsInv, SettingsLoadsAreProven, SettingsProven
  <2>6. SettingsEvidenceIsProven'
    BY <2>1, <2>3 DEF SettingsInv, SettingsEvidenceIsProven
  <2> QED
    BY <2>4, <2>5, <2>6 DEF SettingsInv
<1>3. ASSUME NEW ok \in BOOLEAN, Settings!WorkerPolls(s, ok) PROVE SettingsInv'
  <2>1. /\ polled' = [polled EXCEPT ![s] = IF ok THEN settingsRows[s].version ELSE 0]
        /\ UNCHANGED <<settingsRows, shadows, Settings!pageVars, settingsLoads, ops>>
    BY <1>3 DEF Settings!WorkerPolls
  <2>2. settingsRows[s].version \in 0..MaxVersion /\ 0 \in 0..MaxVersion
    BY DEF SettingsInv, SettingsTypeInv, SettingsServerType, SettingsRowType, Settings!Versions
  <2>3. SettingsServerType'
    BY <2>1, <2>2 DEF SettingsInv, SettingsTypeInv, SettingsServerType
  <2>4. SettingsTypeInv'
    BY <2>1, <2>3 DEF SettingsInv, SettingsTypeInv, SettingsPageType, SettingsCallsType
  <2> QED
    BY <2>1, <2>4, SettingsEntriesStay
<1> QED
  BY <1>1, <1>2, <1>3

(* The steps of a load. *)
LEMMA SettingsLoadSteps ==
  ASSUME MaxVersion \in Nat, SettingsInv, NEW l \in 1..MaxSettingsLoads,
         \/ Settings!ApplySettings(l) \/ Settings!HealthAnswered(l) \/ Settings!ReadFails(l)
         \/ Settings!ApplyEvidence(l) \/ Settings!LoadFails(l)
         \/ \E s \in Sources : Settings!HistoryAnswered(l, s)
  PROVE  SettingsInv'
<1> USE DEF Settings!pageVars, Settings!serverVars
<1>1. SettingsServerType
  BY DEF SettingsInv, SettingsTypeInv
<1>2. CASE Settings!ApplySettings(l)
  <2> DEFINE q == [settingsLoads[l] EXCEPT !.stage = "evidence"]
  <2>1. /\ l \in DOMAIN settingsLoads /\ settingsLoads[l] \in SettingsLoadType
        /\ SettingsProven(settingsLoads[l].shadows)
    BY <1>2, SettingsLoadAt DEF Settings!ApplySettings
  <2>2. q \in SettingsLoadType /\ q.shadows = settingsLoads[l].shadows
    BY <2>1 DEF SettingsLoadType
  <2>3. /\ settingsLoads' = [settingsLoads EXCEPT ![l] = q] /\ items' = settingsRows
        /\ evidence' = [s \in Sources |-> Settings!NoEvidence]
        /\ UNCHANGED <<Settings!serverVars, approved, histories, settingsBusy, workbook, ops,
                       edits>>
    BY <1>2 DEF Settings!ApplySettings
  <2> HIDE DEF q
  <2>4. items' \in [Sources -> SettingsRowType(0..MaxVersion)]
    BY <1>1, <2>3 DEF SettingsServerType, SettingsRowType, Settings!Versions
  <2>5. SettingsPageType' /\ SettingsEvidenceIsProven'
    BY <2>3, <2>4, SettingsNothingKnown DEF SettingsInv, SettingsTypeInv, SettingsPageType,
           SettingsEvidenceIsProven
  <2>6. SettingsCallsType' /\ SettingsLoadsAreProven'
    BY <2>1, <2>2, <2>3 DEF SettingsInv, SettingsTypeInv, SettingsCallsType,
           SettingsLoadsAreProven, SettingsProven
  <2> QED
    BY <2>3, <2>5, <2>6 DEF SettingsInv, SettingsTypeInv, SettingsServerType, SettingsProven
<1>3. CASE Settings!HealthAnswered(l)
  <2> DEFINE q == [settingsLoads[l] EXCEPT !.health = "ok", !.polled = polled]
  <2>1. /\ l \in DOMAIN settingsLoads /\ settingsLoads[l] \in SettingsLoadType
        /\ SettingsProven(settingsLoads[l].shadows)
    BY <1>3, SettingsLoadAt DEF Settings!HealthAnswered
  <2>2. q \in SettingsLoadType /\ q.shadows = settingsLoads[l].shadows
    BY <1>1, <2>1 DEF SettingsLoadType, SettingsServerType
  <2>3. /\ settingsLoads' = [settingsLoads EXCEPT ![l] = q]
        /\ UNCHANGED <<Settings!serverVars, Settings!pageVars, ops, edits>>
    BY <1>3, <2>1 DEF Settings!HealthAnswered, SettingsLoadType
  <2> HIDE DEF q
  <2> QED
    BY <2>1, <2>2, <2>3, SettingsLoadGoesOn
<1>4. CASE Settings!ReadFails(l)
  <2>1. /\ l \in DOMAIN settingsLoads /\ settingsLoads[l] \in SettingsLoadType
        /\ SettingsProven(settingsLoads[l].shadows)
    BY <1>4, SettingsLoadAt DEF Settings!ReadFails
  <2>2. UNCHANGED <<Settings!serverVars, Settings!pageVars, ops>>
    BY <1>4 DEF Settings!ReadFails
  <2>3. PICK q \in SettingsLoadType : q.shadows = settingsLoads[l].shadows /\
          settingsLoads' = [settingsLoads EXCEPT ![l] = q]
    <3>1. CASE settingsLoads' = [settingsLoads EXCEPT ![l].health = "failed"]
      <4> DEFINE q == [settingsLoads[l] EXCEPT !.health = "failed"]
      <4>1. /\ q \in SettingsLoadType /\ q.shadows = settingsLoads[l].shadows
            /\ settingsLoads' = [settingsLoads EXCEPT ![l] = q]
        BY <2>1, <3>1 DEF SettingsLoadType
      <4> QED
        BY <4>1
    <3>2. ASSUME NEW s \in Sources,
                   settingsLoads' = [settingsLoads EXCEPT ![l].shadow[s] = "failed"]
          PROVE  \E q \in SettingsLoadType : q.shadows = settingsLoads[l].shadows /\
                   settingsLoads' = [settingsLoads EXCEPT ![l] = q]
      <4> DEFINE q == [settingsLoads[l] EXCEPT !.shadow[s] = "failed"]
      <4>1. /\ q \in SettingsLoadType /\ q.shadows = settingsLoads[l].shadows
            /\ settingsLoads' = [settingsLoads EXCEPT ![l] = q]
        BY <2>1, <3>2 DEF SettingsLoadType
      <4> QED
        BY <4>1
    <3> QED
      BY <1>4, <3>1, <3>2 DEF Settings!ReadFails
  <2> QED
    BY <2>1, <2>2, <2>3, SettingsLoadGoesOn
<1>5. CASE Settings!ApplyEvidence(l)
  <2>1. /\ l \in DOMAIN settingsLoads /\ settingsLoads[l] \in SettingsLoadType
        /\ SettingsProven(settingsLoads[l].shadows)
    BY <1>5, SettingsLoadAt DEF Settings!ApplyEvidence
  <2>2. /\ evidence' = [s \in Sources |-> Settings!EvidenceOf(settingsLoads[l], s)]
        /\ settingsLoads' = [settingsLoads EXCEPT ![l] = Settings!Loaded]
        /\ UNCHANGED <<Settings!serverVars, items, approved, histories, settingsBusy, workbook,
                       ops, edits>>
    BY <1>5 DEF Settings!ApplyEvidence
  <2>3. \A s \in Sources : /\ Settings!EvidenceOf(settingsLoads[l], s) \in SettingsEvidenceType
                           /\ Settings!EvidenceOf(settingsLoads[l], s).shadow =
                                settingsLoads[l].shadows[s]
    BY <2>1 DEF Settings!EvidenceOf, SettingsEvidenceType, SettingsLoadType
  <2>4. SettingsPageType'
    BY <2>2, <2>3 DEF SettingsInv, SettingsTypeInv, SettingsPageType
  <2>5. SettingsEvidenceIsProven'
    BY <2>1, <2>2, <2>3 DEF SettingsEvidenceIsProven, SettingsProven
  <2>6. SettingsCallsType' /\ SettingsLoadsAreProven'
    BY <2>1, <2>2, SettingsNothingKnown DEF SettingsInv, SettingsTypeInv, SettingsCallsType,
           SettingsLoadsAreProven, SettingsProven
  <2> QED
    BY <2>2, <2>4, <2>5, <2>6 DEF SettingsInv, SettingsTypeInv, SettingsServerType,
           SettingsProven
<1>6. CASE Settings!LoadFails(l)
  <2>1. l \in DOMAIN settingsLoads
    BY <1>6, SettingsLoadAt DEF Settings!LoadFails
  <2>2. /\ settingsLoads' = [settingsLoads EXCEPT ![l] = Settings!Loaded]
        /\ UNCHANGED <<Settings!serverVars, Settings!pageVars, ops>>
    BY <1>6 DEF Settings!LoadFails
  <2>3. Settings!Loaded \in SettingsLoadType /\ SettingsProven(Settings!Loaded.shadows)
    BY SettingsNothingKnown DEF SettingsProven
  <2> QED
    BY <2>1, <2>2, <2>3, SettingsLoadGoesOn
<1>7. ASSUME NEW s \in Sources, Settings!HistoryAnswered(l, s) PROVE SettingsInv'
  <2> DEFINE q == [settingsLoads[l] EXCEPT !.shadow[s] = "ok", !.shadows[s] = shadows[s]]
  <2>1. /\ l \in DOMAIN settingsLoads /\ settingsLoads[l] \in SettingsLoadType
        /\ SettingsProven(settingsLoads[l].shadows)
    BY <1>7, SettingsLoadAt DEF Settings!HistoryAnswered
  <2>2. /\ q \in SettingsLoadType
        /\ q.shadows = [settingsLoads[l].shadows EXCEPT ![s] = shadows[s]]
    BY <1>1, <2>1 DEF SettingsLoadType, SettingsServerType
  <2>3. /\ settingsLoads' = [settingsLoads EXCEPT ![l] = q]
        /\ UNCHANGED <<Settings!serverVars, Settings!pageVars, ops, edits>>
    BY <1>7, <2>1 DEF Settings!HistoryAnswered, SettingsLoadType
  <2> HIDE DEF q
  <2>4. SettingsProven(q.shadows)
    BY <2>1, <2>2 DEF SettingsInv, SettingsProven, SettingsLoadType
  <2> QED
    BY <2>1, <2>2, <2>3, <2>4, SettingsLoadGoesOn
<1> QED
  BY <1>2, <1>3, <1>4, <1>5, <1>6, <1>7

(* The steps of the administrator that are local to the page. *)
LEMMA SettingsPageSteps ==
  ASSUME MaxVersion \in Nat, SettingsInv,
         \/ \E s \in Sources, mode \in {"disabled", "dry_run"} : Settings!PatchMode(s, mode)
         \/ \E s \in Sources, kind \in Settings!Kinds : Settings!Run(s, kind)
         \/ \E s \in Sources : Settings!FillApproval(s)
         \/ Settings!PreviewWorkbook \/ Settings!WorkbookAnswered
  PROVE  SettingsInv'
<1> USE DEF Settings!pageVars, Settings!serverVars, Settings!Edited, Settings!Unlisted
<1>1. ASSUME NEW s \in Sources, NEW mode \in {"disabled", "dry_run"},
               Settings!PatchMode(s, mode)
      PROVE  SettingsInv'
  <2>1. /\ items' = [items EXCEPT ![s].mode = mode]
        /\ UNCHANGED <<Settings!serverVars, evidence, histories, settingsBusy, settingsLoads,
                       ops>>
    BY <1>1 DEF Settings!PatchMode
  <2>2. items' \in [Sources -> SettingsRowType(0..MaxVersion)]
    BY <2>1 DEF SettingsInv, SettingsTypeInv, SettingsPageType, SettingsRowType, Settings!Modes
  <2>3. SettingsTypeInv'
    BY <2>1, <2>2 DEF SettingsInv, SettingsTypeInv, SettingsServerType, SettingsPageType,
           SettingsCallsType
  <2> QED
    BY <2>1, <2>3, SettingsEntriesStay
<1>2. ASSUME NEW s \in Sources, NEW kind \in Settings!Kinds, Settings!Run(s, kind)
      PROVE SettingsInv'
  <2> DEFINE o == [source |-> s, kind |-> kind, stage |-> "call", load |-> 0,
                   mode |-> IF kind = "save" THEN items[s].mode ELSE "disabled"]
  <2>1. /\ ops' = ops \cup {o} /\ settingsBusy' = s
        /\ UNCHANGED <<Settings!serverVars, histories, settingsLoads, items, evidence>>
    BY <1>2 DEF Settings!Run
  <2>2. o \in SettingsOpType
    BY DEF SettingsOpType, SettingsInv, SettingsTypeInv, SettingsPageType, SettingsRowType,
           Settings!Modes
  <2> HIDE DEF o
  <2>3. SettingsTypeInv'
    BY <2>1, <2>2 DEF SettingsInv, SettingsTypeInv, SettingsServerType, SettingsPageType,
           SettingsCallsType
  <2> QED
    BY <2>1, <2>3, SettingsEntriesStay
<1>3. ASSUME NEW s \in Sources, Settings!FillApproval(s) PROVE SettingsInv'
  <2>1. UNCHANGED <<Settings!serverVars, items, evidence, histories, settingsBusy,
                    settingsLoads, ops>>
    BY <1>3 DEF Settings!FillApproval
  <2>2. SettingsTypeInv'
    BY <2>1 DEF SettingsInv, SettingsTypeInv, SettingsServerType, SettingsPageType,
           SettingsCallsType
  <2> QED
    BY <2>1, <2>2, SettingsEntriesStay
<1>4. ASSUME Settings!PreviewWorkbook \/ Settings!WorkbookAnswered PROVE SettingsInv'
  <2>1. /\ settingsBusy' \in {"workbook", "none"}
        /\ UNCHANGED <<Settings!serverVars, items, evidence, histories, settingsLoads, ops>>
    BY <1>4 DEF Settings!PreviewWorkbook, Settings!WorkbookAnswered
  <2>2. SettingsTypeInv'
    BY <2>1 DEF SettingsInv, SettingsTypeInv, SettingsServerType, SettingsPageType,
           SettingsCallsType
  <2> QED
    BY <2>1, <2>2, SettingsEntriesStay
<1> QED
  BY <1>1, <1>2, <1>3, <1>4

(* Whatever the server makes of a call, its rows are rows. *)
LEMMA SettingsServerObeys ==
  ASSUME MaxVersion \in Nat, SettingsInv, NEW o \in SettingsOpType,
           Settings!ServerDoes(o, o.source)
  PROVE  SettingsServerType' /\ UNCHANGED shadows
<1> DEFINE s == o.source
<1>1. s \in Sources /\ SettingsServerType
  BY DEF SettingsOpType, SettingsInv, SettingsTypeInv
<1>2. CASE o.kind = "save"
  <2>1. PICK mode \in Settings!Modes : Settings!NewVersion(s, mode, "none")
    BY <1>2 DEF Settings!ServerDoes, SettingsOpType, Settings!Modes
  <2> QED
    BY <1>1, <2>1, SettingsNewRow DEF Settings!NewVersion
<1>3. CASE o.kind = "dry_run"
  <2>1. PICK dry \in {"ok", "bad"} : settingsRows' = [settingsRows EXCEPT ![s].dry = dry]
    BY <1>3 DEF Settings!ServerDoes
  <2>2. UNCHANGED <<shadows, polled>>
    BY <1>3 DEF Settings!ServerDoes
  <2> HIDE DEF s
  <2>3. settingsRows' \in [Sources -> SettingsRowType(Settings!Versions)]
    BY <1>1, <2>1 DEF SettingsServerType, SettingsRowType
  <2> QED
    BY <1>1, <2>2, <2>3 DEF SettingsServerType
<1>4. CASE o.kind = "activate"
  <2>1. Settings!NewVersion(s, "active", "ok") /\ "active" \in Settings!Modes
    BY <1>4 DEF Settings!ServerDoes, Settings!Modes
  <2> QED
    BY <1>1, <2>1, SettingsNewRow DEF Settings!NewVersion
<1>5. CASE o.kind = "rollback"
  <2>1. PICK mode \in Settings!Modes : Settings!NewVersion(s, mode, "none")
    BY <1>5 DEF Settings!ServerDoes, Settings!Modes
  <2> QED
    BY <1>1, <2>1, SettingsNewRow DEF Settings!NewVersion
<1>6. CASE o.kind \notin {"save", "dry_run", "activate", "rollback"}
  <2>1. UNCHANGED Settings!serverVars
    BY <1>6 DEF Settings!ServerDoes
  <2> QED
    BY <1>1, <2>1 DEF Settings!serverVars, SettingsServerType
<1> QED
  BY <1>2, <1>3, <1>4, <1>5, <1>6

(* An operation is answered, or ends. *)
LEMMA SettingsOpSteps ==
  ASSUME MaxVersion \in Nat, SettingsInv, NEW o \in ops,
           Settings!Answered(o) \/ Settings!Ends(o)
  PROVE  SettingsInv'
<1> USE DEF Settings!serverVars, Settings!Unlisted
<1>1. /\ o \in SettingsOpType /\ ops \in SUBSET SettingsOpType
      /\ settingsLoads \in Seq(SettingsLoadType)
  BY DEF SettingsInv, SettingsTypeInv, SettingsCallsType
<1>2. CASE Settings!Answered(o)
  <2>1. /\ Settings!ServerDoes(o, o.source)
        /\ histories' = [histories EXCEPT ![o.source] = histories[o.source] \/
                         o.kind = "history"]
        /\ UNCHANGED <<items, evidence>>
    BY <1>2 DEF Settings!Answered
  <2>2. SettingsServerType' /\ UNCHANGED shadows
    BY <1>1, <2>1, SettingsServerObeys
  <2>3. histories' \in [Sources -> BOOLEAN]
    BY <1>1, <2>1 DEF SettingsInv, SettingsTypeInv, SettingsPageType, SettingsOpType
  <2>4. CASE Settings!Reloads(o.kind)
    <3> DEFINE q == [o EXCEPT !.stage = "load", !.load = Len(settingsLoads) + 1]
    <3>1. /\ settingsLoads' = Append(settingsLoads, Settings!NewLoad)
          /\ settingsBusy' = settingsBusy
          /\ ops' = (ops \ {o}) \cup {q}
      BY <1>2, <2>4 DEF Settings!Answered
    <3>2. q \in SettingsOpType
      <4>1. Len(settingsLoads) + 1 \in Nat
        BY <1>1
      <4> QED
        BY <1>1, <4>1 DEF SettingsOpType
    <3> HIDE DEF q
    <3>3. Settings!NewLoad \in SettingsLoadType /\ SettingsProven(Settings!NewLoad.shadows)
      BY SettingsNothingKnown DEF SettingsProven
    <3>4. SettingsCallsType'
      <4>1. settingsLoads' \in Seq(SettingsLoadType)
        BY <1>1, <3>1, <3>3
      <4>2. ops' \in SUBSET SettingsOpType
        BY <1>1, <3>1, <3>2
      <4> QED
        BY <4>1, <4>2 DEF SettingsCallsType
    <3>5. SettingsPageType'
      BY <2>1, <2>3, <3>1 DEF SettingsInv, SettingsTypeInv, SettingsPageType
    <3>6. SettingsLoadsAreProven'
      <4>1. \A l \in DOMAIN settingsLoads' : settingsLoads'[l] = Settings!NewLoad \/
              (l \in DOMAIN settingsLoads /\ settingsLoads'[l] = settingsLoads[l])
        BY <1>1, <3>1, <3>3
      <4> QED
        BY <2>2, <3>3, <4>1 DEF SettingsInv, SettingsLoadsAreProven, SettingsProven
    <3> QED
      BY <2>1, <2>2, <3>4, <3>5, <3>6 DEF SettingsInv, SettingsTypeInv, SettingsProven,
             SettingsEvidenceIsProven
  <2>5. CASE ~Settings!Reloads(o.kind)
    <3>1. ops' = ops \ {o} /\ settingsBusy' = "none" /\ settingsLoads' = settingsLoads
      BY <1>2, <2>5 DEF Settings!Answered
    <3>2. SettingsTypeInv'
      BY <1>1, <2>1, <2>2, <2>3, <3>1 DEF SettingsInv, SettingsTypeInv, SettingsPageType,
             SettingsCallsType
    <3> QED
      BY <2>1, <2>2, <3>1, <3>2, SettingsEntriesStay
  <2> QED
    BY <2>4, <2>5
<1>3. CASE Settings!Ends(o)
  <2>1. /\ ops' = ops \ {o} /\ settingsBusy' = "none"
        /\ UNCHANGED <<Settings!serverVars, histories, settingsLoads, items, evidence>>
    BY <1>3 DEF Settings!Ends
  <2>2. SettingsTypeInv'
    BY <2>1 DEF SettingsInv, SettingsTypeInv, SettingsServerType, SettingsPageType,
           SettingsCallsType
  <2> QED
    BY <2>1, <2>2, SettingsEntriesStay
<1> QED
  BY <1>2, <1>3

\* Editing, importing, checking, activating and reading again.
LEMMA SettingsStepInv ==
  ASSUME MaxVersion \in Nat
  PROVE  SettingsInv /\ [Settings!Next]_(Settings!settingsVars) => SettingsInv'
<1> SUFFICES ASSUME SettingsInv, [Settings!Next]_(Settings!settingsVars) PROVE SettingsInv'
  OBVIOUS
<1>1. ASSUME NEW s \in Sources,
             \/ \E mode \in {"disabled", "dry_run"} : Settings!OtherSaves(s, mode) \/
                  Settings!PatchMode(s, mode)
             \/ \E good \in BOOLEAN : Settings!WorkerPolls(s, good) \/
                  \E v \in Settings!Versions : Settings!WorkerShadow(s, v, good)
             \/ \E kind \in Settings!Kinds : Settings!Run(s, kind)
             \/ Settings!FillApproval(s)
      PROVE  SettingsInv'
  BY <1>1, SettingsServerSteps, SettingsPageSteps
<1>2. ASSUME NEW l \in 1..MaxSettingsLoads,
             \/ Settings!ApplySettings(l) \/ Settings!HealthAnswered(l) \/
                  Settings!ReadFails(l) \/ Settings!ApplyEvidence(l) \/ Settings!LoadFails(l)
             \/ \E s \in Sources : Settings!HistoryAnswered(l, s)
      PROVE  SettingsInv'
  BY <1>2, SettingsLoadSteps
<1>3. ASSUME NEW o \in ops, Settings!Answered(o) \/ Settings!Ends(o) PROVE SettingsInv'
  BY <1>3, SettingsOpSteps
<1>4. CASE Settings!PreviewWorkbook \/ Settings!WorkbookAnswered
  BY <1>4, SettingsPageSteps
<1>5. CASE UNCHANGED Settings!settingsVars
  <2>1. UNCHANGED <<settingsRows, shadows, polled, items, evidence, histories,
                    settingsBusy, settingsLoads, ops>>
    BY <1>5 DEF Settings!settingsVars, Settings!serverVars, Settings!pageVars
  <2>2. SettingsTypeInv'
    BY <2>1 DEF SettingsInv, SettingsTypeInv, SettingsServerType, SettingsPageType,
           SettingsCallsType
  <2> QED
    BY <2>1, <2>2, SettingsEntriesStay
<1> QED
  BY <1>1, <1>2, <1>3, <1>4, <1>5 DEF Settings!Next

\* The type that the runs check.
LEMMA SettingsIsTyped == SettingsInv => Settings!TypeOK
<1> SUFFICES ASSUME SettingsInv PROVE Settings!TypeOK
  OBVIOUS
<1>1. ASSUME NEW s \in Sources
      PROVE  /\ settingsRows[s].mode \in Settings!Modes
             /\ settingsRows[s].version \in Settings!Versions
             /\ items[s].mode \in Settings!Modes /\ items[s].version \in 0..MaxVersion
             /\ evidence[s].polled \in 0..MaxVersion /\ histories[s] \in BOOLEAN
  BY DEF SettingsInv, SettingsTypeInv, SettingsServerType, SettingsPageType, SettingsRowType,
         SettingsEvidenceType
<1>2. \A o \in ops : o.kind \in Settings!Kinds
  BY DEF SettingsInv, SettingsTypeInv, SettingsCallsType, SettingsOpType
<1> QED
  BY <1>1, <1>2 DEF Settings!TypeOK, SettingsInv, SettingsTypeInv, SettingsPageType

\* An activation is offered with a proven version only
\* (activationReadiness).
LEMMA SettingsIsProven == SettingsInv => Settings!ReadyIsProven
<1> SUFFICES ASSUME SettingsInv, NEW s \in Sources, Settings!CanActivate(s)
             PROVE  shadows[s][items[s].version] = "zero"
  BY DEF Settings!ReadyIsProven
<1>1. items[s].version # 0 /\ evidence[s].shadow[items[s].version] = "zero"
  BY DEF Settings!CanActivate, Settings!Ready, Settings!ShadowIsProven
<1>2. items[s].version \in 0..MaxVersion
  BY DEF SettingsInv, SettingsTypeInv, SettingsPageType, SettingsRowType
<1>3. items[s].version \in Settings!Versions
  BY <1>1, <1>2 DEF Settings!Versions
<1> QED
  BY <1>1, <1>3 DEF SettingsInv, SettingsEvidenceIsProven

---------------------------------------------------------------------------
(* BmkgWarnings: calm is said of feeds that were read                        *)

(* A load in flight. *)
WarningsLoadType ==
  [state : {"idle", "asked", "settled"}, answered : SUBSET Warnings!Endpoints,
   items : [Warnings!Endpoints -> SUBSET Advisories], on : BOOLEAN]

(* An endpoint that failed in the last load and was ever loaded is marked.   *)
WarningsFailedIsUncertain == errors \cap loaded \subseteq uncertain

WarningsInv == Warnings!TypeOK /\ flight \in WarningsLoadType /\ WarningsFailedIsUncertain

(* The loads of the hook are loads. *)
LEMMA WarningsLoads ==
  /\ Warnings!Idle \in WarningsLoadType /\ Warnings!Asked \in WarningsLoadType
  /\ \A answered \in SUBSET Warnings!Endpoints,
       shown \in [Warnings!Endpoints -> SUBSET Advisories], on \in BOOLEAN :
       Warnings!Load("settled", answered, shown, on) \in WarningsLoadType
<1>1. Warnings!NoItems \in [Warnings!Endpoints -> SUBSET Advisories]
  BY DEF Warnings!NoItems
<1> HIDE DEF Warnings!NoItems
<1>2. QED
  BY <1>1 DEF Warnings!Idle, Warnings!Asked, Warnings!Load, WarningsLoadType

\* The panel as it is opened.
LEMMA WarningsInitInv == ASSUME Warnings!PanelAssumption PROVE Warnings!Init => WarningsInv
<1> SUFFICES ASSUME Warnings!Init PROVE WarningsInv
  OBVIOUS
<1>1. Warnings!TypeOK
  <2>1. /\ warningsClock \in 0..MaxClock /\ changes \in 0..MaxWarningChanges
        /\ now \in 0..warningsClock /\ due \in Nat
    BY DEF Warnings!Init, Warnings!PanelAssumption
  <2>2. warningsRows \in [Warnings!Endpoints -> SUBSET Advisories]
    BY DEF Warnings!Init
  <2>3. QED
    BY <2>1, <2>2 DEF Warnings!Init, Warnings!TypeOK
<1>2. flight \in WarningsLoadType
  BY WarningsLoads DEF Warnings!Init
<1>3. QED
  BY <1>1, <1>2 DEF WarningsInv, Warnings!Init, WarningsFailedIsUncertain

(* A reload begins a load or leaves the one in flight. *)
LEMMA WarningsReloads ==
  ASSUME Warnings!Reload, flight \in WarningsLoadType
  PROVE  flight' \in WarningsLoadType
BY WarningsLoads DEF Warnings!Reload

(* The handlers that only ask for a load. *)
LEMMA WarningsOnlyReloads ==
  ASSUME WarningsInv, Warnings!Reload, hidden' \in BOOLEAN,
           UNCHANGED <<warningsClock, Warnings!source, due, Warnings!held, now>>
  PROVE  WarningsInv'
<1>1. flight' \in WarningsLoadType
  BY WarningsReloads DEF WarningsInv
<1>2. QED
  BY <1>1 DEF WarningsInv, Warnings!TypeOK, WarningsFailedIsUncertain, Warnings!source,
         Warnings!held

\* Loads, answers of either feed in any order, failures, the clock and the
\* hidden tab.
LEMMA WarningsStepInv ==
  ASSUME Warnings!PanelAssumption
  PROVE  WarningsInv /\ [Warnings!Next]_(Warnings!bmkgVars) => WarningsInv'
<1> SUFFICES ASSUME WarningsInv, [Warnings!Next]_(Warnings!bmkgVars) PROVE WarningsInv'
  OBVIOUS
<1> USE DEF Warnings!source, Warnings!held
<1>1. ASSUME NEW answered \in SUBSET Warnings!Endpoints, Warnings!Serve(answered)
      PROVE WarningsInv'
  <2> DEFINE shown == [e \in Warnings!Endpoints |-> IF e \in answered THEN Warnings!Answer(e)
                                                                      ELSE {}]
             on == "observations" \in answered /\ integrated
  <2>1. shown \in [Warnings!Endpoints -> SUBSET Advisories]
    BY DEF WarningsInv, Warnings!TypeOK, Warnings!Answer, Warnings!ActiveAt
  <2>2. on \in BOOLEAN
    BY DEF WarningsInv, Warnings!TypeOK
  <2>3. flight' = Warnings!Load("settled", answered, shown, on)
    BY <1>1 DEF Warnings!Serve
  <2> HIDE DEF shown, on
  <2>4. flight' \in WarningsLoadType
    BY <2>1, <2>2, <2>3, WarningsLoads
  <2>5. QED
    BY <1>1, <2>4 DEF Warnings!Serve, WarningsInv, Warnings!TypeOK, WarningsFailedIsUncertain
<1>2. CASE Warnings!Settle
  <2>1. /\ flight.answered \in SUBSET Warnings!Endpoints
        /\ flight.items \in [Warnings!Endpoints -> SUBSET Advisories]
    BY DEF WarningsInv, WarningsLoadType
  <2>2. warningsRows' \in [Warnings!Endpoints -> SUBSET Advisories]
    BY <1>2, <2>1 DEF Warnings!Settle, Warnings!Merged, WarningsInv, Warnings!TypeOK
  <2>3. /\ loaded' = loaded \cup flight.answered
        /\ uncertain' = (Warnings!Endpoints \ flight.answered) \cap loaded
        /\ errors' = Warnings!Endpoints \ flight.answered
        /\ warningsLoading' = FALSE
        /\ warningsActive' \in {warningsActive, "active", "inactive"}
        /\ flight' = Warnings!Idle
        /\ UNCHANGED <<warningsClock, Warnings!source, hidden, due, now>>
    BY <1>2 DEF Warnings!Settle
  <2>4. Warnings!TypeOK'
    BY <2>1, <2>2, <2>3 DEF WarningsInv, Warnings!TypeOK
  <2>5. WarningsFailedIsUncertain'
    BY <2>1, <2>3 DEF WarningsFailedIsUncertain
  <2>6. QED
    BY <2>3, <2>4, <2>5, WarningsLoads DEF WarningsInv
<1>3. CASE Warnings!Tick
  <2>1. flight' \in WarningsLoadType
    BY <1>3, WarningsReloads DEF Warnings!Tick, WarningsInv
  <2>2. now' \in 0..warningsClock
    BY <1>3 DEF Warnings!Tick, WarningsInv, Warnings!TypeOK
  <2>3. due' \in Nat
    BY <1>3 DEF Warnings!Tick, WarningsInv, Warnings!TypeOK, Warnings!PanelAssumption
  <2>4. QED
    BY <1>3, <2>1, <2>2, <2>3 DEF Warnings!Tick, WarningsInv, Warnings!TypeOK,
           WarningsFailedIsUncertain
<1>4. CASE Warnings!Hide
  BY <1>4 DEF Warnings!Hide, WarningsInv, Warnings!TypeOK, WarningsFailedIsUncertain
<1>5. CASE Warnings!Show
  BY <1>5, WarningsOnlyReloads DEF Warnings!Show
<1>6. CASE Warnings!DashboardRefresh
  BY <1>6, WarningsOnlyReloads DEF Warnings!DashboardRefresh, WarningsInv, Warnings!TypeOK
<1>7. ASSUME NEW tab \in Warnings!Feeds, Warnings!Retry(tab) PROVE WarningsInv'
  BY <1>7, WarningsOnlyReloads DEF Warnings!Retry, WarningsInv, Warnings!TypeOK
<1>8. CASE Warnings!Remount
  <2>1. Warnings!TypeOK'
    BY <1>8 DEF Warnings!Remount, WarningsInv, Warnings!TypeOK, Warnings!PanelAssumption
  <2>2. QED
    BY <1>8, <2>1, WarningsLoads DEF Warnings!Remount, WarningsInv, WarningsFailedIsUncertain
<1>9. CASE Warnings!Pass
  <2>1. warningsClock' \in 0..MaxClock /\ now' \in 0..warningsClock'
    BY <1>9 DEF Warnings!Pass, WarningsInv, Warnings!TypeOK, Warnings!PanelAssumption
  <2>2. QED
    BY <1>9, <2>1 DEF Warnings!Pass, WarningsInv, Warnings!TypeOK, WarningsFailedIsUncertain
<1>10. CASE Warnings!Integrate
  <2>1. changes' \in 0..MaxWarningChanges
    BY <1>10 DEF Warnings!Integrate, WarningsInv, Warnings!TypeOK, Warnings!PanelAssumption
  <2>2. QED
    BY <1>10, <2>1 DEF Warnings!Integrate, WarningsInv, Warnings!TypeOK,
           WarningsFailedIsUncertain
<1>11. ASSUME NEW i \in Advisories, Warnings!Issue(i) PROVE WarningsInv'
  <2>1. changes' \in 0..MaxWarningChanges
    BY <1>11 DEF Warnings!Issue, WarningsInv, Warnings!TypeOK, Warnings!PanelAssumption
  <2>2. QED
    BY <1>11, <2>1 DEF Warnings!Issue, WarningsInv, Warnings!TypeOK, WarningsFailedIsUncertain
<1>12. CASE UNCHANGED Warnings!bmkgVars
  BY <1>12 DEF Warnings!bmkgVars, WarningsInv, Warnings!TypeOK, WarningsFailedIsUncertain
<1>13. QED
  BY <1>1, <1>2, <1>3, <1>4, <1>5, <1>6, <1>7, <1>8, <1>9, <1>10, <1>11, <1>12 DEF Warnings!Next

(* What the panel calls calm was answered by every endpoint of the tab. *)
LEMMA WarningsIsCalm == WarningsInv => Warnings!CalmIsConfirmed
BY DEF WarningsInv, WarningsFailedIsUncertain, Warnings!CalmIsConfirmed, Warnings!SaysEmpty,
       Warnings!SaysError, Warnings!Feeds,
       Warnings!WeatherConfirmedEmpty, Warnings!AirConfirmedEmpty

---------------------------------------------------------------------------
(* BriefingStream: text stands under what it answers                         *)

BriefingBounds == MaxStreams \in Nat /\ MaxSignings \in Nat
BriefingPhases == {"asked", "working", "prompted", "fallback", "final", "ended"}
BriefingStream ==
  [phase : BriefingPhases, context : SUBSET (Briefing!Required \cup Briefing!Optional),
   closed : BOOLEAN]
BriefingTexts == [of : 0..MaxStreams, mode : {"none", "ai", "cache", "fallback"}]

BriefingTypeInv ==
  /\ signed \in BOOLEAN /\ cached \in BOOLEAN /\ briefingSwitches \in 0..MaxSignings
  /\ streams \in Seq(BriefingStream) /\ Len(streams) <= MaxStreams
  /\ briefingActive \in {0, Len(streams)}
  /\ ai \in [loading : BOOLEAN, error : BOOLEAN]
  /\ live \in BriefingTexts /\ aiBriefing \in BriefingTexts

(* The stream that the page follows is the open one, and goes on. *)
BriefingFollowedIsOpen ==
  \A i \in DOMAIN streams :
    IF i = briefingActive THEN ~streams[i].closed /\ streams[i].phase # "ended"
    ELSE streams[i].closed

(* No final text is shown before the stream that is open has sent its own.   *)
BriefingNoTextYet ==
  \A i \in DOMAIN streams : streams[i].closed \/ streams[i].phase = "final" \/
    aiBriefing = Briefing!NoText

BriefingPromptHasContext ==
  \A i \in DOMAIN streams : streams[i].phase = "prompted" =>
    Briefing!Required \subseteq streams[i].context

BriefingTextOfLast ==
  aiBriefing.mode # "none" => aiBriefing.of = Len(streams) /\ aiBriefing.of \in DOMAIN streams

BriefingInv ==
  /\ BriefingTypeInv /\ BriefingFollowedIsOpen /\ BriefingNoTextYet /\ BriefingPromptHasContext
  /\ BriefingTextOfLast
  /\ Briefing!TextIsOfItsRequest /\ Briefing!AiTextHasContext /\ Briefing!LoadingHasStream

\* A stream in another phase.
LEMMA BriefingPhaseOf ==
  ASSUME NEW r \in BriefingStream, NEW p \in BriefingPhases
  PROVE  /\ [r EXCEPT !.phase = p] \in BriefingStream
         /\ [r EXCEPT !.phase = p].phase = p
         /\ [r EXCEPT !.phase = p].context = r.context
         /\ (~r.closed => ~[r EXCEPT !.phase = p].closed)
BY DEF BriefingStream

\* A stream that was closed.
LEMMA BriefingClosedOf ==
  ASSUME NEW r \in BriefingStream
  PROVE  /\ [r EXCEPT !.closed = TRUE] \in BriefingStream
         /\ [r EXCEPT !.closed = TRUE].phase = r.phase
         /\ [r EXCEPT !.closed = TRUE].context = r.context
         /\ [r EXCEPT !.closed = TRUE].closed
BY DEF BriefingStream

\* A stream with what was read for it.
LEMMA BriefingContextOf ==
  ASSUME NEW r \in BriefingStream, NEW c \in SUBSET (Briefing!Required \cup Briefing!Optional)
  PROVE  /\ [r EXCEPT !.context = c] \in BriefingStream
         /\ [r EXCEPT !.context = c].context = c
         /\ [r EXCEPT !.context = c].phase = r.phase
         /\ (~r.closed => ~[r EXCEPT !.context = c].closed)
BY DEF BriefingStream

(* One stream of the sequence is changed. *)
LEMMA BriefingOneChanges ==
  ASSUME NEW S, NEW s \in Seq(S), NEW i \in DOMAIN s, NEW e \in S
  PROVE  /\ [s EXCEPT ![i] = e] \in Seq(S) /\ Len([s EXCEPT ![i] = e]) = Len(s)
         /\ [s EXCEPT ![i] = e][i] = e
         /\ \A j \in DOMAIN s : j # i => [s EXCEPT ![i] = e][j] = s[j]
         /\ s[i] \in S /\ i \in 1..Len(s) /\ DOMAIN s = 1..Len(s)
OBVIOUS

\* A stream goes to another phase, the others stay.
LEMMA BriefingMovedTo ==
  ASSUME streams \in Seq(BriefingStream), NEW i \in DOMAIN streams, NEW p \in BriefingPhases
  PROVE  /\ Briefing!Moved(i, p) \in Seq(BriefingStream)
         /\ Len(Briefing!Moved(i, p)) = Len(streams)
         /\ Briefing!Moved(i, p)[i].phase = p
         /\ Briefing!Moved(i, p)[i].context = streams[i].context
         /\ (~streams[i].closed => ~Briefing!Moved(i, p)[i].closed)
         /\ \A j \in 1..Len(streams) : j # i => Briefing!Moved(i, p)[j] = streams[j]
<1> DEFINE r == streams[i]
           e == [r EXCEPT !.phase = p]
<1>1. r \in BriefingStream
  OBVIOUS
<1>2. e \in BriefingStream /\ e.phase = p /\ e.context = r.context /\ (~r.closed => ~e.closed)
  BY <1>1, BriefingPhaseOf, Zenon
<1>3. Briefing!Moved(i, p) = [streams EXCEPT ![i] = e]
  BY DEF Briefing!Moved
<1> HIDE DEF e
<1>4. /\ Briefing!Moved(i, p) \in Seq(BriefingStream)
      /\ Len(Briefing!Moved(i, p)) = Len(streams) /\ Briefing!Moved(i, p)[i] = e
      /\ \A j \in 1..Len(streams) : j # i => Briefing!Moved(i, p)[j] = streams[j]
  BY <1>2, <1>3, BriefingOneChanges
<1>5. QED
  BY <1>2, <1>4, Zenon

\* A stream ends and is closed, the others stay.
LEMMA BriefingEndedTo ==
  ASSUME streams \in Seq(BriefingStream), NEW i \in DOMAIN streams
  PROVE  /\ [Briefing!Moved(i, "ended") EXCEPT ![i].closed = TRUE] \in Seq(BriefingStream)
         /\ Len([Briefing!Moved(i, "ended") EXCEPT ![i].closed = TRUE]) = Len(streams)
         /\ [Briefing!Moved(i, "ended") EXCEPT ![i].closed = TRUE][i].phase = "ended"
         /\ [Briefing!Moved(i, "ended") EXCEPT ![i].closed = TRUE][i].context =
              streams[i].context
         /\ [Briefing!Moved(i, "ended") EXCEPT ![i].closed = TRUE][i].closed
         /\ \A j \in 1..Len(streams) :
              j # i => [Briefing!Moved(i, "ended") EXCEPT ![i].closed = TRUE][j] = streams[j]
<1> DEFINE m == Briefing!Moved(i, "ended")
           r == m[i]
           e == [r EXCEPT !.closed = TRUE]
<1>1. "ended" \in BriefingPhases
  BY DEF BriefingPhases
<1>2. /\ m \in Seq(BriefingStream) /\ Len(m) = Len(streams) /\ r.phase = "ended"
      /\ r.context = streams[i].context
      /\ \A j \in 1..Len(streams) : j # i => m[j] = streams[j]
  BY <1>1, BriefingMovedTo
<1>3. i \in DOMAIN m /\ r \in BriefingStream
  BY <1>2
<1>4. e \in BriefingStream /\ e.phase = r.phase /\ e.context = r.context /\ e.closed
  BY <1>3, BriefingClosedOf, Zenon
<1>5. [Briefing!Moved(i, "ended") EXCEPT ![i].closed = TRUE] = [m EXCEPT ![i] = e]
  OBVIOUS
<1> HIDE DEF m, e
<1>6. /\ [m EXCEPT ![i] = e] \in Seq(BriefingStream) /\ Len([m EXCEPT ![i] = e]) = Len(m)
      /\ [m EXCEPT ![i] = e][i] = e /\ DOMAIN m = 1..Len(m)
      /\ \A j \in DOMAIN m : j # i => [m EXCEPT ![i] = e][j] = m[j]
  BY <1>2, <1>3, <1>4, BriefingOneChanges
<1>7. QED
  BY <1>2, <1>4, <1>5, <1>6

\* A stream has its context, the others stay.
LEMMA BriefingGatheredTo ==
  ASSUME streams \in Seq(BriefingStream), NEW i \in DOMAIN streams,
           NEW c \in SUBSET (Briefing!Required \cup Briefing!Optional),
         streams' = [Briefing!Moved(i, "prompted") EXCEPT ![i].context = c]
  PROVE  /\ streams' \in Seq(BriefingStream) /\ Len(streams') = Len(streams)
         /\ streams'[i].phase = "prompted" /\ streams'[i].context = c
         /\ (~streams[i].closed => ~streams'[i].closed)
         /\ \A j \in 1..Len(streams) : j # i => streams'[j] = streams[j]
<1> DEFINE m == Briefing!Moved(i, "prompted")
           r == m[i]
           e == [r EXCEPT !.context = c]
<1>1. "prompted" \in BriefingPhases
  BY DEF BriefingPhases
<1>2. /\ m \in Seq(BriefingStream) /\ Len(m) = Len(streams) /\ r.phase = "prompted"
      /\ (~streams[i].closed => ~r.closed)
      /\ \A j \in 1..Len(streams) : j # i => m[j] = streams[j]
  BY <1>1, BriefingMovedTo
<1>3. i \in DOMAIN m /\ r \in BriefingStream
  BY <1>2
<1>4. e \in BriefingStream /\ e.phase = r.phase /\ e.context = c /\ (~r.closed => ~e.closed)
  BY <1>3, BriefingContextOf, Zenon
<1>5. streams' = [m EXCEPT ![i] = e]
  OBVIOUS
<1> HIDE DEF m, e
<1>6. /\ [m EXCEPT ![i] = e] \in Seq(BriefingStream) /\ Len([m EXCEPT ![i] = e]) = Len(m)
      /\ [m EXCEPT ![i] = e][i] = e /\ DOMAIN m = 1..Len(m)
      /\ \A j \in DOMAIN m : j # i => [m EXCEPT ![i] = e][j] = m[j]
  BY <1>2, <1>3, <1>4, BriefingOneChanges
<1>7. QED
  BY <1>2, <1>4, <1>5, <1>6, Zenon

(* Closing the stream that is followed closes all of them. *)
LEMMA BriefingStopped ==
  ASSUME streams \in Seq(BriefingStream), BriefingFollowedIsOpen
  PROVE  /\ Briefing!StopAiStream \in Seq(BriefingStream)
         /\ Len(Briefing!StopAiStream) = Len(streams)
         /\ \A j \in DOMAIN streams :
              /\ Briefing!StopAiStream[j].closed /\ Briefing!StopAiStream[j] \in BriefingStream
              /\ Briefing!StopAiStream[j].phase = streams[j].phase
              /\ Briefing!StopAiStream[j].context = streams[j].context
<1>1. DOMAIN Briefing!StopAiStream = DOMAIN streams /\ DOMAIN streams = 1..Len(streams)
  BY DEF Briefing!StopAiStream
<1>2. ASSUME NEW j \in DOMAIN streams
      PROVE  /\ Briefing!StopAiStream[j].closed /\ Briefing!StopAiStream[j] \in BriefingStream
             /\ Briefing!StopAiStream[j].phase = streams[j].phase
             /\ Briefing!StopAiStream[j].context = streams[j].context
  <2>1. streams[j] \in BriefingStream
    OBVIOUS
  <2>2. CASE j = briefingActive
    <3>1. Briefing!StopAiStream[j] = [streams[j] EXCEPT !.closed = TRUE]
      BY <2>2 DEF Briefing!StopAiStream
    <3>2. QED
      BY <2>1, <3>1, BriefingClosedOf, Zenon
  <2>3. CASE j # briefingActive
    <3>1. Briefing!StopAiStream[j] = streams[j]
      BY <2>3 DEF Briefing!StopAiStream
    <3>2. QED
      BY <2>1, <2>3, <3>1 DEF BriefingFollowedIsOpen
  <2>4. QED
    BY <2>2, <2>3
<1>3. Briefing!StopAiStream \in [1..Len(streams) -> BriefingStream]
  <2>1. Briefing!StopAiStream = [j \in DOMAIN streams |-> Briefing!StopAiStream[j]]
    BY DEF Briefing!StopAiStream
  <2>2. QED
    BY <1>1, <1>2, <2>1
<1>4. QED
  BY <1>2, <1>3

\* The page as it is opened.
LEMMA BriefingInitInv == ASSUME BriefingBounds PROVE Briefing!Init => BriefingInv
<1> SUFFICES ASSUME Briefing!Init PROVE BriefingInv
  OBVIOUS
<1>1. /\ briefingSwitches = 0 /\ streams = <<>> /\ briefingActive = 0 /\ live = Briefing!NoText
      /\ aiBriefing = Briefing!NoText
      /\ ai = [loading |-> FALSE, error |-> FALSE]
  BY DEF Briefing!Init
<1>2. signed \in BOOLEAN /\ cached \in BOOLEAN /\ ~signed /\ ~ai.loading
  BY Zenon DEF Briefing!Init
<1>3. ai \in [loading : BOOLEAN, error : BOOLEAN]
  BY <1>1
<1>4. Len(streams) = 0 /\ DOMAIN streams = {} /\ streams \in Seq(BriefingStream)
  BY <1>1
<1>5. /\ Briefing!NoText \in BriefingTexts /\ Briefing!NoText.mode = "none"
      /\ Briefing!NoText.of = 0
  BY DEF Briefing!NoText, BriefingTexts, BriefingBounds
<1>6. briefingSwitches \in 0..MaxSignings /\ Len(streams) <= MaxStreams
  BY <1>1, <1>4 DEF BriefingBounds
<1>7. BriefingTypeInv
  BY <1>1, <1>2, <1>3, <1>4, <1>5, <1>6 DEF BriefingTypeInv
<1>8. /\ BriefingFollowedIsOpen /\ BriefingNoTextYet /\ BriefingPromptHasContext
      /\ BriefingTextOfLast
      /\ Briefing!TextIsOfItsRequest /\ Briefing!AiTextHasContext /\ Briefing!LoadingHasStream
  BY <1>1, <1>2, <1>4, <1>5
     DEF BriefingFollowedIsOpen, BriefingNoTextYet, BriefingPromptHasContext,
           BriefingTextOfLast,
         Briefing!TextIsOfItsRequest, Briefing!AiTextHasContext, Briefing!LoadingHasStream
<1>9. QED
  BY <1>7, <1>8 DEF BriefingInv

(* The open stream goes on: its phase is another, and either no text is      *)
(* final yet and no final one is shown, or its final text is.                *)
LEMMA BriefingGoes ==
  ASSUME BriefingBounds, BriefingInv, NEW i \in DOMAIN streams, ~streams[i].closed,
           NEW m \in {"ai", "cache", "fallback"},
         streams' \in Seq(BriefingStream), Len(streams') = Len(streams), ~streams'[i].closed,
         streams'[i].phase # "ended", streams'[i].phase = "prompted" => Briefing!Required \subseteq streams'[i].context,
         \A j \in 1..Len(streams) : j # i => streams'[j] = streams[j],
         UNCHANGED <<signed, briefingSwitches, ai, briefingActive>>, cached' \in BOOLEAN,
         \/ /\ streams[i].phase # "final" /\ aiBriefing' = aiBriefing
            /\ live' = live \/ live' = [of |-> i, mode |-> m]
         \/ /\ streams'[i].phase = "final" /\ live' = [of |-> i, mode |-> m]
            /\ aiBriefing' = live'
            /\ m = "ai" => Briefing!Required \subseteq streams'[i].context
  PROVE  BriefingInv'
<1>1. i = briefingActive /\ i = Len(streams) /\ i \in 1..MaxStreams /\ i \in 1..Len(streams)
  BY DEF BriefingInv, BriefingTypeInv, BriefingFollowedIsOpen, BriefingBounds
<1>2. DOMAIN streams' = 1..Len(streams) /\ DOMAIN streams = 1..Len(streams)
  BY DEF BriefingInv, BriefingTypeInv
<1>3. /\ [of |-> i, mode |-> m] \in BriefingTexts /\ [of |-> i, mode |-> m].of = i
      /\ [of |-> i, mode |-> m].mode = m
  BY <1>1 DEF BriefingTexts
<1>4. /\ Briefing!NoText \in BriefingTexts /\ Briefing!NoText.of = 0
      /\ Briefing!NoText.mode = "none"
  BY DEF Briefing!NoText, BriefingTexts, BriefingBounds
<1>5. streams[i].phase # "final" => aiBriefing = Briefing!NoText
  BY DEF BriefingInv, BriefingNoTextYet
<1>6. live' \in BriefingTexts /\ aiBriefing' \in BriefingTexts
  BY <1>3 DEF BriefingInv, BriefingTypeInv
<1>7. BriefingTypeInv'
  <2>1. /\ signed' \in BOOLEAN /\ briefingSwitches' \in 0..MaxSignings
        /\ ai' \in [loading : BOOLEAN, error : BOOLEAN]
    BY DEF BriefingInv, BriefingTypeInv
  <2>2. Len(streams') <= MaxStreams /\ briefingActive' \in {0, Len(streams')}
    BY DEF BriefingInv, BriefingTypeInv
  <2>3. QED
    BY <1>6, <2>1, <2>2 DEF BriefingTypeInv
<1>8. BriefingFollowedIsOpen'
  <2> SUFFICES ASSUME NEW j \in DOMAIN streams'
               PROVE  IF j = briefingActive' THEN ~streams'[j].closed /\ streams'[j].phase # "ended"
                      ELSE streams'[j].closed
    BY DEF BriefingFollowedIsOpen
  <2>1. CASE j = i
    BY <1>1, <2>1
  <2>2. CASE j # i
    <3>1. /\ streams'[j] = streams[j] /\ j # briefingActive /\ briefingActive' = briefingActive
          /\ streams[j].closed
      BY <1>1, <1>2, <2>2 DEF BriefingInv, BriefingFollowedIsOpen
    <3>2. QED
      BY <3>1
  <2>3. QED
    BY <2>1, <2>2
<1>9. BriefingNoTextYet'
  <2> SUFFICES ASSUME NEW j \in DOMAIN streams'
               PROVE  streams'[j].closed \/ streams'[j].phase = "final" \/
                        aiBriefing' = Briefing!NoText
    BY DEF BriefingNoTextYet
  <2>1. CASE j = i
    BY <1>5, <2>1
  <2>2. CASE j # i
    <3>1. streams'[j] = streams[j] /\ streams[j].closed
      BY <1>1, <1>2, <2>2 DEF BriefingInv, BriefingFollowedIsOpen
    <3>2. QED
      BY <3>1
  <2>3. QED
    BY <2>1, <2>2
<1>10. BriefingPromptHasContext'
  <2> SUFFICES ASSUME NEW j \in DOMAIN streams', streams'[j].phase = "prompted"
               PROVE  Briefing!Required \subseteq streams'[j].context
    BY DEF BriefingPromptHasContext
  <2>1. CASE j # i
    BY <1>2, <2>1 DEF BriefingInv, BriefingPromptHasContext
  <2>2. QED
    BY <2>1
<1>11. BriefingTextOfLast' /\ Briefing!LoadingHasStream'
  <2>1. BriefingTextOfLast'
    BY <1>1, <1>2, <1>3, <1>4, <1>5 DEF BriefingTextOfLast
  <2>2. Briefing!LoadingHasStream'
    BY <1>1 DEF BriefingInv, Briefing!LoadingHasStream
  <2>3. QED
    BY <2>1, <2>2
<1>12. Briefing!TextIsOfItsRequest'
  BY <1>1, <1>3, <1>4, <1>5 DEF BriefingInv, Briefing!TextIsOfItsRequest
<1>13. Briefing!AiTextHasContext'
  BY <1>3, <1>4, <1>5 DEF Briefing!AiTextHasContext
<1>14. QED
  BY <1>7, <1>8, <1>9, <1>10, <1>11, <1>12, <1>13 DEF BriefingInv

(* No stream is open any more: what was shown stays, or all of it is taken   *)
(* away.                                                                     *)
LEMMA BriefingRests ==
  ASSUME BriefingBounds, BriefingInv, streams' \in Seq(BriefingStream),
           Len(streams') = Len(streams),
         \A j \in 1..Len(streams) :
           streams'[j].closed /\ streams'[j].context = streams[j].context
           /\ (streams'[j].phase = streams[j].phase \/ streams'[j].phase = "ended"),
         briefingActive' = 0, signed' \in BOOLEAN, cached' \in BOOLEAN,
           briefingSwitches' \in 0..MaxSignings,
         ai' \in [loading : BOOLEAN, error : BOOLEAN],
         ai'.loading => Len(streams) > 0 /\ streams'[Len(streams)].phase # "ended",
         \/ live' = live /\ aiBriefing' = aiBriefing
         \/ live' = Briefing!NoText /\ aiBriefing' = Briefing!NoText
  PROVE  BriefingInv'
<1>1. /\ DOMAIN streams' = 1..Len(streams) /\ DOMAIN streams = 1..Len(streams)
      /\ Len(streams') \in Nat /\ Len(streams') <= MaxStreams
  BY DEF BriefingInv, BriefingTypeInv
<1>2. /\ Briefing!NoText \in BriefingTexts /\ Briefing!NoText.of = 0
      /\ Briefing!NoText.mode = "none"
  BY DEF Briefing!NoText, BriefingTexts, BriefingBounds
<1>3. live' \in BriefingTexts /\ aiBriefing' \in BriefingTexts
  BY <1>2 DEF BriefingInv, BriefingTypeInv
<1>4. BriefingTypeInv'
  BY <1>1, <1>3 DEF BriefingTypeInv
<1>5. BriefingFollowedIsOpen'
  BY <1>1 DEF BriefingFollowedIsOpen
<1>6. BriefingNoTextYet'
  BY <1>1 DEF BriefingNoTextYet
<1>7. BriefingPromptHasContext'
  BY <1>1 DEF BriefingInv, BriefingPromptHasContext
<1>8. BriefingTextOfLast' /\ Briefing!TextIsOfItsRequest'
  BY <1>1, <1>2 DEF BriefingInv, BriefingTextOfLast, Briefing!TextIsOfItsRequest
<1>9. Briefing!LoadingHasStream'
  BY <1>1 DEF Briefing!LoadingHasStream
<1>10. Briefing!AiTextHasContext'
  BY <1>1, <1>2 DEF BriefingInv, BriefingTextOfLast, Briefing!AiTextHasContext
<1>11. QED
  BY <1>4, <1>5, <1>6, <1>7, <1>8, <1>9, <1>10 DEF BriefingInv

(* What was shown is taken away and one more stream is open. *)
LEMMA BriefingStarts ==
  ASSUME BriefingBounds, BriefingInv, Briefing!LoadAiBriefing,
           UNCHANGED <<signed, briefingSwitches, cached>>
  PROVE  BriefingInv'
<1> DEFINE n == Len(streams)
<1>1. /\ streams \in Seq(BriefingStream) /\ BriefingFollowedIsOpen /\ n \in Nat
      /\ n < MaxStreams
      /\ DOMAIN streams = 1..n
  BY DEF BriefingInv, BriefingTypeInv, Briefing!LoadAiBriefing
<1>2. /\ Briefing!StopAiStream \in Seq(BriefingStream) /\ Len(Briefing!StopAiStream) = n
      /\ \A j \in 1..n : /\ Briefing!StopAiStream[j].closed /\
                            Briefing!StopAiStream[j].phase = streams[j].phase
                         /\ Briefing!StopAiStream[j].context = streams[j].context
  BY <1>1, BriefingStopped
<1>3. /\ Briefing!NewStream \in BriefingStream /\ Briefing!NewStream.phase = "asked"
      /\ ~Briefing!NewStream.closed
  BY DEF Briefing!NewStream, BriefingStream, BriefingPhases
<1>4. /\ streams' = Append(Briefing!StopAiStream, Briefing!NewStream) /\ briefingActive' = n + 1
      /\ ai' = [loading |-> TRUE, error |-> FALSE] /\ live' = Briefing!NoText
      /\ aiBriefing' = Briefing!NoText
  BY DEF Briefing!LoadAiBriefing
<1>5. /\ streams' \in Seq(BriefingStream) /\ Len(streams') = n + 1
      /\ DOMAIN streams' = 1..(n + 1)
      /\ streams'[n + 1] = Briefing!NewStream
      /\ \A j \in 1..n : streams'[j] = Briefing!StopAiStream[j]
  BY <1>1, <1>2, <1>3, <1>4
<1>6. /\ Briefing!NoText \in BriefingTexts /\ Briefing!NoText.of = 0
      /\ Briefing!NoText.mode = "none"
  BY DEF Briefing!NoText, BriefingTexts, BriefingBounds
<1> HIDE DEF n
<1>7. /\ briefingActive' # 0 /\ briefingActive' \in {0, Len(streams')}
      /\ Len(streams') <= MaxStreams
  BY <1>1, <1>4, <1>5 DEF BriefingBounds
<1>8. BriefingTypeInv'
  <2>1. signed' \in BOOLEAN /\ cached' \in BOOLEAN /\ briefingSwitches' \in 0..MaxSignings
    BY DEF BriefingInv, BriefingTypeInv
  <2>2. ai' \in [loading : BOOLEAN, error : BOOLEAN]
    BY <1>4
  <2>3. QED
    BY <1>4, <1>5, <1>6, <1>7, <2>1, <2>2 DEF BriefingTypeInv
<1>9. BriefingFollowedIsOpen'
  <2> SUFFICES ASSUME NEW j \in DOMAIN streams'
               PROVE  IF j = briefingActive' THEN ~streams'[j].closed /\ streams'[j].phase # "ended"
                      ELSE streams'[j].closed
    BY DEF BriefingFollowedIsOpen
  <2>1. CASE j = n + 1
    BY <1>3, <1>4, <1>5, <2>1
  <2>2. CASE j # n + 1
    <3>1. j \in 1..n
      BY <1>1, <1>5, <2>2
    <3>2. QED
      BY <1>2, <1>4, <1>5, <2>2, <3>1
  <2>3. QED
    BY <2>1, <2>2
<1>10. BriefingNoTextYet'
  BY <1>4 DEF BriefingNoTextYet
<1>11. BriefingPromptHasContext'
  <2> SUFFICES ASSUME NEW j \in DOMAIN streams', streams'[j].phase = "prompted"
               PROVE  Briefing!Required \subseteq streams'[j].context
    BY DEF BriefingPromptHasContext
  <2>1. j # n + 1
    BY <1>3, <1>5
  <2>2. j \in 1..n
    BY <1>1, <1>5, <2>1
  <2>3. QED
    BY <1>1, <1>2, <1>5, <2>2 DEF BriefingInv, BriefingPromptHasContext
<1>12. BriefingTextOfLast' /\ Briefing!TextIsOfItsRequest' /\ Briefing!AiTextHasContext'
  BY <1>4, <1>6 DEF BriefingTextOfLast, Briefing!TextIsOfItsRequest, Briefing!AiTextHasContext
<1>13. Briefing!LoadingHasStream'
  <2>1. ai'.loading
    BY <1>4
  <2>2. QED
    BY <1>7, <2>1 DEF Briefing!LoadingHasStream
<1>14. QED
  BY <1>8, <1>9, <1>10, <1>11, <1>12, <1>13 DEF BriefingInv

\* Loads, presses, accounts, the events of the streams and their ends, in
\* any order.
LEMMA BriefingStepInv ==
  ASSUME BriefingBounds
  PROVE  BriefingInv /\ [Briefing!Next]_(Briefing!briefingVars) => BriefingInv'
<1> SUFFICES ASSUME BriefingInv, [Briefing!Next]_(Briefing!briefingVars) PROVE BriefingInv'
  OBVIOUS
<1>1. /\ streams \in Seq(BriefingStream) /\ DOMAIN streams = 1..Len(streams)
      /\ BriefingFollowedIsOpen
      /\ ai \in [loading : BOOLEAN, error : BOOLEAN] /\ signed \in BOOLEAN /\ cached \in BOOLEAN
      /\ briefingSwitches \in 0..MaxSignings
  BY DEF BriefingInv, BriefingTypeInv
<1>2. /\ Briefing!StopAiStream \in Seq(BriefingStream)
      /\ Len(Briefing!StopAiStream) = Len(streams)
      /\ \A j \in 1..Len(streams) :
            /\ Briefing!StopAiStream[j].closed
            /\ Briefing!StopAiStream[j].phase = streams[j].phase
            /\ Briefing!StopAiStream[j].context = streams[j].context
  BY <1>1, BriefingStopped
<1>3. TRUE \in BOOLEAN /\ FALSE \in BOOLEAN
  OBVIOUS
<1>4. ASSUME UNCHANGED <<signed, briefingSwitches, Briefing!aiVars, Briefing!serverVars>>
      PROVE BriefingInv'
  BY <1>4 DEF Briefing!aiVars, Briefing!serverVars, BriefingInv, BriefingTypeInv,
         BriefingFollowedIsOpen, BriefingNoTextYet, BriefingPromptHasContext,
         BriefingTextOfLast,
      Briefing!TextIsOfItsRequest, Briefing!AiTextHasContext,
        Briefing!LoadingHasStream
<1>5. CASE Briefing!Refresh
  BY <1>4, <1>5 DEF Briefing!Refresh, Briefing!accountVars
<1>6. ASSUME NEW mode \in {"initial", "refresh"}, NEW ok \in BOOLEAN,
               Briefing!BriefingAnswer(mode, ok) PROVE BriefingInv'
  BY <1>4, <1>6 DEF Briefing!BriefingAnswer, Briefing!accountVars
<1>7. CASE Briefing!AutoStart \/ Briefing!HandleAiRefresh \/ Briefing!HandleRefresh
  BY <1>7, BriefingStarts DEF Briefing!AutoStart, Briefing!HandleAiRefresh,
         Briefing!HandleRefresh, Briefing!accountVars
<1>8. CASE Briefing!SignIn
  <2>1. /\ signed' = TRUE /\ briefingSwitches' = briefingSwitches + 1
        /\ UNCHANGED <<Briefing!aiVars, Briefing!serverVars>> /\ briefingSwitches < MaxSignings
    BY <1>8 DEF Briefing!SignIn
  <2>2. signed' \in BOOLEAN
    BY <1>3, <2>1
  <2>3. briefingSwitches' \in 0..MaxSignings
    BY <1>1, <2>1 DEF BriefingBounds
  <2>4. QED
    BY <2>1, <2>2, <2>3
       DEF Briefing!aiVars, Briefing!serverVars, BriefingInv, BriefingTypeInv,
             BriefingFollowedIsOpen, BriefingNoTextYet, BriefingPromptHasContext,
               BriefingTextOfLast,
           Briefing!TextIsOfItsRequest, Briefing!AiTextHasContext,
             Briefing!LoadingHasStream
<1>9. CASE Briefing!SignOut
  <2>1. /\ signed /\ briefingSwitches < MaxSignings /\ signed' = FALSE
        /\ briefingSwitches' = briefingSwitches + 1
        /\ streams' = Briefing!StopAiStream /\ briefingActive' = 0
        /\ UNCHANGED <<ai, live, aiBriefing, cached>>
    BY <1>9 DEF Briefing!SignOut
  <2>2. ~signed' /\ signed' \in BOOLEAN /\ cached' \in BOOLEAN
    BY <1>1, <1>3, <2>1
  <2>3. briefingSwitches' \in 0..MaxSignings
    BY <1>1, <2>1 DEF BriefingBounds
  <2>4. ai'.loading => Len(streams) > 0 /\ streams'[Len(streams)].phase # "ended"
    <3>1. CASE briefingActive = 0
      BY <1>1, <1>2, <2>1, <3>1 DEF BriefingInv, Briefing!LoadingHasStream
    <3>2. CASE briefingActive # 0
      <4>0. briefingActive = Len(streams)
        BY <3>2 DEF BriefingInv, BriefingTypeInv
      <4>1. briefingActive = Len(streams) /\ Len(streams) \in 1..Len(streams)
        BY <1>1, <3>2, <4>0
      <4>2. streams[Len(streams)].phase # "ended"
        BY <1>1, <4>1 DEF BriefingFollowedIsOpen
      <4>3. QED
        BY <1>2, <2>1, <4>1, <4>2
    <3>3. QED
      BY <3>1, <3>2
  <2>5. QED
    BY <1>1, <1>2, <2>1, <2>2, <2>3, <2>4, BriefingRests
<1>10. CASE Briefing!Remount
  <2>1. /\ streams' = Briefing!StopAiStream /\ briefingActive' = 0
        /\ ai' = [loading |-> FALSE, error |-> FALSE]
        /\ live' = Briefing!NoText /\ aiBriefing' = Briefing!NoText
        /\ UNCHANGED <<signed, briefingSwitches, cached>>
    BY <1>10 DEF Briefing!Remount, Briefing!accountVars
  <2>2. ai' \in [loading : BOOLEAN, error : BOOLEAN] /\ ~ai'.loading
    BY <2>1
  <2>3. /\ signed' \in BOOLEAN /\ cached' \in BOOLEAN /\ briefingSwitches' \in 0..MaxSignings
    BY <1>1, <2>1
  <2>4. QED
    BY <1>1, <1>2, <2>1, <2>2, <2>3, BriefingRests
<1>11. CASE Briefing!CacheExpires
  <2>1. cached' \in BOOLEAN /\ UNCHANGED <<signed, briefingSwitches, Briefing!aiVars, streams>>
    BY <1>3, <1>11 DEF Briefing!CacheExpires, Briefing!accountVars
  <2>2. QED
    BY <2>1 DEF Briefing!aiVars, BriefingInv, BriefingTypeInv, BriefingFollowedIsOpen,
           BriefingNoTextYet, BriefingPromptHasContext, BriefingTextOfLast,
      Briefing!TextIsOfItsRequest, Briefing!AiTextHasContext,
        Briefing!LoadingHasStream
<1>12. ASSUME NEW i \in Briefing!Ids,
                Briefing!Cut(i) \/ Briefing!BriefingError(i) \/ Briefing!HandleDone(i)
                  PROVE BriefingInv'
  <2>1. /\ i \in DOMAIN streams /\ ~streams[i].closed
        /\ streams' = [Briefing!Moved(i, "ended") EXCEPT ![i].closed = TRUE]
        /\ UNCHANGED <<signed, briefingSwitches, cached>>
    BY <1>12 DEF Briefing!Cut, Briefing!BriefingError, Briefing!HandleDone, Briefing!At,
           Briefing!accountVars
  <2>2. i = briefingActive
    BY <1>1, <2>1 DEF BriefingFollowedIsOpen
  <2>3. /\ briefingActive' = 0 /\ live' = live /\ aiBriefing' = aiBriefing
        /\ ai' = [loading |-> FALSE, error |-> TRUE] \/ ai' = [ai EXCEPT !.loading = FALSE]
    BY <1>12, <2>2 DEF Briefing!Cut, Briefing!BriefingError, Briefing!HandleDone, Briefing!Fail
  <2>4. ai' \in [loading : BOOLEAN, error : BOOLEAN] /\ ~ai'.loading
    <3>1. CASE ai' = [loading |-> FALSE, error |-> TRUE]
      BY <3>1
    <3>2. CASE ai' = [ai EXCEPT !.loading = FALSE]
      BY <1>1, <3>2
    <3>3. QED
      BY <2>3, <3>1, <3>2, Zenon
  <2>5. /\ streams' \in Seq(BriefingStream) /\ Len(streams') = Len(streams)
        /\ streams'[i].phase = "ended" /\ streams'[i].context = streams[i].context
        /\ streams'[i].closed
        /\ \A j \in 1..Len(streams) : j # i => streams'[j] = streams[j]
    BY <1>1, <2>1, BriefingEndedTo
  <2>6. \A j \in 1..Len(streams) :
           streams'[j].closed /\ streams'[j].context = streams[j].context
           /\ (streams'[j].phase = streams[j].phase \/ streams'[j].phase = "ended")
    BY <1>1, <2>2, <2>5 DEF BriefingFollowedIsOpen
  <2>7. /\ signed' \in BOOLEAN /\ cached' \in BOOLEAN /\ briefingSwitches' \in 0..MaxSignings
    BY <1>1, <2>1
  <2>8. QED
    BY <2>3, <2>4, <2>5, <2>6, <2>7, BriefingRests
<1>13. ASSUME NEW i \in DOMAIN streams, ~streams[i].closed, NEW p \in BriefingPhases,
                streams' = Briefing!Moved(i, p)
       PROVE  /\ streams' \in Seq(BriefingStream) /\ Len(streams') = Len(streams)
              /\ ~streams'[i].closed
              /\ streams'[i].phase = p /\ streams'[i].context = streams[i].context
              /\ \A j \in 1..Len(streams) : j # i => streams'[j] = streams[j]
  BY <1>1, <1>13, BriefingMovedTo
<1>14. {"working", "prompted", "fallback", "final"} \subseteq BriefingPhases
  BY DEF BriefingPhases
<1>15. ASSUME NEW i \in Briefing!Ids, Briefing!ServeCached(i) \/ Briefing!FallbackFinal(i)
       PROVE BriefingInv'
  <2>1. PICK m \in {"cache", "fallback"} : Briefing!HandleFinal(i, m)
    BY <1>15 DEF Briefing!ServeCached, Briefing!FallbackFinal
  <2>2. /\ i \in DOMAIN streams /\ ~streams[i].closed /\ streams' = Briefing!Moved(i, "final")
        /\ UNCHANGED <<signed, briefingSwitches, cached>>
    BY <1>15 DEF Briefing!ServeCached, Briefing!FallbackFinal, Briefing!At, Briefing!accountVars
  <2>3. /\ live' = [of |-> i, mode |-> m] /\ aiBriefing' = live'
        /\ UNCHANGED <<ai, briefingActive>>
    BY <2>1 DEF Briefing!HandleFinal
  <2>4. QED
    BY <1>1, <1>13, <1>14, <2>2, <2>3, BriefingGoes
<1>16. ASSUME NEW i \in Briefing!Ids, Briefing!Generated(i) PROVE BriefingInv'
  <2>1. /\ i \in DOMAIN streams /\ ~streams[i].closed /\ streams' = Briefing!Moved(i, "final")
        /\ UNCHANGED <<signed, briefingSwitches>> /\ cached' = TRUE
        /\ streams[i].phase = "prompted"
    BY <1>16 DEF Briefing!Generated, Briefing!At, Briefing!accountVars
  <2>2. /\ live' = [of |-> i, mode |-> "ai"] /\ aiBriefing' = live'
        /\ UNCHANGED <<ai, briefingActive>>
    BY <1>16 DEF Briefing!Generated, Briefing!HandleFinal
  <2>3. Briefing!Required \subseteq streams[i].context /\ cached' \in BOOLEAN
    BY <1>3, <2>1 DEF BriefingInv, BriefingPromptHasContext
  <2>4. QED
    BY <1>1, <1>13, <1>14, <2>1, <2>2, <2>3, BriefingGoes
<1>17. ASSUME NEW i \in Briefing!Ids, Briefing!StartRun(i) \/ Briefing!RunFails(i)
       PROVE BriefingInv'
  <2>1. PICK p \in {"working", "fallback"} : streams' = Briefing!Moved(i, p)
    BY <1>17 DEF Briefing!StartRun, Briefing!RunFails
  <2>2. /\ i \in DOMAIN streams /\ ~streams[i].closed /\ streams[i].phase # "final"
        /\ UNCHANGED <<signed, briefingSwitches, cached, ai, briefingActive, live, aiBriefing>>
    BY <1>17 DEF Briefing!StartRun, Briefing!RunFails, Briefing!At, Briefing!accountVars,
           Briefing!aiVars
  <2>3. QED
    BY <1>1, <1>13, <1>14, <2>1, <2>2, BriefingGoes
<1>18. ASSUME NEW i \in Briefing!Ids, Briefing!Partial(i) \/ Briefing!FallbackPartial(i)
       PROVE BriefingInv'
  <2>1. PICK m \in {"ai", "fallback"} : live' = [of |-> i, mode |-> m]
    BY <1>18 DEF Briefing!Partial, Briefing!FallbackPartial
  <2>2. /\ i \in DOMAIN streams /\ ~streams[i].closed /\ streams[i].phase # "final"
        /\ UNCHANGED <<signed, briefingSwitches, cached, ai, briefingActive, aiBriefing,
                       streams>>
    BY <1>18 DEF Briefing!Partial, Briefing!FallbackPartial, Briefing!At, Briefing!accountVars,
           Briefing!serverVars
  <2>3. /\ streams[i].phase = "prompted" => Briefing!Required \subseteq streams[i].context
        /\ streams[i].phase # "ended"
    <3>1. streams[i].phase # "ended"
      BY <1>1, <2>2 DEF BriefingFollowedIsOpen
    <3>2. QED
      BY <2>2, <3>1 DEF BriefingInv, BriefingPromptHasContext
  <2>4. QED
    BY <1>1, <2>1, <2>2, <2>3, BriefingGoes
<1>19. ASSUME NEW i \in Briefing!Ids, NEW failed \in SUBSET {"events", "news", "accumulation"},
                Briefing!Gather(i, failed) PROVE BriefingInv'
  <2> DEFINE c == (Briefing!Required \cup Briefing!Optional) \ failed
  <2>1. /\ i \in DOMAIN streams /\ ~streams[i].closed /\ streams[i].phase # "final"
        /\ UNCHANGED <<signed, briefingSwitches, cached, ai, briefingActive, live, aiBriefing>>
    BY <1>19 DEF Briefing!Gather, Briefing!At, Briefing!accountVars, Briefing!aiVars
  <2>2. CASE failed \cap Briefing!Required # {}
    <3>1. streams' = Briefing!Moved(i, "fallback")
      BY <1>19, <2>2 DEF Briefing!Gather
    <3>2. QED
      BY <1>1, <1>13, <1>14, <2>1, <3>1, BriefingGoes
  <2>3. CASE failed \cap Briefing!Required = {}
    <3>1. streams' = [Briefing!Moved(i, "prompted") EXCEPT ![i].context = c]
      BY <1>19, <2>3 DEF Briefing!Gather
    <3>2. /\ c \in SUBSET (Briefing!Required \cup Briefing!Optional)
          /\ Briefing!Required \subseteq c
      BY <2>3
    <3> HIDE DEF c
    <3>3. /\ streams' \in Seq(BriefingStream) /\ Len(streams') = Len(streams)
          /\ ~streams'[i].closed /\ streams'[i].phase # "ended"
          /\ streams'[i].context = c /\ \A j \in 1..Len(streams) : j # i =>
               streams'[j] = streams[j]
      <4>1. /\ i \in DOMAIN streams /\ c \in SUBSET (Briefing!Required \cup Briefing!Optional)
            /\ streams \in Seq(BriefingStream)
        BY <1>1, <2>1, <3>2
      <4>2. QED
        BY <2>1, <3>1, <4>1, BriefingGatheredTo, Zenon
    <3>4. QED
      BY <1>1, <2>1, <3>2, <3>3, BriefingGoes
  <2>4. QED
    BY <2>2, <2>3
<1>20. CASE UNCHANGED Briefing!briefingVars
  BY <1>4, <1>20 DEF Briefing!briefingVars, Briefing!accountVars
<1>21. QED
  BY <1>5, <1>6, <1>7, <1>8, <1>9, <1>10, <1>11, <1>12, <1>15, <1>16, <1>17, <1>18, <1>19, <1>20
       DEF Briefing!Next

\* The type that the runs check.
LEMMA BriefingIsTyped == ASSUME BriefingBounds PROVE BriefingInv => Briefing!TypeOK
<1> SUFFICES ASSUME BriefingInv PROVE Briefing!TypeOK
  OBVIOUS
<1>1. Len(streams) \in Nat /\ briefingActive \in 0..MaxStreams
  BY DEF BriefingInv, BriefingTypeInv, BriefingBounds
<1>2. \A i \in DOMAIN streams :
        streams[i].context \subseteq Briefing!Required \cup Briefing!Optional
  <2>1. ASSUME NEW i \in DOMAIN streams
        PROVE streams[i].context \subseteq Briefing!Required \cup Briefing!Optional
    <3>1. streams[i] \in BriefingStream
      BY DEF BriefingInv, BriefingTypeInv
    <3>2. streams[i].context \in SUBSET (Briefing!Required \cup Briefing!Optional)
      BY <3>1 DEF BriefingStream
    <3>3. QED
      BY <3>2
  <2>2. QED
    BY <2>1
<1>3. QED
  BY <1>1, <1>2 DEF BriefingInv, BriefingTypeInv, Briefing!TypeOK, BriefingTexts

---------------------------------------------------------------------------
(* CopilotChat: answers stand under their questions                          *)

CopilotBounds == MaxQuestions \in Nat /\ MaxVisits \in Nat
CopilotPhases == {"open", "refused", "ended", "unheard"}
CopilotFacts == Copilot!Always \cup {"news", "connectorHealth", "accumulation"}
CopilotRequest == [phase : CopilotPhases, facts : SUBSET CopilotFacts]
CopilotMsg ==
  /\ [role : {"user", "assistant"}, of : Copilot!Questions, chunks : SUBSET Copilot!Questions,
      failed : BOOLEAN]

CopilotTypeInv ==
  /\ copilotLoading \in BOOLEAN /\ visits \in 0..MaxVisits
  /\ requests \in Seq(CopilotRequest) /\ Len(requests) <= MaxQuestions
  /\ abortRef \in {0, Len(requests)}
  /\ messages \in Seq(CopilotMsg)

(* A request that may still say something is the one that can be stopped.    *)
CopilotOpenIsStoppable ==
  \A q \in DOMAIN requests : requests[q].phase \in {"open", "refused"} => q = abortRef

(* Under all else stands an answer, and while a request is out, its own.     *)
CopilotLastAnswers ==
  messages # <<>> =>
    Copilot!Last.role = "assistant" /\ (abortRef # 0 => Copilot!Last.of = abortRef)

CopilotBusyOnce ==
  /\ abortRef # 0 => copilotLoading /\ requests[abortRef].phase \in {"open", "refused"}
  /\ copilotLoading => abortRef # 0

CopilotInv ==
  /\ CopilotTypeInv /\ CopilotOpenIsStoppable /\ CopilotLastAnswers /\ CopilotBusyOnce
  /\ Copilot!AnswersStandUnderTheirQuestion

\* A new message, and one that failed.
LEMMA CopilotMessageType ==
  ASSUME NEW role \in {"user", "assistant"}, NEW q \in Copilot!Questions
  PROVE  /\ Copilot!Message(role, q) \in CopilotMsg /\ Copilot!Message(role, q).role = role
         /\ Copilot!Message(role, q).of = q
         /\ Copilot!Message(role, q).chunks = {}
         /\ [Copilot!Message(role, q) EXCEPT !.failed = TRUE] \in CopilotMsg
         /\ [Copilot!Message(role, q) EXCEPT !.failed = TRUE].role = role
         /\ [Copilot!Message(role, q) EXCEPT !.failed = TRUE].chunks = {}
BY DEF Copilot!Message, CopilotMsg

\* A message with one more chunk.
LEMMA CopilotChunkOf ==
  ASSUME NEW m \in CopilotMsg, NEW q \in Copilot!Questions
  PROVE  /\ [m EXCEPT !.chunks = @ \cup {q}] \in CopilotMsg
         /\ [m EXCEPT !.chunks = @ \cup {q}].role = m.role
         /\ [m EXCEPT !.chunks = @ \cup {q}].of = m.of
         /\ [m EXCEPT !.chunks = @ \cup {q}].chunks = m.chunks \cup {q}
BY DEF CopilotMsg

\* A message that is replaced by a failure.
LEMMA CopilotFailedOf ==
  ASSUME NEW m \in CopilotMsg
  PROVE  /\ [m EXCEPT !.chunks = {}, !.failed = TRUE] \in CopilotMsg
         /\ [m EXCEPT !.chunks = {}, !.failed = TRUE].role = m.role
         /\ [m EXCEPT !.chunks = {}, !.failed = TRUE].of = m.of
         /\ [m EXCEPT !.chunks = {}, !.failed = TRUE].chunks = {}
BY DEF CopilotMsg

\* Only one request of the list changes.
LEMMA CopilotOneChanges ==
  ASSUME NEW S, NEW s \in Seq(S), NEW i \in DOMAIN s, NEW e \in S
  PROVE  /\ [s EXCEPT ![i] = e] \in Seq(S) /\ Len([s EXCEPT ![i] = e]) = Len(s)
         /\ [s EXCEPT ![i] = e][i] = e
         /\ \A j \in DOMAIN s : j # i => [s EXCEPT ![i] = e][j] = s[j]
         /\ s[i] \in S /\ i \in 1..Len(s) /\ DOMAIN s = 1..Len(s)
OBVIOUS

(* The last answer is written on: it stays under its question.               *)
LEMMA CopilotLastWritten ==
  ASSUME messages \in Seq(CopilotMsg), Copilot!AnswersStandUnderTheirQuestion, messages # <<>>,
           Copilot!Last.role = "assistant",
         NEW m \in CopilotMsg, m.role = "assistant", m.of = Copilot!Last.of,
           m.chunks \subseteq {m.of},
         messages' = Copilot!WithLast(m)
  PROVE  /\ messages' \in Seq(CopilotMsg) /\ messages' # <<>> /\ Copilot!Last' = m
         /\ Copilot!AnswersStandUnderTheirQuestion'
<1> DEFINE n == Len(messages)
<1>1. n \in Nat \ {0} /\ DOMAIN messages = 1..n /\ n \in DOMAIN messages
  OBVIOUS
<1>2. /\ messages' \in Seq(CopilotMsg) /\ Len(messages') = n /\ messages'[n] = m
      /\ \A j \in DOMAIN messages : j # n => messages'[j] = messages[j]
  BY <1>1, CopilotOneChanges DEF Copilot!WithLast
<1>3. DOMAIN messages' = 1..n /\ messages' # <<>> /\ Copilot!Last' = m
  BY <1>1, <1>2 DEF Copilot!Last
<1>4. Copilot!AnswersStandUnderTheirQuestion'
  <2> SUFFICES ASSUME NEW k \in DOMAIN messages', messages'[k].role = "assistant"
               PROVE  /\ messages'[k].chunks \subseteq {messages'[k].of}
                      /\ k > 1 => messages'[k - 1] = Copilot!Message("user", messages'[k].of)
    BY Zenon DEF Copilot!AnswersStandUnderTheirQuestion, Copilot!Message
  <2>1. k \in 1..n
    BY <1>3
  <2>2. messages[k].role = "assistant" /\ messages'[k].of = messages[k].of
    BY <1>1, <1>2, <1>3, <2>1 DEF Copilot!Last
  <2>3. messages'[k].chunks \subseteq {messages'[k].of}
    BY <1>1, <1>2, <1>3, <2>1, <2>2 DEF Copilot!AnswersStandUnderTheirQuestion
  <2>4. ASSUME k > 1 PROVE messages'[k - 1] = Copilot!Message("user", messages'[k].of)
    <3>1. k - 1 \in 1..n /\ k - 1 # n
      BY <1>1, <2>1, <2>4
    <3>2. messages[k - 1] = Copilot!Message("user", messages[k].of)
      BY <1>1, <2>1, <2>2, <2>4 DEF Copilot!AnswersStandUnderTheirQuestion
    <3>3. QED
      BY <1>1, <1>2, <2>2, <3>1, <3>2
  <2>5. QED
    BY <2>3, <2>4
<1>5. QED
  BY <1>2, <1>3, <1>4

(* A failure replaces the answer that was being written, or stands alone.    *)
LEMMA CopilotFailedWritten ==
  ASSUME messages \in Seq(CopilotMsg), Copilot!AnswersStandUnderTheirQuestion,
           messages # <<>> => Copilot!Last.role = "assistant",
         NEW q \in Copilot!Questions, messages' = Copilot!Failed(q)
  PROVE  /\ messages' \in Seq(CopilotMsg) /\ Copilot!Last'.role = "assistant"
         /\ Copilot!AnswersStandUnderTheirQuestion'
<1>1. CASE Copilot!LastIsAnswer
  <2> DEFINE m == [Copilot!Last EXCEPT !.chunks = {}, !.failed = TRUE]
  <2>1. messages # <<>> /\ Copilot!Last.role = "assistant" /\ Copilot!Last \in CopilotMsg
    <3>1. messages # <<>> /\ Copilot!Last.role = "assistant"
      BY <1>1 DEF Copilot!LastIsAnswer
    <3>2. Len(messages) \in DOMAIN messages
      BY <3>1
    <3>3. QED
      BY <3>1, <3>2 DEF Copilot!Last
  <2>2. /\ m \in CopilotMsg /\ m.role = Copilot!Last.role /\ m.of = Copilot!Last.of
        /\ m.chunks = {}
    BY <2>1, CopilotFailedOf, Zenon
  <2>3. messages' = Copilot!WithLast(m)
    BY <1>1 DEF Copilot!Failed
  <2> HIDE DEF m
  <2>4. m.role = "assistant" /\ m.chunks \subseteq {m.of}
    BY <2>1, <2>2
  <2>5. /\ messages' \in Seq(CopilotMsg) /\ Copilot!Last' = m
        /\ Copilot!AnswersStandUnderTheirQuestion'
    BY <2>1, <2>2, <2>3, <2>4, CopilotLastWritten, Zenon
  <2>6. QED
    BY <2>4, <2>5, Zenon
<1>2. CASE ~Copilot!LastIsAnswer
  <2> DEFINE m == [Copilot!Message("assistant", q) EXCEPT !.failed = TRUE]
  <2>1. messages = <<>>
    BY <1>2 DEF Copilot!LastIsAnswer
  <2>2. m \in CopilotMsg /\ m.role = "assistant" /\ m.chunks = {}
    BY CopilotMessageType
  <2>3. messages' = Append(messages, m)
    BY <1>2 DEF Copilot!Failed
  <2> HIDE DEF m
  <2>4. /\ messages' \in Seq(CopilotMsg) /\ Len(messages') = 1 /\ messages'[1] = m
        /\ DOMAIN messages' = 1..1
    BY <2>1, <2>2, <2>3
  <2>5. Copilot!Last' = m
    BY <2>4 DEF Copilot!Last
  <2>6. Copilot!AnswersStandUnderTheirQuestion'
    BY <2>2, <2>4 DEF Copilot!AnswersStandUnderTheirQuestion
  <2>7. QED
    BY <2>2, <2>4, <2>5, <2>6, Zenon
<1>3. QED
  BY <1>1, <1>2

\* The page as it is opened.
LEMMA CopilotInitInv == ASSUME CopilotBounds PROVE Copilot!Init => CopilotInv
<1> SUFFICES ASSUME Copilot!Init PROVE CopilotInv
  OBVIOUS
<1>1. messages = <<>> /\ abortRef = 0 /\ requests = <<>> /\ visits = 0
  BY DEF Copilot!Init
<1>2. copilotLoading \in BOOLEAN /\ ~copilotLoading
  BY Zenon DEF Copilot!Init
<1>3. /\ visits \in 0..MaxVisits /\ Len(requests) <= MaxQuestions /\ DOMAIN requests = {}
      /\ DOMAIN messages = {}
  BY <1>1 DEF CopilotBounds
<1>4. CopilotTypeInv
  BY <1>1, <1>2, <1>3 DEF CopilotTypeInv
<1>5. /\ CopilotOpenIsStoppable /\ CopilotLastAnswers /\ CopilotBusyOnce
      /\ Copilot!AnswersStandUnderTheirQuestion
  BY <1>1, <1>2, <1>3 DEF CopilotOpenIsStoppable, CopilotLastAnswers, CopilotBusyOnce,
         Copilot!AnswersStandUnderTheirQuestion
<1>6. QED
  BY <1>4, <1>5 DEF CopilotInv

\* A request in another phase.
LEMMA CopilotPhaseOf ==
  ASSUME NEW r \in CopilotRequest, NEW p \in CopilotPhases
  PROVE  [r EXCEPT !.phase = p] \in CopilotRequest /\ [r EXCEPT !.phase = p].phase = p
BY DEF CopilotRequest

\* A request that knows more.
LEMMA CopilotFactsOf ==
  ASSUME NEW r \in CopilotRequest, NEW f \in SUBSET CopilotFacts
  PROVE  /\ [r EXCEPT !.facts = @ \cup f] \in CopilotRequest
         /\ [r EXCEPT !.facts = @ \cup f].phase = r.phase
BY DEF CopilotRequest

\* A request goes to another phase, the others stay.
LEMMA CopilotPhaseTo ==
  ASSUME requests \in Seq(CopilotRequest), NEW q \in DOMAIN requests, NEW p \in CopilotPhases,
         requests' = [requests EXCEPT ![q].phase = p]
  PROVE  /\ requests' \in Seq(CopilotRequest) /\ Len(requests') = Len(requests)
         /\ DOMAIN requests' = DOMAIN requests
         /\ requests'[q].phase = p
         /\ \A j \in DOMAIN requests : j # q => requests'[j] = requests[j]
<1> DEFINE r == requests[q]
           e == [r EXCEPT !.phase = p]
<1>1. r \in CopilotRequest
  OBVIOUS
<1>2. e \in CopilotRequest /\ e.phase = p
  BY <1>1, CopilotPhaseOf, Zenon
<1>3. requests' = [requests EXCEPT ![q] = e]
  OBVIOUS
<1> HIDE DEF e
<1>4. QED
  BY <1>2, <1>3, CopilotOneChanges

\* A request is replaced, the others stay.
LEMMA CopilotRequestTo ==
  ASSUME requests \in Seq(CopilotRequest), NEW q \in DOMAIN requests, NEW e \in CopilotRequest,
         requests' = [requests EXCEPT ![q] = e]
  PROVE  /\ requests' \in Seq(CopilotRequest) /\ Len(requests') = Len(requests)
         /\ requests'[q] = e
         /\ \A j \in DOMAIN requests : j # q => requests'[j] = requests[j]
OBVIOUS

(* A stop, an end and a failure: nothing is out any more. *)
LEMMA CopilotFrees ==
  ASSUME CopilotBounds, CopilotInv, requests' \in Seq(CopilotRequest),
           Len(requests') = Len(requests),
         \A q \in DOMAIN requests : requests'[q].phase \in {"ended", "unheard"},
         messages' \in Seq(CopilotMsg), Copilot!AnswersStandUnderTheirQuestion',
         messages' # <<>> => Copilot!Last'.role = "assistant",
         copilotLoading' = FALSE, abortRef' = 0, visits' \in 0..MaxVisits
  PROVE  CopilotInv'
<1>1. ~copilotLoading' /\ copilotLoading' \in BOOLEAN
  BY Zenon
<1>2. Len(requests') <= MaxQuestions /\ DOMAIN requests' = DOMAIN requests
  BY DEF CopilotInv, CopilotTypeInv
<1>3. CopilotTypeInv'
  BY <1>1, <1>2 DEF CopilotTypeInv
<1>4. CopilotOpenIsStoppable' /\ CopilotLastAnswers' /\ CopilotBusyOnce'
  BY <1>1, <1>2 DEF CopilotOpenIsStoppable, CopilotLastAnswers, CopilotBusyOnce
<1>5. QED
  BY <1>3, <1>4 DEF CopilotInv

(* What leaves the requests at their places, the button and the ends alone.  *)
LEMMA CopilotWrites ==
  ASSUME CopilotBounds, CopilotInv, requests' \in Seq(CopilotRequest),
           Len(requests') = Len(requests),
         \A q \in DOMAIN requests :
           requests'[q].phase = requests[q].phase \/
             (requests[q].phase = "open" /\ requests'[q].phase = "refused"),
         messages' \in Seq(CopilotMsg), Copilot!AnswersStandUnderTheirQuestion',
         messages' # <<>> =>
           messages # <<>> /\ Copilot!Last'.role = Copilot!Last.role /\
                              Copilot!Last'.of = Copilot!Last.of,
         UNCHANGED <<copilotLoading, abortRef, visits>>
  PROVE  CopilotInv'
<1>1. /\ DOMAIN requests' = DOMAIN requests /\ DOMAIN requests = 1..Len(requests)
      /\ Len(requests) \in Nat
  BY DEF CopilotInv, CopilotTypeInv
<1>2. CopilotTypeInv'
  BY <1>1 DEF CopilotInv, CopilotTypeInv
<1>3. CopilotOpenIsStoppable'
  BY <1>1 DEF CopilotInv, CopilotOpenIsStoppable
<1>4. CopilotLastAnswers'
  BY DEF CopilotInv, CopilotLastAnswers
<1>5. CopilotBusyOnce'
  <2>1. abortRef # 0 => abortRef \in DOMAIN requests
    <3>1. abortRef \in {0, Len(requests)}
      BY DEF CopilotInv, CopilotTypeInv
    <3>2. QED
      BY <1>1, <3>1
  <2>2. abortRef # 0 => requests[abortRef].phase \in {"open", "refused"}
    BY Zenon DEF CopilotInv, CopilotBusyOnce
  <2>3. abortRef # 0 => requests'[abortRef].phase \in {"open", "refused"}
    BY <2>1, <2>2
  <2>4. QED
    BY <2>3, Zenon DEF CopilotInv, CopilotBusyOnce
<1>6. QED
  BY <1>2, <1>3, <1>4, <1>5 DEF CopilotInv

\* A question is asked: it, its answer and its request are the last of all.
LEMMA CopilotSends == ASSUME CopilotBounds, CopilotInv, Copilot!HandleSend PROVE CopilotInv'
<1> DEFINE n == Len(requests)
           q == n + 1
           m == Len(messages)
           older == [r \in DOMAIN requests |->
                       IF r = abortRef THEN [requests[r] EXCEPT !.phase = "ended"]
                                       ELSE requests[r]]
           new == [phase |-> "open", facts |-> {}]
<1>1. /\ messages' = messages \o <<Copilot!Message("user", q), Copilot!Message("assistant", q)>>
      /\ requests' = Append(older, new) /\ abortRef' = q /\ copilotLoading' = TRUE
      /\ visits' = visits
      /\ n < MaxQuestions /\ ~copilotLoading
  BY DEF Copilot!HandleSend
<1>2. /\ requests \in Seq(CopilotRequest) /\ DOMAIN requests = 1..n /\ n \in Nat
      /\ messages \in Seq(CopilotMsg) /\ DOMAIN messages = 1..m /\ m \in Nat
      /\ Len(messages) = m
  BY DEF CopilotInv, CopilotTypeInv
<1>3. q \in Copilot!Questions /\ q \in Nat \ {0} /\ q <= MaxQuestions
  BY <1>1, <1>2 DEF Copilot!Questions, CopilotBounds
<1>4. abortRef = 0
  BY <1>1 DEF CopilotInv, CopilotBusyOnce
<1>5. older \in Seq(CopilotRequest) /\ Len(older) = n /\ \A j \in 1..n : older[j] = requests[j]
  <2>1. \A j \in DOMAIN requests : j # abortRef
    BY <1>2, <1>4
  <2>2. older = [j \in 1..n |-> requests[j]]
    BY <1>2, <2>1
  <2>3. [j \in 1..n |-> requests[j]] \in [1..n -> CopilotRequest]
    BY <1>2
  <2>4. QED
    BY <1>2, <2>2, <2>3
<1>6. new \in CopilotRequest /\ new.phase = "open"
  BY DEF CopilotRequest, CopilotPhases
<1> HIDE DEF older, new
<1>7. /\ requests' \in Seq(CopilotRequest) /\ Len(requests') = q /\ DOMAIN requests' = 1..q
      /\ requests'[q].phase = "open" /\ \A j \in 1..n : requests'[j] = requests[j]
  BY <1>1, <1>2, <1>5, <1>6
<1> DEFINE asking == Copilot!Message("user", q)
           answer == Copilot!Message("assistant", q)
<1>8. /\ asking \in CopilotMsg /\ answer \in CopilotMsg /\ asking.role = "user"
      /\ answer.role = "assistant"
      /\ answer.of = q /\ answer.chunks = {}
  BY <1>3, CopilotMessageType
<1>9. messages' = messages \o <<asking, answer>>
  BY <1>1
<1> HIDE DEF asking, answer, n, q, m
<1>10. /\ messages' \in Seq(CopilotMsg) /\ Len(messages') = m + 2
       /\ DOMAIN messages' = 1..(m + 2)
       /\ messages'[m + 1] = asking /\ messages'[m + 2] = answer
       /\ \A k \in 1..m : messages'[k] = messages[k]
  BY <1>2, <1>8, <1>9
<1>11. copilotLoading' /\ copilotLoading' \in BOOLEAN /\ abortRef' # 0
  <2>1. abortRef' # 0
    BY <1>1, <1>3
  <2>2. TRUE \in BOOLEAN
    OBVIOUS
  <2>3. QED
    BY <1>1, <2>1, <2>2, Zenon
<1>12. CopilotTypeInv'
  <2>1. /\ visits' \in 0..MaxVisits /\ Len(requests') <= MaxQuestions
        /\ abortRef' \in {0, Len(requests')}
    BY <1>1, <1>3, <1>7 DEF CopilotInv, CopilotTypeInv
  <2>2. QED
    BY <1>7, <1>10, <1>11, <2>1 DEF CopilotTypeInv
<1>13. CopilotOpenIsStoppable'
  <2> SUFFICES ASSUME NEW j \in DOMAIN requests', requests'[j].phase \in {"open", "refused"}
               PROVE  j = abortRef'
    BY DEF CopilotOpenIsStoppable
  <2>1. CASE j = q
    BY <1>1, <2>1
  <2>2. CASE j # q
    <3>1. j \in 1..n
      BY <1>2, <1>3, <1>7, <2>2 DEF q
    <3>2. j = abortRef
      BY <1>2, <1>7, <3>1 DEF CopilotInv, CopilotOpenIsStoppable
    <3>3. QED
      BY <1>4, <3>1, <3>2
  <2>3. QED
    BY <2>1, <2>2
<1>14. Copilot!Last' = answer
  BY <1>2, <1>10 DEF Copilot!Last
<1>15. CopilotLastAnswers'
  BY <1>1, <1>8, <1>14 DEF CopilotLastAnswers
<1>16. CopilotBusyOnce'
  BY <1>1, <1>7, <1>11 DEF CopilotBusyOnce
<1>17. Copilot!AnswersStandUnderTheirQuestion'
  <2> SUFFICES ASSUME NEW k \in DOMAIN messages', messages'[k].role = "assistant"
               PROVE  /\ messages'[k].chunks \subseteq {messages'[k].of}
                      /\ k > 1 => messages'[k - 1] = Copilot!Message("user", messages'[k].of)
    BY Zenon DEF Copilot!AnswersStandUnderTheirQuestion, Copilot!Message
  <2>1. CASE k = m + 2
    <3>1. messages'[k] = answer /\ messages'[k - 1] = asking /\ k - 1 = m + 1
      BY <1>2, <1>10, <2>1
    <3>2. asking = Copilot!Message("user", messages'[k].of)
      BY <1>8, <3>1 DEF asking
    <3>3. QED
      BY <1>8, <3>1, <3>2
  <2>2. CASE k = m + 1
    BY <1>8, <1>10, <2>2
  <2>3. CASE k \notin {m + 1, m + 2}
    <3>1. k \in 1..m /\ (k > 1 => k - 1 \in 1..m)
      BY <1>2, <1>10, <2>3
    <3>2. messages'[k] = messages[k] /\ (k > 1 => messages'[k - 1] = messages[k - 1])
      BY <1>10, <3>1
    <3>3. QED
      BY <1>2, <3>1, <3>2 DEF CopilotInv, Copilot!AnswersStandUnderTheirQuestion
  <2>4. QED
    BY <2>1, <2>2, <2>3
<1>18. QED
  BY <1>12, <1>13, <1>15, <1>16, <1>17 DEF CopilotInv

\* Questions, chunks, refusals, ends, stops, clears and leaving, in any
\* order.
LEMMA CopilotStepInv ==
  ASSUME CopilotBounds
  PROVE  CopilotInv /\ [Copilot!Next]_(Copilot!chatVars) => CopilotInv'
<1> SUFFICES ASSUME CopilotInv, [Copilot!Next]_(Copilot!chatVars) PROVE CopilotInv'
  OBVIOUS
<1>1. requests \in Seq(CopilotRequest)
  BY DEF CopilotInv, CopilotTypeInv
<1>b. Len(requests) <= MaxQuestions /\ abortRef \in {0, Len(requests)} /\
  visits \in 0..MaxVisits
  BY DEF CopilotInv, CopilotTypeInv
<1>m. messages \in Seq(CopilotMsg) /\ Copilot!AnswersStandUnderTheirQuestion
  BY DEF CopilotInv, CopilotTypeInv
<1>l. messages # <<>> =>
  Copilot!Last.role = "assistant" /\ (abortRef # 0 => Copilot!Last.of = abortRef)
  BY DEF CopilotInv, CopilotLastAnswers
<1>2. {"ended", "unheard", "refused"} \subseteq CopilotPhases
  BY DEF CopilotPhases
(* What can still be heard of is the request that can be stopped.            *)
<1>3. ASSUME NEW q \in DOMAIN requests, requests[q].phase \in {"open", "refused"}
      PROVE  q = abortRef /\ q \in Copilot!Questions /\ \A j \in DOMAIN requests : j # q =>
               requests[j].phase \in {"ended", "unheard"}
  <2>1. q = abortRef /\ \A j \in DOMAIN requests : j # q =>
          requests[j].phase \notin {"open", "refused"}
    BY <1>3 DEF CopilotInv, CopilotOpenIsStoppable
  <2>2. \A j \in DOMAIN requests : requests[j].phase \in CopilotPhases
    <3>1. \A j \in DOMAIN requests : requests[j] \in CopilotRequest
      BY <1>1
    <3>2. QED
      BY <3>1 DEF CopilotRequest
  <2>3. q \in Copilot!Questions
    BY <1>1, <1>b DEF Copilot!Questions, CopilotBounds
  <2>4. QED
    BY <2>1, <2>2, <2>3 DEF CopilotPhases
<1>4. CASE Copilot!HandleSend
  BY <1>4, CopilotSends
<1>5. ASSUME NEW q \in DOMAIN requests, requests[q].phase \in {"open", "refused"},
               requests' = Copilot!Ended(q),
             messages' = messages \/ messages' = Copilot!Failed(q),
             copilotLoading' = FALSE, abortRef' = 0, visits' = visits
      PROVE  CopilotInv'
  <2>1. /\ requests' \in Seq(CopilotRequest) /\ Len(requests') = Len(requests)
        /\ DOMAIN requests' = DOMAIN requests
        /\ requests'[q].phase = "ended" /\ \A j \in DOMAIN requests : j # q =>
             requests'[j] = requests[j]
    BY <1>1, <1>2, <1>5, CopilotPhaseTo DEF Copilot!Ended
  <2>2. \A j \in DOMAIN requests : requests'[j].phase \in {"ended", "unheard"}
    BY <1>3, <1>5, <2>1
  <2>3. /\ messages' \in Seq(CopilotMsg) /\ Copilot!AnswersStandUnderTheirQuestion'
        /\ messages' # <<>> => Copilot!Last'.role = "assistant"
    <3>1. CASE messages' = messages
      BY <1>m, <1>l, <3>1 DEF Copilot!AnswersStandUnderTheirQuestion, Copilot!Last
    <3>2. CASE messages' = Copilot!Failed(q)
      BY <1>m, <1>l, <1>3, <1>5, <3>2, CopilotFailedWritten, Zenon
    <3>3. QED
      BY <1>5, <3>1, <3>2
  <2>4. visits' \in 0..MaxVisits
    BY <1>b, <1>5
  <2>5. QED
    BY <1>5, <2>1, <2>2, <2>3, <2>4, CopilotFrees
<1>6. ASSUME NEW q \in Copilot!Questions, Copilot!OnComplete(q) \/ Copilot!OnError(q)
      PROVE CopilotInv'
  <2>1. /\ q \in DOMAIN requests /\ requests[q].phase \in {"open", "refused"}
        /\ requests' = Copilot!Ended(q)
        /\ messages' = messages \/ messages' = Copilot!Failed(q)
        /\ copilotLoading' = FALSE /\ abortRef' = 0 /\ visits' = visits
    BY <1>6 DEF Copilot!OnComplete, Copilot!OnError, Copilot!Open
  <2>2. QED
    BY <1>5, <2>1
<1>7. CASE Copilot!HandleStop
  <2>1. /\ abortRef # 0 /\ abortRef \in DOMAIN requests
        /\ requests[abortRef].phase \in {"open", "refused"}
    <3>1. abortRef # 0 /\ requests[abortRef].phase \in {"open", "refused"}
      BY <1>7, Zenon DEF Copilot!HandleStop, CopilotInv, CopilotBusyOnce
    <3>2. QED
      BY <1>1, <1>b, <3>1
  <2>2. /\ requests' = Copilot!Ended(abortRef)
        /\ messages' = messages \/ messages' = Copilot!Failed(abortRef)
        /\ copilotLoading' = FALSE /\ abortRef' = 0 /\ visits' = visits
    BY <1>7, <2>1 DEF Copilot!HandleStop
  <2>3. QED
    BY <1>5, <2>1, <2>2
<1>8. CASE Copilot!HandleClear
  <2>1. messages' = <<>> /\ UNCHANGED <<copilotLoading, abortRef, requests, visits>>
    BY <1>8 DEF Copilot!HandleClear
  <2>2. messages' \in Seq(CopilotMsg) /\ Copilot!AnswersStandUnderTheirQuestion'
    BY <2>1 DEF Copilot!AnswersStandUnderTheirQuestion
  <2>3. QED
    BY <1>1, <2>1, <2>2, CopilotWrites
<1>9. CASE Copilot!Reopen
  <2> DEFINE r(q) == [requests[q] EXCEPT !.phase = IF @ = "ended" THEN "ended" ELSE "unheard"]
  <2>1. /\ visits < MaxVisits /\ visits' = visits + 1 /\ messages' = <<>>
        /\ copilotLoading' = FALSE /\ abortRef' = 0
        /\ requests' = [q \in DOMAIN requests |-> r(q)]
    BY <1>9 DEF Copilot!Reopen
  <2>2. ASSUME NEW q \in DOMAIN requests
        PROVE r(q) \in CopilotRequest /\ r(q).phase \in {"ended", "unheard"}
    <3> DEFINE s == requests[q]
               p == IF s.phase = "ended" THEN "ended" ELSE "unheard"
    <3>1. s \in CopilotRequest
      BY <1>1
    <3>2. p \in CopilotPhases /\ p \in {"ended", "unheard"}
      BY <1>2
    <3>3. r(q) = [s EXCEPT !.phase = p]
      OBVIOUS
    <3> HIDE DEF r, s, p
    <3>4. QED
      BY <3>1, <3>2, <3>3, CopilotPhaseOf, Zenon
  <2> HIDE DEF r
  <2>3. /\ requests' \in [1..Len(requests) -> CopilotRequest]
        /\ \A q \in DOMAIN requests : requests'[q].phase \in {"ended", "unheard"}
    BY <1>1, <2>1, <2>2
  <2>4. requests' \in Seq(CopilotRequest) /\ Len(requests') = Len(requests)
    BY <1>1, <2>3
  <2>5. messages' \in Seq(CopilotMsg) /\ Copilot!AnswersStandUnderTheirQuestion'
    BY <2>1 DEF Copilot!AnswersStandUnderTheirQuestion
  <2>6. visits' \in 0..MaxVisits
    BY <1>b, <2>1 DEF CopilotBounds
  <2>7. QED
    BY <2>1, <2>3, <2>4, <2>5, <2>6, CopilotFrees
<1>10. ASSUME NEW q \in DOMAIN requests, NEW f \in SUBSET CopilotFacts,
                requests' = [requests EXCEPT ![q].facts = @ \cup f],
              UNCHANGED <<messages, copilotLoading, abortRef, visits>>
       PROVE  CopilotInv'
  <2> DEFINE r == requests[q]
             e == [r EXCEPT !.facts = @ \cup f]
  <2>1. e \in CopilotRequest /\ e.phase = r.phase
    <3>1. r \in CopilotRequest
      BY <1>1
    <3>2. QED
      BY <3>1, CopilotFactsOf, Zenon
  <2>2. requests' = [requests EXCEPT ![q] = e]
    BY <1>10
  <2> HIDE DEF e
  <2>3. /\ requests' \in Seq(CopilotRequest) /\ Len(requests') = Len(requests)
        /\ requests'[q] = e
        /\ \A j \in DOMAIN requests : j # q => requests'[j] = requests[j]
    BY <1>1, <2>1, <2>2, CopilotRequestTo
  <2>4. \A j \in DOMAIN requests : requests'[j].phase = requests[j].phase
    BY <2>1, <2>3
  <2>5. /\ messages' \in Seq(CopilotMsg) /\ Copilot!AnswersStandUnderTheirQuestion'
        /\ Copilot!Last' = Copilot!Last /\ messages' = messages
    BY <1>m, <1>10 DEF Copilot!AnswersStandUnderTheirQuestion, Copilot!Last
  <2>6. UNCHANGED <<copilotLoading, abortRef, visits>>
    BY <1>10
  <2>7. QED
    BY <2>3, <2>4, <2>5, <2>6, CopilotWrites
<1>11. ASSUME NEW q \in Copilot!Questions, NEW ok \in BOOLEAN, Copilot!GetAccumulation(q, ok)
       PROVE CopilotInv'
  <2> DEFINE f == IF ok THEN {"accumulation"} ELSE {}
  <2>1. /\ q \in DOMAIN requests /\ requests' = [requests EXCEPT ![q].facts = @ \cup f]
        /\ UNCHANGED <<messages, copilotLoading, abortRef, visits>>
    BY <1>11 DEF Copilot!GetAccumulation, Copilot!Open
  <2>2. f \in SUBSET CopilotFacts
    BY DEF CopilotFacts
  <2> HIDE DEF f
  <2>3. QED
    BY <1>10, <2>1, <2>2
<1>12. ASSUME NEW q \in Copilot!Questions, NEW news \in BOOLEAN, NEW health \in BOOLEAN,
              NEW failed \in SUBSET {"alerts", "news"},
                Copilot!CallTool(q, news, health, failed)
       PROVE  CopilotInv'
  <2> DEFINE f == Copilot!DashboardContext(news, health, failed)
  <2>1. /\ q \in DOMAIN requests /\ requests' = [requests EXCEPT ![q].facts = @ \cup f]
        /\ UNCHANGED <<messages, copilotLoading, abortRef, visits>>
    BY <1>12 DEF Copilot!CallTool, Copilot!Open
  <2>2. f \in SUBSET CopilotFacts
    BY DEF CopilotFacts, Copilot!DashboardContext
  <2> HIDE DEF f
  <2>3. QED
    BY <1>10, <2>1, <2>2
<1>13. ASSUME NEW q \in Copilot!Questions, Copilot!OnChunk(q) PROVE CopilotInv'
  <2>1. /\ q \in DOMAIN requests /\ requests[q].phase = "open"
        /\ UNCHANGED <<copilotLoading, abortRef, requests, visits>>
    BY <1>13 DEF Copilot!OnChunk, Copilot!Open
  <2>2. q = abortRef /\ abortRef # 0
    BY <1>1, <1>b, <1>3, <2>1
  <2>3. CASE Copilot!LastIsAnswer
    <3> DEFINE m == [Copilot!Last EXCEPT !.chunks = @ \cup {q}]
    <3>1. /\ messages # <<>> /\ Copilot!Last.role = "assistant" /\ Copilot!Last \in CopilotMsg
          /\ Copilot!Last.of = q /\ Copilot!Last.chunks \subseteq {q}
      <4>1. messages # <<>> /\ Copilot!Last.role = "assistant" /\ Copilot!Last.of = q
        BY <1>l, <2>2, <2>3 DEF Copilot!LastIsAnswer
      <4>2. Len(messages) \in DOMAIN messages
        BY <1>m, <4>1
      <4>3. QED
        BY <1>m, <4>1, <4>2 DEF Copilot!Last, Copilot!AnswersStandUnderTheirQuestion
    <3>2. /\ m \in CopilotMsg /\ m.role = Copilot!Last.role /\ m.of = Copilot!Last.of
          /\ m.chunks = Copilot!Last.chunks \cup {q}
      BY <3>1, CopilotChunkOf, Zenon
    <3>3. messages' = Copilot!WithLast(m)
      BY <1>13, <2>3 DEF Copilot!OnChunk
    <3> HIDE DEF m
    <3>4. m.role = "assistant" /\ m.chunks \subseteq {m.of}
      BY <3>1, <3>2
    <3>5. /\ messages' \in Seq(CopilotMsg) /\ Copilot!Last' = m
          /\ Copilot!AnswersStandUnderTheirQuestion'
      BY <1>m, <3>1, <3>2, <3>3, <3>4, CopilotLastWritten, Zenon
    <3>6. messages' # <<>> =>
            messages # <<>> /\ Copilot!Last'.role = Copilot!Last.role /\
                               Copilot!Last'.of = Copilot!Last.of
      BY <3>1, <3>2, <3>5
    <3>7. QED
      BY <1>1, <2>1, <3>5, <3>6, CopilotWrites
  <2>4. CASE ~Copilot!LastIsAnswer
    <3>1. messages' = messages
      BY <1>13, <2>4 DEF Copilot!OnChunk
    <3>2. /\ messages' \in Seq(CopilotMsg) /\ Copilot!AnswersStandUnderTheirQuestion'
          /\ Copilot!Last' = Copilot!Last
      BY <1>m, <1>l, <3>1 DEF Copilot!AnswersStandUnderTheirQuestion, Copilot!Last
    <3>3. QED
      BY <1>1, <2>1, <3>1, <3>2, CopilotWrites
  <2>5. QED
    BY <2>3, <2>4
<1>14. ASSUME NEW q \in Copilot!Questions, Copilot!Refused(q) PROVE CopilotInv'
  <2>1. /\ q \in DOMAIN requests /\ requests[q].phase = "open"
        /\ requests' = [requests EXCEPT ![q].phase = "refused"]
        /\ UNCHANGED <<messages, copilotLoading, abortRef, visits>>
    BY <1>14 DEF Copilot!Refused, Copilot!Open
  <2>2. /\ requests' \in Seq(CopilotRequest) /\ Len(requests') = Len(requests)
        /\ requests'[q].phase = "refused" /\ \A j \in DOMAIN requests : j # q =>
             requests'[j] = requests[j]
    BY <1>1, <1>2, <2>1, CopilotPhaseTo
  <2>3. /\ messages' \in Seq(CopilotMsg) /\ Copilot!AnswersStandUnderTheirQuestion'
        /\ Copilot!Last' = Copilot!Last
    BY <1>m, <2>1 DEF Copilot!AnswersStandUnderTheirQuestion, Copilot!Last
  <2>4. QED
    BY <2>1, <2>2, <2>3, CopilotWrites
<1>15. CASE UNCHANGED Copilot!chatVars
  <2>1. UNCHANGED <<messages, copilotLoading, abortRef, requests, visits>>
    BY <1>15 DEF Copilot!chatVars
  <2>2. /\ messages' \in Seq(CopilotMsg) /\ Copilot!AnswersStandUnderTheirQuestion'
        /\ Copilot!Last' = Copilot!Last
    BY <1>m, <2>1 DEF Copilot!AnswersStandUnderTheirQuestion, Copilot!Last
  <2>3. QED
    BY <1>1, <2>1, <2>2, CopilotWrites
<1>16. QED
  BY <1>4, <1>6, <1>7, <1>8, <1>9, <1>11, <1>12, <1>13, <1>14, <1>15 DEF Copilot!Next

\* The type that the runs check, and the button of the request that is out.
LEMMA CopilotIsTyped ==
  ASSUME CopilotBounds
  PROVE  CopilotInv => Copilot!TypeOK /\ Copilot!BusyIsOpen
<1> SUFFICES ASSUME CopilotInv PROVE Copilot!TypeOK /\ Copilot!BusyIsOpen
  OBVIOUS
<1>1. abortRef \in 0..MaxQuestions
  BY DEF CopilotInv, CopilotTypeInv, CopilotBounds
<1>2. \A q \in DOMAIN requests : requests[q].phase \in {"open", "refused", "ended", "unheard"}
  <2>1. \A q \in DOMAIN requests : requests[q] \in CopilotRequest
    BY DEF CopilotInv, CopilotTypeInv
  <2>2. QED
    BY <2>1 DEF CopilotRequest, CopilotPhases
<1>3. \A k \in DOMAIN messages : messages[k].role \in {"user", "assistant"} /\
        messages[k].chunks \subseteq Copilot!Questions
  <2>1. ASSUME NEW k \in DOMAIN messages
        PROVE  /\ messages[k].role \in {"user", "assistant"}
               /\ messages[k].chunks \in SUBSET Copilot!Questions
    <3>1. messages[k] \in CopilotMsg
      BY DEF CopilotInv, CopilotTypeInv
    <3>2. QED
      BY <3>1 DEF CopilotMsg
  <2>2. QED
    BY <2>1
<1>4. Copilot!BusyIsOpen
  BY Zenon DEF CopilotInv, CopilotBusyOnce, Copilot!BusyIsOpen
<1>5. QED
  BY <1>1, <1>2, <1>3, <1>4 DEF CopilotInv, CopilotTypeInv, Copilot!TypeOK

---------------------------------------------------------------------------
(* AdminUsers: a busy page has its call                                      *)

AdminsCalls == [n : Nat, what : {"ban", "resend", "delete"}, user : Users,
                stage : {"asked", "done"}, known : {"active", "banned"}]
AdminsTables == UNION {[some -> {"active", "banned"}] : some \in SUBSET Users}
AdminsReads ==
  [query : Users \cup {Admins!Everybody}, stage : {"asked", "answered", "done"},
   rows : AdminsTables]

AdminsTypeInv ==
  /\ accounts \in AdminsTables /\ adminsRows \in AdminsTables
  /\ adminsLoads \in Seq(AdminsReads)
  /\ query \in Users \cup {Admins!Everybody} /\ pause \in BOOLEAN
  /\ open \in SUBSET AdminsCalls
  /\ confirmDelete \in Users \cup {Admins!Nobody}
  /\ generatedLink \in Users \cup {Admins!Nobody}
  /\ adminsCalls \in 0..MaxAdminCalls

(* The property is inductive with the types.                                 *)
AdminsInv == AdminsTypeInv /\ Admins!BusyIsThisCall

AdminsBounds == MaxAdminLoads \in Nat /\ MaxAdminCalls \in Nat

\* A table gives some of the users a status.
LEMMA AdminsTableTypes ==
  ASSUME NEW table
  PROVE  /\ table \in AdminsTables <=>
              /\ DOMAIN table \subseteq Users /\ table = [u \in DOMAIN table |-> table[u]]
              /\ \A u \in DOMAIN table : table[u] \in {"active", "banned"}
         /\ <<>> \in AdminsTables
<1>1. table \in AdminsTables <=>
        \E some \in SUBSET Users : table \in [some -> {"active", "banned"}]
  BY DEF AdminsTables
<1>2. <<>> = [u \in {} |-> "active"]
  OBVIOUS
<1>3. [u \in {} |-> "active"] \in [{} -> {"active", "banned"}]
  OBVIOUS
<1>4. <<>> \in AdminsTables
  BY <1>2, <1>3 DEF AdminsTables
<1>5. QED
  BY <1>1, <1>4

\* A ban and a deletion leave a table.
LEMMA AdminsChangedTables ==
  ASSUME NEW table \in AdminsTables, NEW u, NEW status \in {"active", "banned"}
  PROVE  /\ [table EXCEPT ![u] = status] \in AdminsTables
         /\ [v \in DOMAIN table \ {u} |-> table[v]] \in AdminsTables
<1>1. /\ DOMAIN table \subseteq Users
      /\ \A v \in DOMAIN table : table[v] \in {"active", "banned"}
      /\ table \in [DOMAIN table -> {"active", "banned"}]
  BY AdminsTableTypes
<1>2. [table EXCEPT ![u] = status] \in [DOMAIN table -> {"active", "banned"}]
  BY <1>1
<1>3. [v \in DOMAIN table \ {u} |-> table[v]] \in [DOMAIN table \ {u} -> {"active", "banned"}]
  BY <1>1
<1>4. DOMAIN table \in SUBSET Users /\ DOMAIN table \ {u} \in SUBSET Users
  BY <1>1
<1>5. QED
  BY <1>2, <1>3, <1>4 DEF AdminsTables

\* The page as it is opened.
LEMMA AdminsInitInv == ASSUME AdminsBounds PROVE Admins!Init => AdminsInv
<1> SUFFICES ASSUME Admins!Init PROVE AdminsInv
  OBVIOUS
<1>1. accounts \in AdminsTables
  BY DEF Admins!Init, AdminsTables
<1>2. adminsRows \in AdminsTables
  BY AdminsTableTypes DEF Admins!Init
<1>3. adminsLoads \in Seq(AdminsReads)
  <2>1. [query |-> Admins!Everybody, stage |-> "asked", rows |-> <<>>] \in AdminsReads
    BY AdminsTableTypes DEF AdminsReads
  <2>2. QED
    BY <2>1 DEF Admins!Init
<1>4. open \in SUBSET AdminsCalls /\ adminsCalls \in 0..MaxAdminCalls
  BY DEF Admins!Init, AdminsBounds
<1>5. pause \in BOOLEAN
  BY Zenon DEF Admins!Init
<1>6. AdminsTypeInv
  BY <1>1, <1>2, <1>3, <1>4, <1>5 DEF Admins!Init, AdminsTypeInv
<1>7. Admins!BusyIsThisCall
  BY DEF Admins!Init, Admins!BusyIsThisCall
<1>8. QED
  BY <1>6, <1>7 DEF AdminsInv

\* One more read of the users is on its way.
LEMMA AdminsLoadTypes ==
  ASSUME NEW q \in Users \cup {Admins!Everybody}, adminsLoads \in Seq(AdminsReads),
           Admins!Load(q)
  PROVE  adminsLoads' \in Seq(AdminsReads)
<1>1. [query |-> q, stage |-> "asked", rows |-> <<>>] \in AdminsReads
  BY AdminsTableTypes DEF AdminsReads
<1>2. QED
  BY <1>1 DEF Admins!Load

(* Beginning a call keeps the types, and makes the page busy with it; it is  *)
(* the only one on its way if there was none.                                *)
LEMMA AdminsBeginCalls ==
  ASSUME NEW what \in {"ban", "resend", "delete"}, NEW u \in Users, AdminsBounds, AdminsInv,
           NEW known \in {"active", "banned"}, Admins!Begin(what, u, known)
  PROVE  /\ open' \in SUBSET AdminsCalls /\ adminsCalls' \in 0..MaxAdminCalls
         /\ adminsBusy' # Admins!Idle
         /\ \E c \in open' : /\ adminsBusy' = [what |-> c.what, user |-> c.user]
                             /\ c.what = what /\ c.user = u
                             /\ open = {} => open' = {c}
<1> DEFINE c == [n |-> adminsCalls', what |-> what, user |-> u, stage |-> "asked", known |-> known]
<1>1. open' = open \cup {c} /\ adminsBusy' = [what |-> what, user |-> u]
  BY DEF Admins!Begin
<1>2. adminsCalls' \in 0..MaxAdminCalls
  BY DEF Admins!Begin, AdminsInv, AdminsTypeInv, AdminsBounds
<1>3. c \in AdminsCalls
  BY <1>2 DEF AdminsCalls, AdminsBounds
<1>4. adminsBusy' # Admins!Idle
  BY <1>1 DEF Admins!Idle
<1>5. c.what = what /\ c.user = u
  OBVIOUS
<1> HIDE DEF c
<1>6. open' \in SUBSET AdminsCalls
  BY <1>1, <1>3 DEF AdminsInv, AdminsTypeInv
<1>7. QED
  BY <1>1, <1>2, <1>4, <1>5, <1>6

\* Searching, reading, banning, inviting again, deleting, copying, answers
\* and failures: what the page is busy with is on its way.
LEMMA AdminsStepInv ==
  ASSUME AdminsBounds
  PROVE  AdminsInv /\ [Admins!Next]_(Admins!usersVars) => AdminsInv'
<1> SUFFICES ASSUME AdminsInv, [Admins!Next]_(Admins!usersVars) PROVE AdminsInv'
  OBVIOUS
<1>1. AdminsTypeInv /\ Admins!BusyIsThisCall
  BY DEF AdminsInv
<1>2. /\ accounts \in AdminsTables /\ adminsRows \in AdminsTables
      /\ adminsLoads \in Seq(AdminsReads)
      /\ query \in Users \cup {Admins!Everybody} /\ open \in SUBSET AdminsCalls
      /\ Admins!Everybody \in Users \cup {Admins!Everybody}
      /\ Admins!Nobody \in Users \cup {Admins!Nobody}
  BY <1>1 DEF AdminsTypeInv
<1>3. ASSUME UNCHANGED <<confirmDelete, Admins!callVars>> PROVE Admins!BusyIsThisCall'
  BY <1>1, <1>3, Zenon DEF Admins!BusyIsThisCall, Admins!callVars
<1>4. CASE Admins!SessionChanges
  <2>1. AdminsTypeInv'
    BY <1>1, <1>2, <1>4, AdminsLoadTypes DEF Admins!SessionChanges, AdminsTypeInv, Admins!callVars
  <2>2. QED
    BY <1>3, <1>4, <2>1 DEF Admins!SessionChanges, AdminsInv
<1>5. ASSUME NEW q \in Users \cup {Admins!Everybody}, Admins!TypeQuery(q) PROVE AdminsInv'
  <2>1. adminsLoads' \in Seq(AdminsReads)
    BY <1>2, <1>5, AdminsLoadTypes DEF Admins!TypeQuery
  <2>2. pause' \in BOOLEAN
    BY <1>5, Zenon DEF Admins!TypeQuery
  <2>3. AdminsTypeInv'
    BY <1>1, <1>5, <2>1, <2>2 DEF Admins!TypeQuery, AdminsTypeInv, Admins!callVars
  <2>4. QED
    BY <1>3, <1>5, <2>3 DEF Admins!TypeQuery, AdminsInv
<1>6. CASE Admins!PauseEnds
  <2>1. AdminsTypeInv'
    BY <1>1, <1>2, <1>6, AdminsLoadTypes DEF Admins!PauseEnds, AdminsTypeInv, Admins!callVars
  <2>2. QED
    BY <1>3, <1>6, <2>1 DEF Admins!PauseEnds, AdminsInv
<1>7. ASSUME NEW l \in 1..MaxAdminLoads, Admins!ServerLists(l) PROVE AdminsInv'
  <2>1. adminsLoads[l] \in AdminsReads /\ l \in 1..Len(adminsLoads)
    BY <1>2, <1>7 DEF Admins!ServerLists
  <2>2. Admins!Found(adminsLoads[l].query) \in AdminsTables
    <3>1. Admins!Matches(adminsLoads[l].query) \subseteq DOMAIN accounts
      BY DEF Admins!Matches
    <3>2. /\ DOMAIN Admins!Found(adminsLoads[l].query) \subseteq Users
          /\ \A u \in DOMAIN Admins!Found(adminsLoads[l].query) :
               Admins!Found(adminsLoads[l].query)[u] \in {"active", "banned"}
      BY <1>2, <3>1, AdminsTableTypes DEF Admins!Found
    <3>3. QED
      BY <3>2, AdminsTableTypes DEF Admins!Found
  <2>3. [adminsLoads[l] EXCEPT !.stage = "answered",
         !.rows = Admins!Found(adminsLoads[l].query)] \in AdminsReads
    BY <2>1, <2>2 DEF AdminsReads
  <2>4. adminsLoads' \in Seq(AdminsReads)
    <3>1. adminsLoads' = [adminsLoads EXCEPT ![l] =
                          [adminsLoads[l] EXCEPT !.stage = "answered",
                           !.rows = Admins!Found(adminsLoads[l].query)]]
      BY <1>2, <1>7, <2>1 DEF Admins!ServerLists, AdminsReads
    <3>2. QED
      BY <1>2, <2>1, <2>3, <3>1
  <2>5. AdminsTypeInv'
    BY <1>1, <1>7, <2>4 DEF Admins!ServerLists, AdminsTypeInv, Admins!callVars, Admins!panelVars
  <2>6. QED
    BY <1>3, <1>7, <2>5 DEF Admins!ServerLists, AdminsInv, Admins!panelVars
<1>8. ASSUME NEW l \in 1..MaxAdminLoads, NEW ok \in BOOLEAN, Admins!LoadEnds(l, ok)
      PROVE AdminsInv'
  <2>1. adminsLoads[l] \in AdminsReads /\ l \in 1..Len(adminsLoads)
    BY <1>2, <1>8 DEF Admins!LoadEnds
  <2>2. adminsRows' \in AdminsTables
    BY <1>2, <1>8, <2>1 DEF Admins!LoadEnds, AdminsReads
  <2>3. [query |-> Admins!Everybody, stage |-> "done", rows |-> <<>>] \in AdminsReads
    BY AdminsTableTypes DEF AdminsReads
  <2>4. adminsLoads' \in Seq(AdminsReads)
    BY <1>2, <1>8, <2>1, <2>3 DEF Admins!LoadEnds
  <2>5. AdminsTypeInv'
    BY <1>1, <1>8, <2>2, <2>4 DEF Admins!LoadEnds, AdminsTypeInv, Admins!callVars
  <2>6. QED
    BY <1>3, <1>8, <2>5 DEF Admins!LoadEnds, AdminsInv
<1>9. ASSUME NEW u \in Users, Admins!HandleBanToggle(u) \/ Admins!HandleResend(u)
      PROVE AdminsInv'
  <2>1. /\ adminsBusy = Admins!Idle /\ u \in DOMAIN adminsRows
        /\ UNCHANGED <<accounts, Admins!listVars, confirmDelete, generatedLink, overlapped>>
    BY <1>9 DEF Admins!HandleBanToggle, Admins!HandleResend, Admins!Offered, Admins!RowIsFree,
           Admins!Begin
  <2>2. adminsRows[u] \in {"active", "banned"}
    BY <1>2, <2>1, AdminsTableTypes
  <2>3. PICK what \in {"ban", "resend"} : Admins!Begin(what, u, adminsRows[u])
    BY <1>9 DEF Admins!HandleBanToggle, Admins!HandleResend
  <2>4. /\ open' \in SUBSET AdminsCalls /\ adminsCalls' \in 0..MaxAdminCalls
        /\ adminsBusy' # Admins!Idle
        /\ \E c \in open' : /\ adminsBusy' = [what |-> c.what, user |-> c.user]
                            /\ c.what = what /\ c.user = u
                            /\ open = {} => open' = {c}
    BY <2>2, <2>3, AdminsBeginCalls
  <2>5. AdminsTypeInv'
    BY <1>1, <2>1, <2>4 DEF AdminsTypeInv, Admins!listVars
  <2>6. overlapped' = overlapped
    BY <2>1
  <2>7. ~overlapped => open = {}
    BY <1>1, <2>1 DEF Admins!BusyIsThisCall
  <2>8. ~overlapped' => \E c \in open' : open' = {c} /\ c.what # "delete"
    BY <2>3, <2>4, <2>6, <2>7
  <2>9. Admins!BusyIsThisCall'
    BY <2>4, <2>8 DEF Admins!BusyIsThisCall
  <2>10. QED
    BY <2>5, <2>9 DEF AdminsInv
<1>10. CASE Admins!HandleDelete
  <2>1. /\ confirmDelete \in Users /\ Admins!Begin("delete", confirmDelete, "active")
        /\ UNCHANGED <<accounts, Admins!listVars, confirmDelete, generatedLink>>
    BY <1>1, <1>10 DEF Admins!HandleDelete, Admins!Begin, AdminsTypeInv
  <2>2. /\ open' \in SUBSET AdminsCalls /\ adminsCalls' \in 0..MaxAdminCalls
        /\ adminsBusy' # Admins!Idle
        /\ \E c \in open' : /\ adminsBusy' = [what |-> c.what, user |-> c.user]
                            /\ c.what = "delete" /\ c.user = confirmDelete
                            /\ open = {} => open' = {c}
    BY <2>1, AdminsBeginCalls
  <2>3. AdminsTypeInv'
    BY <1>1, <2>1, <2>2 DEF AdminsTypeInv, Admins!listVars
  <2>4. ~overlapped' => ~overlapped /\ adminsBusy = Admins!Idle
    BY <1>10, Zenon DEF Admins!HandleDelete
  <2>5. ~overlapped' => open = {}
    BY <1>1, <2>4 DEF Admins!BusyIsThisCall
  <2>6. ~overlapped' => \E c \in open' : open' = {c} /\ c.user = confirmDelete'
    BY <2>1, <2>2, <2>5
  <2>7. Admins!BusyIsThisCall'
    BY <2>2, <2>6 DEF Admins!BusyIsThisCall
  <2>8. QED
    BY <2>3, <2>7 DEF AdminsInv
<1>11. ASSUME NEW u \in Users, Admins!AskDelete(u) PROVE AdminsInv'
  <2>1. /\ adminsBusy = Admins!Idle /\ confirmDelete' = u
        /\ UNCHANGED <<accounts, Admins!listVars, adminsBusy, open, generatedLink, adminsCalls>>
    BY <1>11 DEF Admins!AskDelete, Admins!RowIsFree, Admins!callVars
  <2>2. overlapped' = overlapped
    BY <1>11 DEF Admins!AskDelete, Admins!callVars
  <2>3. ~overlapped => open' = {}
    BY <1>1, <2>1 DEF Admins!BusyIsThisCall
  <2>4. Admins!BusyIsThisCall'
    BY <2>1, <2>2, <2>3 DEF Admins!BusyIsThisCall
  <2>5. QED
    BY <1>1, <2>1, <2>4 DEF AdminsInv, AdminsTypeInv, Admins!listVars
<1>12. CASE Admins!CancelDelete
  <2>1. /\ confirmDelete' = Admins!Nobody
        /\ UNCHANGED <<accounts, Admins!listVars, adminsBusy, open, generatedLink, adminsCalls>>
    BY <1>12 DEF Admins!CancelDelete, Admins!callVars
  <2>2. overlapped' = overlapped
    BY <1>12 DEF Admins!CancelDelete, Admins!callVars
  <2>3. Admins!BusyIsThisCall'
    BY <1>1, <2>1, <2>2 DEF Admins!BusyIsThisCall
  <2>4. QED
    BY <1>1, <2>1, <2>3 DEF AdminsInv, AdminsTypeInv, Admins!listVars
<1>13. ASSUME NEW c \in open, Admins!Serve(c) PROVE AdminsInv'
  <2>1. c \in AdminsCalls
    BY <1>1, <1>13 DEF AdminsTypeInv
  <2>2. accounts' \in AdminsTables
    <3>1. Admins!Toggled(c.known) \in {"active", "banned"}
      BY DEF Admins!Toggled
    <3>2. \/ accounts' = accounts
          \/ accounts' = [accounts EXCEPT ![c.user] = Admins!Toggled(c.known)]
          \/ accounts' = [u \in DOMAIN accounts \ {c.user} |-> accounts[u]]
      BY <1>13 DEF Admins!Serve
    <3>3. /\ [accounts EXCEPT ![c.user] = Admins!Toggled(c.known)] \in AdminsTables
          /\ [u \in DOMAIN accounts \ {c.user} |-> accounts[u]] \in AdminsTables
      BY <1>2, <3>1, AdminsChangedTables
    <3>4. QED
      BY <1>2, <3>2, <3>3
  <2> DEFINE d == [c EXCEPT !.stage = "done"]
  <2>3. d \in AdminsCalls /\ d.what = c.what /\ d.user = c.user
    BY <2>1 DEF AdminsCalls
  <2>4. /\ open' = (open \ {c}) \cup {d}
        /\ UNCHANGED <<Admins!listVars, adminsBusy, Admins!panelVars, adminsCalls>>
    BY <1>13 DEF Admins!Serve
  <2> HIDE DEF d
  <2>5. overlapped' = overlapped /\ confirmDelete' = confirmDelete
    BY <1>13 DEF Admins!Serve, Admins!panelVars
  <2>6. Admins!BusyIsThisCall'
    BY <1>1, <2>3, <2>4, <2>5 DEF Admins!BusyIsThisCall
  <2>7. QED
    BY <1>1, <2>2, <2>3, <2>4, <2>6 DEF AdminsInv, AdminsTypeInv, Admins!listVars,
           Admins!panelVars
<1>14. ASSUME NEW c \in open, Admins!Answer(c) PROVE AdminsInv'
  <2>1. c \in AdminsCalls
    BY <1>1, <1>14 DEF AdminsTypeInv
  <2>2. adminsRows' \in AdminsTables
    <3>1. Admins!Toggled(c.known) \in {"active", "banned"}
      BY DEF Admins!Toggled
    <3>2. \/ adminsRows' = adminsRows
          \/ adminsRows' = [adminsRows EXCEPT ![c.user] = Admins!Toggled(c.known)]
          \/ adminsRows' = [u \in DOMAIN adminsRows \ {c.user} |-> adminsRows[u]]
      BY <1>14 DEF Admins!Answer, Admins!Settled
    <3>3. /\ [adminsRows EXCEPT ![c.user] = Admins!Toggled(c.known)] \in AdminsTables
          /\ [u \in DOMAIN adminsRows \ {c.user} |-> adminsRows[u]] \in AdminsTables
      BY <1>2, <3>1, AdminsChangedTables
    <3>4. QED
      BY <1>2, <3>2, <3>3
  <2>3. /\ open' = open \ {c} /\ adminsBusy' = Admins!Idle
        /\ generatedLink' \in Users \cup {Admins!Nobody}
        /\ confirmDelete' \in {confirmDelete, Admins!Nobody}
        /\ UNCHANGED <<accounts, query, pause, adminsLoads, adminsCalls>>
    BY <1>1, <1>14, <2>1 DEF Admins!Answer, AdminsTypeInv, AdminsCalls
  <2>4. overlapped' = overlapped
    BY <1>14 DEF Admins!Answer
  <2>5. Admins!BusyIsThisCall'
    BY <1>1, <1>14, <2>3, <2>4 DEF Admins!BusyIsThisCall
  <2>6. QED
    BY <1>1, <2>2, <2>3, <2>5 DEF AdminsInv, AdminsTypeInv
<1>15. ASSUME NEW c \in open, Admins!CallFails(c) PROVE AdminsInv'
  <2>1. /\ adminsBusy' = Admins!Idle /\ open' = open \ {c}
        /\ UNCHANGED <<accounts, Admins!listVars, confirmDelete, generatedLink, adminsCalls>>
    BY <1>15 DEF Admins!CallFails
  <2>2. overlapped' = overlapped
    BY <1>15 DEF Admins!CallFails
  <2>3. Admins!BusyIsThisCall'
    BY <1>1, <1>15, <2>1, <2>2 DEF Admins!BusyIsThisCall
  <2>4. QED
    BY <1>1, <2>1, <2>3 DEF AdminsInv, AdminsTypeInv, Admins!listVars
<1>16. CASE Admins!CopyLink \/ UNCHANGED Admins!usersVars
  <2>1. UNCHANGED <<accounts, Admins!listVars, confirmDelete, generatedLink, Admins!callVars>>
    BY <1>16 DEF Admins!CopyLink, Admins!usersVars, Admins!listVars, Admins!callVars
  <2>2. AdminsTypeInv'
    BY <1>1, <2>1 DEF AdminsTypeInv, Admins!listVars, Admins!callVars
  <2>3. QED
    BY <1>3, <2>1, <2>2 DEF AdminsInv
<1>17. QED
  BY <1>4, <1>5, <1>6, <1>7, <1>8, <1>9, <1>10, <1>11, <1>12, <1>13, <1>14, <1>15, <1>16
       DEF Admins!Next

\* The type that the runs check.
LEMMA AdminsIsTyped == AdminsInv => Admins!TypeOK
BY AdminsTableTypes DEF AdminsInv, AdminsTypeInv, Admins!TypeOK

---------------------------------------------------------------------------
(* AlertsPage: an acknowledged alert is, or it is said that it failed        *)

AlertsLists == [PageAlerts -> BOOLEAN] \cup {<<>>}
AlertsCounts == 0..Cardinality(PageAlerts)
AlertsReads == [rows : AlertsLists, count : AlertsCounts]
AlertsLoads == [n : Nat, mode : {"initial", "refresh"}, answer : AlertsReads]
AlertsAcks == [n : Nat, ids : SUBSET PageAlerts, all : BOOLEAN, waiting : SUBSET PageAlerts,
               previous : AlertsLists,
         stage : {"asked", "reading"}, answer : AlertsReads]

AlertsTypeInv ==
  /\ acknowledged \in SUBSET PageAlerts /\ alertsRows \in AlertsLists
  /\ unacknowledged \in AlertsCounts
  /\ acknowledgingId \in PageAlerts \cup {Alerts!Nobody}
  /\ loadingCardId \in PageAlerts \cup {Alerts!Nobody}
  /\ actionCards \in SUBSET PageAlerts /\ alertsError \in BOOLEAN /\ work \in 0..MaxWork
  /\ alertsLoads \in SUBSET AlertsLoads /\ acks \in SUBSET AlertsAcks
  /\ cardReads \in SUBSET [n : Nat, alert : PageAlerts]

(* An answer on its way lists as acknowledged only what is: nothing is ever  *)
(* taken back on the server.                                                 *)
AlertsShown(list) == {a \in DOMAIN list : list[a]}
AlertsAnswersAreTrue ==
  /\ \A l \in alertsLoads : AlertsShown(l.answer.rows) \subseteq acknowledged
  /\ \A k \in acks : AlertsShown(k.answer.rows) \subseteq acknowledged

(* The button waits for the acknowledgement of this alert alone. *)
AlertsButtonsWait ==
  /\ acknowledgingId # Alerts!Nobody => \E k \in acks : ~k.all /\ k.ids = {acknowledgingId}
  /\ loadingCardId # Alerts!Nobody => \E c \in cardReads : c.alert = loadingCardId
  /\ refreshing => \E l \in alertsLoads : l.mode = "refresh"
  /\ alertsLoading => \E l \in alertsLoads : l.mode = "initial"

(* What is shown as acknowledged is, or its request is on its way, or it is  *)
(* said, or read again.                                                      *)
AlertsAsked == UNION {k.waiting : k \in {k \in acks : k.stage = "asked"}}
AlertsSaid == alertsError \/ alertsLoads # {} \/ \E k \in acks : k.stage = "reading"
AlertsShownOrSaid ==
  AlertsSaid \/ AlertsShown(alertsRows) \subseteq acknowledged \cup AlertsAsked

AlertsInv == AlertsTypeInv /\ AlertsAnswersAreTrue /\ AlertsButtonsWait /\ AlertsShownOrSaid

(* An instance has operators of FiniteSets of its own: they are the same.     *)
LEMMA AlertsSameCounts ==
  /\ \A S : Alerts!IsFiniteSet(S) <=> IsFiniteSet(S)
  /\ \A S : Alerts!Cardinality(S) = Cardinality(S)
BY DEF Alerts!IsFiniteSet, IsFiniteSet, Alerts!Cardinality, Cardinality

\* Before the first answer there is a list, and nothing in it is
\* acknowledged.
LEMMA AlertsNotReadIsRead ==
  ASSUME Alerts!PageAssumption
  PROVE  Alerts!NotRead \in AlertsReads /\ AlertsShown(Alerts!NotRead.rows) = {}
<1>1. Cardinality(PageAlerts) \in Nat
  BY FS_CardinalityType, AlertsSameCounts DEF Alerts!PageAssumption
<1>2. DOMAIN <<>> = {}
  OBVIOUS
<1>3. QED
  BY <1>1, <1>2 DEF Alerts!NotRead, AlertsReads, AlertsLists, AlertsCounts, AlertsShown

(* What the API answers is of this type and true. *)
LEMMA AlertsAnswersType ==
  ASSUME NEW answer \in Alerts!Answers
  PROVE  answer \in AlertsReads /\ AlertsShown(answer.rows) = acknowledged \cap PageAlerts
<1>1. /\ answer \in [rows : [PageAlerts -> BOOLEAN], count : 0..Cardinality(PageAlerts)]
      /\ answer.rows = [a \in PageAlerts |-> a \in acknowledged]
  BY AlertsSameCounts DEF Alerts!Answers, Alerts!Served
<1>2. answer \in AlertsReads
  BY <1>1 DEF AlertsReads, AlertsLists, AlertsCounts
<1>3. AlertsShown(answer.rows) = acknowledged \cap PageAlerts
  BY <1>1, Zenon DEF AlertsShown
<1>4. QED
  BY <1>2, <1>3

(* The lists that the handlers make. *)
LEMMA AlertsListTypes ==
  ASSUME NEW list \in AlertsLists, NEW a \in DOMAIN list
  PROVE  /\ [list EXCEPT ![a] = TRUE] \in AlertsLists
         /\ [b \in DOMAIN list |-> TRUE] \in AlertsLists
         /\ AlertsShown([list EXCEPT ![a] = TRUE]) = AlertsShown(list) \cup {a}
         /\ AlertsShown([b \in DOMAIN list |-> TRUE]) = AlertsShown(list) \cup
              Alerts!PendingIn(list)
         /\ DOMAIN list = PageAlerts
<1>1. DOMAIN list = PageAlerts /\ list \in [PageAlerts -> BOOLEAN]
  BY DEF AlertsLists
<1>2. [list EXCEPT ![a] = TRUE] \in AlertsLists /\ [b \in DOMAIN list |-> TRUE] \in AlertsLists
  BY <1>1, Zenon DEF AlertsLists
<1>3. AlertsShown([list EXCEPT ![a] = TRUE]) = AlertsShown(list) \cup {a}
  BY <1>1, Zenon DEF AlertsShown
<1>4. AlertsShown([b \in DOMAIN list |-> TRUE]) = AlertsShown(list) \cup Alerts!PendingIn(list)
  BY <1>1, Zenon DEF AlertsShown, Alerts!PendingIn
<1>5. QED
  BY <1>1, <1>2, <1>3, <1>4

\* The page as it is opened.
LEMMA AlertsInitInv == ASSUME Alerts!PageAssumption PROVE Alerts!Init => AlertsInv
<1> SUFFICES ASSUME Alerts!Init PROVE AlertsInv
  OBVIOUS
<1>1. /\ Alerts!NotRead \in AlertsReads /\ AlertsShown(Alerts!NotRead.rows) = {}
      /\ Cardinality(PageAlerts) \in Nat
  BY AlertsNotReadIsRead, FS_CardinalityType, AlertsSameCounts DEF Alerts!PageAssumption
<1> DEFINE first == [n |-> 0, mode |-> "initial", answer |-> Alerts!NotRead]
<1>2. /\ alertsLoads = {first} /\ first \in AlertsLoads /\ first.answer = Alerts!NotRead
      /\ first.mode = "initial"
  BY <1>1 DEF Alerts!Init, AlertsLoads
<1> HIDE DEF first
<1>3. AlertsTypeInv
  <2>1. alertsError \in BOOLEAN
    BY Zenon DEF Alerts!Init
  <2>2. unacknowledged \in AlertsCounts /\ work \in 0..MaxWork
    BY <1>1 DEF Alerts!Init, AlertsCounts, Alerts!PageAssumption
  <2>3. QED
    BY <1>2, <2>1, <2>2 DEF Alerts!Init, AlertsTypeInv, AlertsLists
<1>4. AlertsAnswersAreTrue
  BY <1>1, <1>2 DEF Alerts!Init, AlertsAnswersAreTrue
<1>5. AlertsButtonsWait
  BY <1>2 DEF Alerts!Init, AlertsButtonsWait
<1>6. AlertsShownOrSaid
  BY <1>2 DEF AlertsShownOrSaid, AlertsSaid
<1>7. QED
  BY <1>3, <1>4, <1>5, <1>6 DEF AlertsInv

\* Reading, acknowledging one or all, opening a card and every answer keep
\* what is shown true or said.
LEMMA AlertsStepInv ==
  ASSUME Alerts!PageAssumption
  PROVE  AlertsInv /\ [Alerts!Next]_(Alerts!alertsVars) => AlertsInv'
<1> SUFFICES ASSUME AlertsInv, [Alerts!Next]_(Alerts!alertsVars) PROVE AlertsInv'
  OBVIOUS
<1>1. AlertsTypeInv /\ AlertsAnswersAreTrue /\ AlertsButtonsWait /\ AlertsShownOrSaid
  BY DEF AlertsInv
<1>2. /\ alertsRows \in AlertsLists /\ alertsLoads \in SUBSET AlertsLoads
      /\ acks \in SUBSET AlertsAcks /\ acknowledged \in SUBSET PageAlerts
      /\ work \in Nat /\ alertsError \in BOOLEAN /\ unacknowledged \in AlertsCounts
      /\ acknowledgingId \in PageAlerts \cup {Alerts!Nobody} /\ MaxWork \in Nat
      /\ Cardinality(PageAlerts) \in Nat
      /\ Alerts!NotRead \in AlertsReads /\ AlertsShown(Alerts!NotRead.rows) = {}
  BY <1>1, AlertsNotReadIsRead, FS_CardinalityType, AlertsSameCounts
     DEF AlertsTypeInv, Alerts!PageAssumption
<1>3. ASSUME Alerts!Begin PROVE work' \in 0..MaxWork /\ work' \in Nat
  BY <1>2, <1>3 DEF Alerts!Begin
<1>4. ASSUME NEW a \in PageAlerts, Alerts!OtherAcknowledges(a) PROVE AlertsInv'
  <2>1. /\ acknowledged' = acknowledged \cup {a}
        /\ UNCHANGED <<alertsRows, unacknowledged, alertsLoading, refreshing, alertsError,
                       acknowledgingId, Alerts!cardVars, alertsLoads, acks, work>>
    BY <1>4 DEF Alerts!OtherAcknowledges
  <2>2. AlertsTypeInv'
    BY <1>1, <2>1 DEF AlertsTypeInv, Alerts!cardVars
  <2>3. AlertsAnswersAreTrue'
    BY <1>1, <2>1 DEF AlertsAnswersAreTrue
  <2>4. AlertsButtonsWait'
    BY <1>1, <2>1 DEF AlertsButtonsWait, Alerts!cardVars
  <2>5. AlertsShownOrSaid'
    <3>1. /\ AlertsSaid' = AlertsSaid /\ AlertsAsked' = AlertsAsked
          /\ AlertsShown(alertsRows)' = AlertsShown(alertsRows)
      BY <2>1 DEF AlertsSaid, AlertsAsked
    <3>2. QED
      BY <1>1, <2>1, <3>1 DEF AlertsShownOrSaid
  <2>6. QED
    BY <2>2, <2>3, <2>4, <2>5 DEF AlertsInv
<1>5. CASE Alerts!Refresh
  <2> DEFINE l == [n |-> work', mode |-> "refresh", answer |-> Alerts!NotRead]
  <2>1. /\ alertsLoads' = alertsLoads \cup {l} /\ refreshing' = TRUE /\ alertsError' = FALSE
        /\ work' \in 0..MaxWork
        /\ UNCHANGED <<acknowledged, alertsRows, unacknowledged, alertsLoading, acknowledgingId,
                       Alerts!cardVars, acks>>
    BY <1>3, <1>5 DEF Alerts!Refresh
  <2>2. l \in AlertsLoads /\ l.mode = "refresh" /\ l.answer = Alerts!NotRead
    BY <1>2, <1>3, <1>5 DEF Alerts!Refresh, AlertsLoads
  <2> HIDE DEF l
  <2>3. AlertsTypeInv'
    BY <1>1, <2>1, <2>2 DEF AlertsTypeInv, Alerts!cardVars
  <2>4. AlertsAnswersAreTrue'
    BY <1>1, <1>2, <2>1, <2>2 DEF AlertsAnswersAreTrue
  <2>5. AlertsButtonsWait'
    BY <1>1, <2>1, <2>2 DEF AlertsButtonsWait, Alerts!cardVars
  <2>6. AlertsShownOrSaid'
    BY <2>1 DEF AlertsShownOrSaid, AlertsSaid
  <2>7. QED
    BY <2>3, <2>4, <2>5, <2>6 DEF AlertsInv
<1>6. ASSUME NEW l \in alertsLoads, Alerts!ServerLists(l) PROVE AlertsInv'
  <2>1. PICK answer \in Alerts!Answers : alertsLoads' = (alertsLoads \ {l}) \cup
          {[l EXCEPT !.answer = answer]}
    BY <1>6 DEF Alerts!ServerLists
  <2>2. UNCHANGED <<acknowledged, alertsRows, unacknowledged, alertsLoading, refreshing,
                    alertsError, acknowledgingId, Alerts!cardVars, acks, work>>
    BY <1>6 DEF Alerts!ServerLists
  <2>3. answer \in AlertsReads /\ AlertsShown(answer.rows) \subseteq acknowledged
    BY AlertsAnswersType
  <2> DEFINE m == [l EXCEPT !.answer = answer]
  <2>4. m \in AlertsLoads /\ m.mode = l.mode /\ m.answer = answer
    BY <1>2, <2>3 DEF AlertsLoads
  <2>5. alertsLoads' = (alertsLoads \ {l}) \cup {m}
    BY <2>1
  <2> HIDE DEF m
  <2>6. AlertsTypeInv'
    BY <1>1, <2>2, <2>4, <2>5 DEF AlertsTypeInv, Alerts!cardVars
  <2>7. AlertsAnswersAreTrue'
    BY <1>1, <2>2, <2>3, <2>4, <2>5 DEF AlertsAnswersAreTrue
  <2>8. AlertsButtonsWait'
    BY <1>1, <2>2, <2>4, <2>5 DEF AlertsButtonsWait, Alerts!cardVars
  <2>9. AlertsShownOrSaid'
    BY <2>5 DEF AlertsShownOrSaid, AlertsSaid
  <2>10. QED
    BY <2>6, <2>7, <2>8, <2>9 DEF AlertsInv
<1>7. ASSUME NEW l \in alertsLoads, Alerts!LoadEnds(l) PROVE AlertsInv'
  <2>1. /\ alertsLoads' = alertsLoads \ {l}
        /\ UNCHANGED <<acknowledged, acknowledgingId, Alerts!cardVars, acks, work>>
    BY <1>7 DEF Alerts!LoadEnds
  <2>2. l \in AlertsLoads /\ AlertsShown(l.answer.rows) \subseteq acknowledged
    BY <1>1, <1>2 DEF AlertsAnswersAreTrue
  <2>3. \/ alertsRows' = l.answer.rows /\ unacknowledged' = l.answer.count /\
             alertsError' = alertsError
        \/ alertsError' = TRUE /\ alertsRows' = alertsRows /\ unacknowledged' = unacknowledged
    BY <1>7 DEF Alerts!LoadEnds
  <2>4. AlertsTypeInv'
    <3>1. alertsError' \in BOOLEAN
      BY <1>2, <2>3, Zenon
    <3>2. alertsRows' \in AlertsLists /\ unacknowledged' \in AlertsCounts
      BY <1>2, <2>2, <2>3 DEF AlertsLoads, AlertsReads
    <3>3. QED
      BY <1>1, <2>1, <3>1, <3>2 DEF AlertsTypeInv, Alerts!cardVars
  <2>5. AlertsAnswersAreTrue'
    BY <1>1, <2>1 DEF AlertsAnswersAreTrue
  <2>6. AlertsButtonsWait'
    <3>1. /\ refreshing' => refreshing /\ l.mode # "refresh"
          /\ alertsLoading' => alertsLoading /\ l.mode # "initial"
      BY <1>7 DEF Alerts!LoadEnds
    <3>2. QED
      BY <1>1, <2>1, <3>1 DEF AlertsButtonsWait, Alerts!cardVars
  <2>7. AlertsShownOrSaid'
    <3>1. CASE alertsError' = TRUE
      BY <3>1 DEF AlertsShownOrSaid, AlertsSaid
    <3>2. CASE alertsRows' = l.answer.rows
      BY <2>1, <2>2, <3>2 DEF AlertsShownOrSaid
    <3>3. QED
      BY <2>3, <3>1, <3>2
  <2>8. QED
    BY <2>4, <2>5, <2>6, <2>7 DEF AlertsInv
<1>8. ASSUME NEW a \in PageAlerts, Alerts!HandleAcknowledge(a) PROVE AlertsInv'
  <2> DEFINE k == Alerts!Acknowledging({a}, FALSE)
  <2>1. /\ acks' = acks \cup {k} /\ acknowledgingId' = a
        /\ alertsRows' = [alertsRows EXCEPT ![a] = TRUE]
        /\ a \in Alerts!PendingIn(alertsRows) /\ work' \in 0..MaxWork /\ work' \in Nat
        /\ unacknowledged' = IF unacknowledged > 0 THEN unacknowledged - 1 ELSE 0
        /\ UNCHANGED <<acknowledged, alertsLoading, refreshing, alertsError, Alerts!cardVars,
                       alertsLoads>>
    BY <1>3, <1>8 DEF Alerts!HandleAcknowledge, Alerts!AckOffered
  <2>2. /\ k \in AlertsAcks /\ ~k.all /\ k.ids = {a} /\ k.waiting = {a} /\ k.stage = "asked"
        /\ k.answer = Alerts!NotRead
    BY <1>2, <2>1 DEF Alerts!Acknowledging, AlertsAcks
  <2> HIDE DEF k
  <2>3. unacknowledged' \in AlertsCounts
    BY <1>2, <2>1 DEF AlertsCounts
  <2>4. /\ alertsRows' \in AlertsLists
        /\ AlertsShown(alertsRows') = AlertsShown(alertsRows) \cup {a}
    BY <1>2, <2>1, AlertsListTypes DEF Alerts!PendingIn
  <2>5. AlertsTypeInv'
    BY <1>1, <2>1, <2>2, <2>3, <2>4 DEF AlertsTypeInv, Alerts!cardVars
  <2>6. AlertsAnswersAreTrue'
    BY <1>1, <1>2, <2>1, <2>2 DEF AlertsAnswersAreTrue
  <2>7. AlertsButtonsWait'
    BY <1>1, <2>1, <2>2 DEF AlertsButtonsWait, Alerts!cardVars
  <2>8. AlertsShownOrSaid'
    <3>1. AlertsAsked \cup {a} \subseteq AlertsAsked'
      BY <2>1, <2>2 DEF AlertsAsked
    <3>2. AlertsSaid => AlertsSaid'
      BY <2>1 DEF AlertsSaid
    <3>3. QED
      BY <1>1, <2>1, <2>4, <3>1, <3>2 DEF AlertsShownOrSaid
  <2>9. QED
    BY <2>5, <2>6, <2>7, <2>8 DEF AlertsInv
<1>9. CASE Alerts!HandleAcknowledgeAll
  <2> DEFINE k == Alerts!Acknowledging(Alerts!PendingIn(alertsRows), TRUE)
  <2>1. /\ acks' = acks \cup {k} /\ alertsRows' = [a \in DOMAIN alertsRows |-> TRUE]
        /\ unacknowledged' = 0
        /\ Alerts!PendingIn(alertsRows) # {} /\ work' \in 0..MaxWork /\ work' \in Nat
        /\ UNCHANGED <<acknowledged, alertsLoading, refreshing, alertsError, acknowledgingId,
                       Alerts!cardVars, alertsLoads>>
    BY <1>3, <1>9 DEF Alerts!HandleAcknowledgeAll
  <2>2. PICK b \in DOMAIN alertsRows : TRUE
    BY <2>1 DEF Alerts!PendingIn
  <2>3. /\ alertsRows' \in AlertsLists
        /\ AlertsShown(alertsRows') = AlertsShown(alertsRows) \cup Alerts!PendingIn(alertsRows)
        /\ Alerts!PendingIn(alertsRows) \in SUBSET PageAlerts
    BY <1>2, <2>1, <2>2, AlertsListTypes DEF Alerts!PendingIn
  <2>4. /\ k \in AlertsAcks /\ k.waiting = Alerts!PendingIn(alertsRows) /\ k.stage = "asked"
        /\ k.answer = Alerts!NotRead
    BY <1>2, <2>1, <2>3 DEF Alerts!Acknowledging, AlertsAcks
  <2> HIDE DEF k
  <2>5. unacknowledged' \in AlertsCounts
    BY <1>2, <2>1 DEF AlertsCounts
  <2>6. AlertsTypeInv'
    BY <1>1, <2>1, <2>3, <2>4, <2>5 DEF AlertsTypeInv, Alerts!cardVars
  <2>7. AlertsAnswersAreTrue'
    BY <1>1, <1>2, <2>1, <2>4 DEF AlertsAnswersAreTrue
  <2>8. AlertsButtonsWait'
    BY <1>1, <2>1 DEF AlertsButtonsWait, Alerts!cardVars
  <2>9. AlertsShownOrSaid'
    <3>1. AlertsAsked \cup Alerts!PendingIn(alertsRows) \subseteq AlertsAsked'
      BY <2>1, <2>4 DEF AlertsAsked
    <3>2. AlertsSaid => AlertsSaid'
      BY <2>1 DEF AlertsSaid
    <3>3. QED
      BY <1>1, <2>1, <2>3, <3>1, <3>2 DEF AlertsShownOrSaid
  <2>10. QED
    BY <2>6, <2>7, <2>8, <2>9 DEF AlertsInv
<1>10. ASSUME NEW k \in acks, NEW a \in k.waiting, Alerts!ServerAcknowledges(k, a)
       PROVE AlertsInv'
  <2> DEFINE m == [k EXCEPT !.waiting = @ \ {a}]
  <2>1. /\ k.stage = "asked" /\ acknowledged' = acknowledged \cup {a}
        /\ acks' = (acks \ {k}) \cup {m}
        /\ UNCHANGED <<alertsRows, unacknowledged, alertsLoading, refreshing, alertsError,
                       acknowledgingId, Alerts!cardVars, alertsLoads, work>>
    BY <1>10 DEF Alerts!ServerAcknowledges
  <2>2. /\ m \in AlertsAcks /\ m.all = k.all /\ m.ids = k.ids /\ m.waiting = k.waiting \ {a}
        /\ m.stage = "asked" /\ m.answer = k.answer /\ a \in PageAlerts
    BY <1>2, <2>1 DEF AlertsAcks
  <2> HIDE DEF m
  <2>3. AlertsTypeInv'
    BY <1>1, <2>1, <2>2 DEF AlertsTypeInv, Alerts!cardVars
  <2>4. AlertsAnswersAreTrue'
    BY <1>1, <2>1, <2>2 DEF AlertsAnswersAreTrue
  <2>5. AlertsButtonsWait'
    BY <1>1, <2>1, <2>2 DEF AlertsButtonsWait, Alerts!cardVars
  <2>6. AlertsShownOrSaid'
    <3>1. AlertsAsked \ {a} \subseteq AlertsAsked'
      BY <2>1, <2>2 DEF AlertsAsked
    <3>2. AlertsSaid => AlertsSaid'
      BY <2>1, <2>2 DEF AlertsSaid
    <3>3. QED
      BY <1>1, <2>1, <3>1, <3>2 DEF AlertsShownOrSaid
  <2>7. QED
    BY <2>3, <2>4, <2>5, <2>6 DEF AlertsInv
<1>11. ASSUME NEW k \in acks, Alerts!AckEnds(k) PROVE AlertsInv'
  <2>1. /\ k.stage = "asked" /\ k.waiting = {} /\ acks' = acks \ {k}
        /\ acknowledgingId' = Alerts!Freed(k)
        /\ UNCHANGED <<acknowledged, alertsRows, unacknowledged, alertsLoading, refreshing,
                       alertsError, Alerts!cardVars, alertsLoads, work>>
    BY <1>11 DEF Alerts!AckEnds
  <2>2. k.all \in BOOLEAN
    BY <1>2 DEF AlertsAcks
  <2>3. AlertsTypeInv'
    BY <1>1, <2>1 DEF AlertsTypeInv, Alerts!cardVars, Alerts!Freed
  <2>4. AlertsAnswersAreTrue'
    BY <1>1, <2>1 DEF AlertsAnswersAreTrue
  <2>5. AlertsButtonsWait'
    <3>1. CASE k.all
      BY <1>1, <2>1, <3>1 DEF AlertsButtonsWait, Alerts!cardVars, Alerts!Freed
    <3>2. CASE ~k.all
      BY <1>1, <2>1, <3>2 DEF AlertsButtonsWait, Alerts!cardVars, Alerts!Freed
    <3>3. QED
      BY <3>1, <3>2
  <2>6. AlertsShownOrSaid'
    <3>1. AlertsAsked \subseteq AlertsAsked'
      BY <2>1 DEF AlertsAsked
    <3>2. AlertsSaid => AlertsSaid'
      BY <2>1 DEF AlertsSaid
    <3>3. QED
      BY <1>1, <2>1, <3>1, <3>2 DEF AlertsShownOrSaid
  <2>7. QED
    BY <2>3, <2>4, <2>5, <2>6 DEF AlertsInv
<1>12. ASSUME NEW k \in acks, Alerts!AckFails(k) PROVE AlertsInv'
  <2> DEFINE m == [k EXCEPT !.stage = "reading"]
  <2>1. /\ alertsRows' = k.previous /\ acks' = (acks \ {k}) \cup {m}
        /\ UNCHANGED <<acknowledged, unacknowledged, alertsLoading, refreshing, alertsError,
                       acknowledgingId, Alerts!cardVars, alertsLoads, work>>
    BY <1>12 DEF Alerts!AckFails
  <2>2. /\ m \in AlertsAcks /\ m.all = k.all /\ m.ids = k.ids /\ m.stage = "reading"
        /\ m.answer = k.answer
        /\ k.previous \in AlertsLists
    BY <1>2 DEF AlertsAcks
  <2> HIDE DEF m
  <2>3. AlertsTypeInv'
    BY <1>1, <2>1, <2>2 DEF AlertsTypeInv, Alerts!cardVars
  <2>4. AlertsAnswersAreTrue'
    BY <1>1, <2>1, <2>2 DEF AlertsAnswersAreTrue
  <2>5. AlertsButtonsWait'
    BY <1>1, <2>1, <2>2 DEF AlertsButtonsWait, Alerts!cardVars
  <2>6. AlertsShownOrSaid'
    BY <2>1, <2>2 DEF AlertsShownOrSaid, AlertsSaid
  <2>7. QED
    BY <2>3, <2>4, <2>5, <2>6 DEF AlertsInv
<1>13. ASSUME NEW k \in acks, Alerts!ServerRelists(k) PROVE AlertsInv'
  <2>1. PICK answer \in Alerts!Answers : acks' = (acks \ {k}) \cup
          {[k EXCEPT !.answer = answer]}
    BY <1>13 DEF Alerts!ServerRelists
  <2>2. /\ k.stage = "reading"
        /\ UNCHANGED <<acknowledged, alertsRows, unacknowledged, alertsLoading, refreshing,
                       alertsError, acknowledgingId, Alerts!cardVars, alertsLoads, work>>
    BY <1>13 DEF Alerts!ServerRelists
  <2>3. answer \in AlertsReads /\ AlertsShown(answer.rows) \subseteq acknowledged
    BY AlertsAnswersType
  <2> DEFINE m == [k EXCEPT !.answer = answer]
  <2>4. /\ m \in AlertsAcks /\ m.all = k.all /\ m.ids = k.ids /\ m.stage = "reading"
        /\ m.answer = answer
    BY <1>2, <2>2, <2>3 DEF AlertsAcks
  <2>5. acks' = (acks \ {k}) \cup {m}
    BY <2>1
  <2> HIDE DEF m
  <2>6. AlertsTypeInv'
    BY <1>1, <2>2, <2>4, <2>5 DEF AlertsTypeInv, Alerts!cardVars
  <2>7. AlertsAnswersAreTrue'
    BY <1>1, <2>2, <2>3, <2>4, <2>5 DEF AlertsAnswersAreTrue
  <2>8. AlertsButtonsWait'
    BY <1>1, <2>2, <2>4, <2>5 DEF AlertsButtonsWait, Alerts!cardVars
  <2>9. AlertsShownOrSaid'
    BY <2>4, <2>5 DEF AlertsShownOrSaid, AlertsSaid
  <2>10. QED
    BY <2>6, <2>7, <2>8, <2>9 DEF AlertsInv
<1>14. ASSUME NEW k \in acks, Alerts!Reverted(k) PROVE AlertsInv'
  <2>1. /\ acks' = acks \ {k} /\ acknowledgingId' = Alerts!Freed(k) /\ alertsError' = TRUE
        /\ UNCHANGED <<acknowledged, alertsLoading, refreshing, Alerts!cardVars, alertsLoads,
                       work>>
    BY <1>14 DEF Alerts!Reverted, Alerts!SaysReverted
  <2>2. \/ alertsRows' = k.answer.rows /\ unacknowledged' = k.answer.count
        \/ alertsRows' = alertsRows /\ unacknowledged' = unacknowledged
    BY <1>14 DEF Alerts!Reverted
  <2>3. k.all \in BOOLEAN /\ alertsRows' \in AlertsLists /\ unacknowledged' \in AlertsCounts
    BY <1>2, <2>2 DEF AlertsAcks, AlertsReads
  <2>4. AlertsTypeInv'
    BY <1>1, <2>1, <2>3 DEF AlertsTypeInv, Alerts!cardVars, Alerts!Freed
  <2>5. AlertsAnswersAreTrue'
    BY <1>1, <2>1 DEF AlertsAnswersAreTrue
  <2>6. AlertsButtonsWait'
    <3>1. CASE k.all
      BY <1>1, <2>1, <3>1 DEF AlertsButtonsWait, Alerts!cardVars, Alerts!Freed
    <3>2. CASE ~k.all
      BY <1>1, <2>1, <3>2 DEF AlertsButtonsWait, Alerts!cardVars, Alerts!Freed
    <3>3. QED
      BY <3>1, <3>2
  <2>7. AlertsShownOrSaid'
    BY <2>1 DEF AlertsShownOrSaid, AlertsSaid
  <2>8. QED
    BY <2>4, <2>5, <2>6, <2>7 DEF AlertsInv
<1>15. ASSUME UNCHANGED <<acknowledged, alertsRows, unacknowledged, alertsLoading, refreshing,
                          acknowledgingId, alertsLoads, acks>>,
              alertsError => alertsError', AlertsTypeInv',
              loadingCardId' # Alerts!Nobody => \E c \in cardReads' : c.alert = loadingCardId'
       PROVE  AlertsInv'
  <2>1. AlertsAnswersAreTrue'
    BY <1>1, <1>15 DEF AlertsAnswersAreTrue
  <2>2. AlertsButtonsWait'
    BY <1>1, <1>15 DEF AlertsButtonsWait
  <2>3. AlertsShownOrSaid'
    <3>1. /\ (AlertsSaid => AlertsSaid') /\ AlertsAsked' = AlertsAsked
          /\ AlertsShown(alertsRows)' = AlertsShown(alertsRows)
      BY <1>15 DEF AlertsSaid, AlertsAsked
    <3>2. QED
      BY <1>1, <1>15, <3>1 DEF AlertsShownOrSaid
  <2>4. QED
    BY <1>15, <2>1, <2>2, <2>3 DEF AlertsInv
<1>16. ASSUME NEW a \in PageAlerts, Alerts!ToggleActionCard(a) PROVE AlertsInv'
  <2>1. UNCHANGED <<acknowledged, alertsRows, unacknowledged, alertsLoading, refreshing,
                    alertsError, acknowledgingId, alertsLoads, acks>>
    BY <1>16 DEF Alerts!ToggleActionCard
  <2>2. CASE a \in actionCards
    <3>1. actionCards' = actionCards \ {a} /\ UNCHANGED <<loadingCardId, cardReads, work>>
      BY <1>16, <2>2 DEF Alerts!ToggleActionCard
    <3>2. AlertsTypeInv'
      BY <1>1, <2>1, <3>1 DEF AlertsTypeInv
    <3>3. QED
      BY <1>1, <1>15, <2>1, <3>1, <3>2 DEF AlertsButtonsWait
  <2>3. CASE a \notin actionCards
    <3> DEFINE c == [n |-> work', alert |-> a]
    <3>1. /\ work' \in 0..MaxWork /\ work' \in Nat /\ cardReads' = cardReads \cup {c}
          /\ loadingCardId' = a /\ actionCards' = actionCards
      BY <1>3, <1>16, <2>3 DEF Alerts!ToggleActionCard
    <3>2. c \in [n : Nat, alert : PageAlerts] /\ c.alert = a
      BY <3>1
    <3> HIDE DEF c
    <3>3. AlertsTypeInv'
      BY <1>1, <2>1, <3>1, <3>2 DEF AlertsTypeInv
    <3>4. QED
      BY <1>15, <2>1, <3>1, <3>2, <3>3
  <2>4. QED
    BY <2>2, <2>3
<1>17. ASSUME NEW c \in cardReads, NEW ok \in BOOLEAN, Alerts!CardAnswered(c, ok)
       PROVE AlertsInv'
  <2>1. /\ cardReads' = cardReads \ {c} /\ loadingCardId' = Alerts!Nobody
        /\ actionCards' \in {actionCards, actionCards \cup {c.alert}}
        /\ UNCHANGED <<acknowledged, alertsRows, unacknowledged, alertsLoading, refreshing,
                       acknowledgingId, alertsLoads, acks, work>>
    BY <1>17 DEF Alerts!CardAnswered
  <2>2. (alertsError => alertsError') /\ alertsError' \in BOOLEAN
    BY <1>17, Zenon DEF Alerts!CardAnswered
  <2>3. c.alert \in PageAlerts
    BY <1>1 DEF AlertsTypeInv
  <2>4. AlertsTypeInv'
    BY <1>1, <2>1, <2>2, <2>3 DEF AlertsTypeInv
  <2>5. QED
    BY <1>15, <2>1, <2>2, <2>4
<1>18. CASE UNCHANGED Alerts!alertsVars
  <2>1. AlertsTypeInv'
    BY <1>1, <1>18 DEF AlertsTypeInv, Alerts!alertsVars, Alerts!cardVars
  <2>2. QED
    BY <1>1, <1>15, <1>18, <2>1 DEF Alerts!alertsVars, Alerts!cardVars, AlertsButtonsWait
<1>19. QED
  BY <1>4, <1>5, <1>6, <1>7, <1>8, <1>9, <1>10, <1>11, <1>12, <1>13, <1>14, <1>16, <1>17, <1>18
       DEF Alerts!Next

\* The type that the runs check.
LEMMA AlertsIsTyped == AlertsInv => Alerts!TypeOK
BY AlertsSameCounts DEF AlertsInv, AlertsTypeInv, Alerts!TypeOK, AlertsLists, AlertsCounts

\* A button waits for the request that its own press has made.
LEMMA AlertsItsOwn == AlertsInv => Alerts!WaitsForItsOwn
BY DEF AlertsInv, AlertsButtonsWait, Alerts!WaitsForItsOwn

\* An alert that is shown as acknowledged is, or will be, or it is said
\* that it failed.
LEMMA AlertsIsSaid == AlertsInv => Alerts!AcknowledgedOrSaid
<1> SUFFICES ASSUME AlertsInv, NEW a \in DOMAIN alertsRows, alertsRows[a],
                      a \notin acknowledged, ~AlertsSaid
             PROVE  \E k \in acks : k.stage = "asked" /\ a \in k.waiting
  BY DEF Alerts!AcknowledgedOrSaid, AlertsSaid
<1>1. a \in AlertsShown(alertsRows)
  BY DEF AlertsShown
<1>2. a \in AlertsAsked
  BY <1>1 DEF AlertsInv, AlertsShownOrSaid
<1>3. QED
  BY <1>2 DEF AlertsAsked

==============================================================================
