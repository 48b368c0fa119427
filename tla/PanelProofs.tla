----------------------------- MODULE PanelProofs -----------------------------
(***************************************************************************)
(* What holds of Panel for any number of sessions, failures and changes:   *)
(* the types, and the three action properties of its run.  None of them is *)
(* inductive alone.  They rest on IInv: tokens are not used before they    *)
(* are issued (Known), so that a session once over stays over; what was    *)
(* refused is over (DeadRefused); the history of a request tells what its  *)
(* checks saw (SeenFits); and an answer still to be shown is no older than *)
(* what is shown (NotNewer).                                               *)
(***************************************************************************)
EXTENDS Panel, TLAPS

Known ==
  /\ cookie <= issued /\ refused <= issued
  /\ \A c \in Callers : call[c].token <= issued

DeadRefused ==
  /\ ~Live(refused)
  /\ \A c \in Callers : Answered(c, "load", "refused") => ~Live(call[c].token)

SeenFits ==
  \A c \in Callers :
    call[c].stage = "found" => call[c].token \in expired \/ TRUE \in seen[c]

NotNewer ==
  /\ shown <= data
  /\ \A c \in Callers : carried[c] <= data
  /\ Answered(latest, "load", "ok") => shown <= carried[latest]

IInv == TypeOK /\ Known /\ DeadRefused /\ SeenFits /\ NotNewer

CallType ==
  [ask : Asks, stage : {"none", "sent", "found", "answered"},
   token : Tokens \cup {NoToken}, answer : {"none", "ok", "refused", "failed"}]

(* A step after which a request is what it was, or another stage of it. *)
Continues(c) ==
  \/ call'[c] = call[c]
  \/ call[c].stage # "none" /\ call'[c].stage # "none"

(* The functions of the page. *)
PageFunctions ==
  {"open", "bootstrap", "login", "showSection", "refreshAll", "logout", "runAutoRefresh"}

(* Whoever waits for an answer runs a function, and the other way round. *)
WaitsFit ==
  /\ call \in [Callers -> CallType]
  /\ flow \in [Callers -> PageFunctions \cup {"none"}]
  /\ \A d \in Callers : flow[d] = "none" <=> call[d] = NoCall

------------------------------------------------------------------------------
(* Types. *)

(* What a request may become keeps its type. *)
LEMMA CallsKeepTheirType ==
  ASSUME TypeOK, NEW c \in Callers
  PROVE  /\ NoCall \in CallType
         /\ \A ask \in Asks, token \in Tokens \cup {NoToken} :
              Ask(c, ask, token) => call' \in [Callers -> CallType]
         /\ \A answer \in {"none", "ok", "refused", "failed"} :
              Answer(c, answer) => call' \in [Callers -> CallType]
<1>1. call \in [Callers -> CallType]
  BY DEF TypeOK, SessionsTypeOK, CallType
<1>2. NoCall \in CallType
  BY DEF NoCall, CallType, Asks
<1>3. ASSUME NEW ask \in Asks, NEW token \in Tokens \cup {NoToken}, Ask(c, ask, token)
      PROVE  call' \in [Callers -> CallType]
  BY <1>1, <1>3 DEF Ask, CallType
<1>4. ASSUME NEW answer \in {"none", "ok", "refused", "failed"}, Answer(c, answer)
      PROVE  call' \in [Callers -> CallType]
  BY <1>1, <1>4 DEF Answer, CallType
<1>5. QED
  BY <1>2, <1>3, <1>4

(* The server, the network and the clock: the sessions and requests keep   *)
(* their types, and no request begins or ends.                             *)
LEMMA ServerKeepsTypes ==
  ASSUME TypeOK,
         \/ \E c \in Callers : Serve(c)
         \/ \E c \in Callers : Lose(c)
         \/ \E t \in InPlay : Expire(t)
         \/ Restart
  PROVE  /\ issued' \in 0 .. MaxSessions
         /\ sessions' \subseteq 1 .. issued' /\ expired' \subseteq 1 .. issued'
         /\ failures' \in 0 .. MaxFailures
         /\ call' \in [Callers -> CallType]
         /\ \A c \in Callers : Continues(c)
<1> USE SessionBoundsAssumption
<1>1. call \in [Callers -> CallType]
  BY DEF TypeOK, SessionsTypeOK, CallType
<1>2. ASSUME NEW c \in Callers, Create(c)
      PROVE  /\ issued' \in 0 .. MaxSessions /\ sessions' \subseteq 1 .. issued'
             /\ expired' \subseteq 1 .. issued'
             /\ call' \in [Callers -> CallType]
             /\ \A d \in Callers : Continues(d)
  <2>1. issued \in 0 .. MaxSessions /\ issued < MaxSessions /\ issued' = issued + 1
    BY <1>2 DEF TypeOK, SessionsTypeOK, Create
  <2>2. sessions' \subseteq 1 .. issued' /\ expired' \subseteq 1 .. issued'
    BY <1>2, <2>1 DEF TypeOK, SessionsTypeOK, Create
  <2>3. issued' \in Tokens
    BY <2>1 DEF Tokens
  <2>4. call' = [call EXCEPT ![c] = [@ EXCEPT !.stage = "answered", !.answer = "ok",
                                              !.token = issued']]
    BY <1>1, <1>2 DEF Create
  <2>5. call' \in [Callers -> CallType] /\ \A d \in Callers : Continues(d)
    BY <1>1, <1>2, <2>3, <2>4 DEF CallType, Create, Asking, Continues
  <2>6. QED
    BY <2>1, <2>2, <2>5
<1>3. ASSUME NEW c \in Callers, LoginRefused(c) \/ Look(c) \/ Lose(c)
      PROVE  /\ call' \in [Callers -> CallType]
             /\ \A d \in Callers : Continues(d)
  BY <1>1, <1>3 DEF CallType, LoginRefused, Look, Lose, Asking, Answer, Continues
<1>4. ASSUME NEW c \in Callers, Logout(c) \/ CheckExpiry(c)
      PROVE  /\ call' \in [Callers -> CallType]
             /\ \A d \in Callers : Continues(d)
             /\ sessions' \subseteq sessions
  BY <1>1, <1>4 DEF CallType, Logout, CheckExpiry, Asking, Answer, Continues, Revoke
<1>5. CASE \E c \in Callers : Serve(c)
  <2> PICK c \in Callers : Serve(c)
    BY <1>5
  <2>1. CASE Create(c)
    BY <1>2, <2>1 DEF TypeOK, SessionsTypeOK, Create
  <2>2. CASE LoginRefused(c) \/ Look(c)
    BY <1>3, <2>2 DEF TypeOK, SessionsTypeOK, LoginRefused, Look, sessionVars
  <2>3. CASE Logout(c) \/ CheckExpiry(c)
    BY <1>4, <2>3 DEF TypeOK, SessionsTypeOK, Logout, CheckExpiry
  <2>4. QED
    BY <2>1, <2>2, <2>3 DEF Serve
<1>6. CASE \E c \in Callers : Lose(c)
  BY <1>3, <1>6 DEF TypeOK, SessionsTypeOK, Lose, sessionVars
<1>7. CASE \E t \in InPlay : Expire(t)
  BY <1>1, <1>7 DEF TypeOK, SessionsTypeOK, Expire, Continues
<1>8. CASE Restart
  <2>1. \A d \in Callers :
          \/ call'[d] = call[d]
          \/ /\ call[d].stage = "found"
             /\ call'[d] = [call[d] EXCEPT !.stage = "answered", !.answer = "failed"]
    BY <1>8 DEF Restart
  <2>2. \A d \in Callers : call'[d] \in CallType /\ Continues(d)
    BY <1>1, <2>1 DEF CallType, Continues
  <2>3. call' \in [Callers -> CallType]
    BY <1>8, <2>2 DEF Restart
  <2>4. /\ failures < MaxFailures /\ failures' = failures + 1
        /\ sessions' = {} /\ UNCHANGED <<issued, expired>>
    BY <1>8 DEF Restart
  <2>5. QED
    BY <2>2, <2>3, <2>4 DEF TypeOK, SessionsTypeOK
<1>9. QED
  BY <1>5, <1>6, <1>7, <1>8

(* A caller that asks for something has a function that waits for it. *)
LEMMA AskingKeepsTypes ==
  ASSUME TypeOK, NEW c \in Callers,
         NEW ask \in Asks, NEW token \in Tokens \cup {NoToken}, Ask(c, ask, token),
         \/ \E f \in PageFunctions : Runs(c, f)
         \/ UNCHANGED flow /\ call[c].stage # "none"
  PROVE  WaitsFit'
<1> USE DEF WaitsFit
<1>1. WaitsFit
  BY DEF TypeOK, SessionsTypeOK, CallType, PageFunctions
<1>2. call' \in [Callers -> CallType]
  BY CallsKeepTheirType
<1>3. /\ call'[c].stage = "sent"
      /\ \A d \in Callers \ {c} : call'[d] = call[d]
  BY <1>1 DEF Ask
<1>4. call'[c] # NoCall
  BY <1>3 DEF NoCall
<1>5. CASE \E f \in PageFunctions : Runs(c, f)
  BY <1>1, <1>2, <1>3, <1>4, <1>5 DEF Runs, PageFunctions
<1>6. CASE UNCHANGED flow /\ call[c].stage # "none"
  <2>1. call[c] # NoCall
    BY <1>6 DEF NoCall
  <2>2. QED
    BY <1>1, <1>2, <1>3, <1>4, <1>6, <2>1
<1>7. QED
  BY <1>5, <1>6

(* A caller that is done waits for nothing. *)
LEMMA DoneKeepsTypes ==
  ASSUME TypeOK, NEW c \in Callers, Done(c)
  PROVE  /\ WaitsFit'
         /\ carried' \in [Callers -> 0 .. MaxChanges]
<1> USE DEF WaitsFit
<1>1. WaitsFit /\ carried \in [Callers -> 0 .. MaxChanges]
  BY DEF TypeOK, SessionsTypeOK, CallType, PageFunctions
<1>2. NoCall \in CallType
  BY CallsKeepTheirType
<1>3. QED
  BY <1>1, <1>2, ChangesAssumption DEF Done, Runs

(* Nobody begins to wait, nor is done. *)
LEMMA ContinuingKeepsTypes ==
  ASSUME TypeOK, UNCHANGED flow, call' \in [Callers -> CallType],
         \A c \in Callers : Continues(c)
  PROVE  WaitsFit'
<1>1. WaitsFit
  BY DEF TypeOK, SessionsTypeOK, CallType, PageFunctions, WaitsFit
<1>2. \A c \in Callers : call'[c] = NoCall <=> call[c] = NoCall
  BY DEF Continues, NoCall
<1>3. QED
  BY <1>1, <1>2 DEF WaitsFit

(* What the user does, and what he hears. *)
LEMMA UserKeepsTypes ==
  ASSUME TypeOK, seen' \in [Callers -> SUBSET BOOLEAN],
         Open \/ Login \/ Click \/ ClickLogout \/ StatusAnswered \/ LoginAnswered \/ UserLoadFails
  PROVE  TypeOK'
<1> USE CallersOfThePage
<1> USE DEF TypeOK, SessionsTypeOK, CallType, PageFunctions, WaitsFit, Asks
<1>1. User \in Callers
  OBVIOUS
<1>2. CASE Open
  <2>1. WaitsFit'
    BY <1>1, <1>2, AskingKeepsTypes DEF Open
  <2>2. QED
    BY <1>2, <2>1 DEF Open, sessionVars
<1>3. CASE Login
  <2>1. WaitsFit'
    BY <1>1, <1>3, AskingKeepsTypes DEF Login
  <2>2. QED
    BY <1>3, <2>1 DEF Login, sessionVars
<1>4. CASE Click
  <2>1. WaitsFit'
    BY <1>1, <1>4, AskingKeepsTypes DEF Click, LoadOverview
  <2>2. QED
    BY <1>4, <2>1 DEF Click, LoadOverview, sessionVars
<1>5. CASE ClickLogout
  <2>1. WaitsFit'
    BY <1>1, <1>5, AskingKeepsTypes DEF ClickLogout
  <2>2. QED
    BY <1>5, <2>1 DEF ClickLogout, sessionVars
<1>6. CASE StatusAnswered
  <2>1. CASE call[User].answer = "ok"
    <3>1. WaitsFit'
      BY <1>1, <1>6, <2>1, AskingKeepsTypes DEF StatusAnswered, LoadOverview
    <3>2. QED
      BY <1>6, <2>1, <3>1 DEF StatusAnswered, LoadOverview, SetAuthenticated, sessionVars
  <2>2. CASE call[User].answer # "ok"
    BY <1>1, <1>6, <2>2, DoneKeepsTypes DEF StatusAnswered, SetUnauthenticated, sessionVars
  <2>3. QED
    BY <2>1, <2>2
<1>7. CASE LoginAnswered
  <2>1. CASE call[User].answer = "ok"
    <3>1. WaitsFit' /\ cookie' \in Tokens \cup {NoToken}
      BY <1>1, <1>7, <2>1, AskingKeepsTypes DEF LoginAnswered, LoadOverview, Asking
    <3>2. QED
      BY <1>7, <2>1, <3>1 DEF LoginAnswered, LoadOverview, SetAuthenticated, sessionVars
  <2>2. CASE call[User].answer # "ok"
    BY <1>1, <1>7, <2>2, DoneKeepsTypes DEF LoginAnswered, SetUnauthenticated, sessionVars
  <2>3. QED
    BY <2>1, <2>2
<1>8. CASE UserLoadFails
  <2>1. CASE Done(User)
    <3>1. WaitsFit' /\ carried' \in [Callers -> 0 .. MaxChanges]
      BY <1>1, <2>1, DoneKeepsTypes
    <3>2. CASE SetUnauthenticated
      BY <1>8, <3>1, <3>2 DEF UserLoadFails, SetUnauthenticated, sessionVars
    <3>3. CASE ScheduleAutoRefresh
      BY <1>8, <3>1, <3>3 DEF UserLoadFails, ScheduleAutoRefresh, sessionVars
    <3>4. CASE UNCHANGED <<view, armed>>
      BY <1>8, <3>1, <3>4 DEF UserLoadFails, sessionVars
    <3>5. QED
      BY <1>8, <3>2, <3>3, <3>4 DEF UserLoadFails
  <2>2. CASE Ask(User, "logout", cookie) /\ UNCHANGED <<flow, carried, view, armed>>
    <3>1. call[User].stage # "none"
      BY <1>8 DEF UserLoadFails, LoadFails, Asking
    <3>2. WaitsFit'
      BY <1>1, <2>2, <3>1, AskingKeepsTypes
    <3>3. QED
      BY <1>8, <2>2, <3>2 DEF UserLoadFails, sessionVars
  <2>3. QED
    BY <1>8, <2>1, <2>2 DEF UserLoadFails
<1>9. QED
  BY <1>2, <1>3, <1>4, <1>5, <1>6, <1>7, <1>8

(* What the timer does, and what it or the user hears. *)
LEMMA AnswersKeepTypes ==
  ASSUME TypeOK, seen' \in [Callers -> SUBSET BOOLEAN],
         \/ AutoRefresh \/ AutoRefreshPutOff \/ AutoRefreshFails
         \/ \E c \in Callers : LoadSucceeds(c) \/ LogoutAnswered(c)
  PROVE  TypeOK'
<1> USE CallersOfThePage
<1> USE DEF TypeOK, SessionsTypeOK, CallType, PageFunctions, WaitsFit, Asks
<1>1. Timer \in Callers
  OBVIOUS
<1>2. CASE AutoRefresh
  <2>1. WaitsFit'
    BY <1>1, <1>2, AskingKeepsTypes DEF AutoRefresh, LoadOverview
  <2>2. QED
    BY <1>1, <1>2, <2>1 DEF AutoRefresh, LoadOverview, sessionVars
<1>3. CASE AutoRefreshPutOff
  BY <1>3 DEF AutoRefreshPutOff, allVars, sessionVars, panelVars
<1>4. CASE AutoRefreshFails
  <2>1. CASE LogsOut
    <3>1. WaitsFit'
      BY <1>1, <1>4, <2>1, AskingKeepsTypes DEF AutoRefreshFails, LogsOut, LoadFails, Asking
    <3>2. call[Timer].token \in Tokens \cup {NoToken}
      BY <1>1
    <3>3. QED
      BY <1>4, <2>1, <3>1, <3>2 DEF AutoRefreshFails, LogsOut, sessionVars
  <2>2. CASE Ignored
    <3>1. WaitsFit' /\ carried' \in [Callers -> 0 .. MaxChanges]
      BY <1>1, <2>2, DoneKeepsTypes DEF Ignored
    <3>2. QED
      BY <1>4, <2>2, <3>1 DEF AutoRefreshFails, Ignored, ScheduleAutoRefresh, sessionVars
  <2>3. QED
    BY <1>4, <2>1, <2>2 DEF AutoRefreshFails
<1>5. ASSUME NEW c \in Callers, LoadSucceeds(c) PROVE TypeOK'
  <2>1. WaitsFit' /\ carried' \in [Callers -> 0 .. MaxChanges]
    BY <1>5, DoneKeepsTypes DEF LoadSucceeds
  <2>2. shown' \in 0 .. MaxChanges
    BY <1>5 DEF LoadSucceeds, Render
  <2>3. QED
    BY <1>5, <2>1, <2>2 DEF LoadSucceeds, ScheduleAutoRefresh, sessionVars
<1>6. ASSUME NEW c \in Callers, LogoutAnswered(c) PROVE TypeOK'
  <2>1. WaitsFit' /\ carried' \in [Callers -> 0 .. MaxChanges]
    BY <1>6, DoneKeepsTypes DEF LogoutAnswered
  <2>2. QED
    BY <1>6, <2>1 DEF LogoutAnswered, SetUnauthenticated, sessionVars
<1>7. QED
  BY <1>2, <1>3, <1>4, <1>5, <1>6

(* What the server, the network, the clock and the other pages do. *)
LEMMA OthersKeepTypes ==
  ASSUME TypeOK, seen' \in [Callers -> SUBSET BOOLEAN],
         \/ \E c \in Callers : Serves(c) \/ (Lose(c) /\ UNCHANGED panelVars)
         \/ \E t \in InPlay : (Expire(t) /\ UNCHANGED panelVars) \/ OtherLogout(t)
         \/ Restart /\ UNCHANGED panelVars
         \/ Change \/ DropCookie \/ OtherLogin \/ BecomesVisible
  PROVE  TypeOK'
<1> USE SessionBoundsAssumption, ChangesAssumption
<1> USE DEF TypeOK, SessionsTypeOK, CallType, PageFunctions, WaitsFit
<1>1. ASSUME NEW c \in Callers, Serves(c) PROVE TypeOK'
  <2>1. Serve(c)
    BY <1>1 DEF Serves
  <2>2. /\ issued' \in 0 .. MaxSessions
        /\ sessions' \subseteq 1 .. issued' /\ expired' \subseteq 1 .. issued'
        /\ failures' \in 0 .. MaxFailures
        /\ call' \in [Callers -> CallType]
        /\ \A d \in Callers : Continues(d)
    BY <2>1, ServerKeepsTypes
  <2>3. WaitsFit'
    BY <1>1, <2>2, ContinuingKeepsTypes DEF Serves
  <2>4. carried' \in [Callers -> 0 .. MaxChanges]
    BY <1>1 DEF Serves
  <2>5. QED
    BY <1>1, <2>2, <2>3, <2>4 DEF Serves
<1>2. ASSUME \/ \E c \in Callers : Lose(c)
             \/ \E t \in InPlay : Expire(t)
             \/ Restart,
             UNCHANGED panelVars
      PROVE  TypeOK'
  <2>1. /\ issued' \in 0 .. MaxSessions
        /\ sessions' \subseteq 1 .. issued' /\ expired' \subseteq 1 .. issued'
        /\ failures' \in 0 .. MaxFailures
        /\ call' \in [Callers -> CallType]
        /\ \A d \in Callers : Continues(d)
    BY <1>2, ServerKeepsTypes
  <2>2. WaitsFit'
    BY <1>2, <2>1, ContinuingKeepsTypes DEF panelVars
  <2>3. QED
    BY <1>2, <2>1, <2>2 DEF panelVars
<1>3. ASSUME NEW t \in InPlay, OtherLogout(t) PROVE TypeOK'
  BY <1>3 DEF OtherLogout, Revoke, panelVars
<1>4. CASE Change
  BY <1>4 DEF Change, sessionVars
<1>5. CASE DropCookie
  BY <1>5 DEF DropCookie, sessionVars
<1>6. CASE OtherLogin
  <2>1. /\ issued' \in 1 .. MaxSessions
        /\ sessions' \subseteq 1 .. issued' /\ expired' \subseteq 1 .. issued'
        /\ cookie' \in Tokens
    BY <1>6 DEF OtherLogin, Tokens
  <2>2. QED
    BY <1>6, <2>1 DEF OtherLogin
<1>7. CASE BecomesVisible
  BY <1>7 DEF BecomesVisible, ScheduleAutoRefresh, sessionVars
<1>8. QED
  BY <1>1, <1>2, <1>3, <1>4, <1>5, <1>6, <1>7

(* Every step keeps the types. *)
LEMMA TypesKept == ASSUME TypeOK, [Next]_allVars PROVE TypeOK'
<1>1. CASE UNCHANGED allVars
  BY <1>1 DEF allVars, sessionVars, panelVars, TypeOK, SessionsTypeOK
<1>2. CASE Next
  <2>1. \A c \in Callers :
          (IF UnderWay(c) THEN seen[c] ELSE {}) \cup {Live(call[c].token)'} \in SUBSET BOOLEAN
    <3>1. \A c \in Callers : Live(call[c].token)' \in BOOLEAN
      BY DEF Live
    <3>2. QED
      BY <3>1 DEF TypeOK, SessionsTypeOK
  <2>2. seen' \in [Callers -> SUBSET BOOLEAN]
    BY <1>2, <2>1 DEF Next, Watch
  <2>3. QED
    BY <1>2, <2>2, UserKeepsTypes, AnswersKeepTypes, OthersKeepTypes, CallersOfThePage
    DEF Next, UserHears, TimerHears
<1>3. QED
  BY <1>1, <1>2

------------------------------------------------------------------------------
(* Sessions and requests. *)

(* Tokens are numbered as they are issued, and a session that is over or   *)
(* not yet there does not come (back) to life, but for the next token.     *)
LEMMA OverStaysOver ==
  ASSUME TypeOK, [Next]_allVars
  PROVE  /\ issued \in Nat /\ issued' \in Nat /\ issued <= issued'
         /\ expired \subseteq expired'
         /\ \A t \in 0 .. issued : ~Live(t) => ~Live(t)'
<1> USE DEF TypeOK, SessionsTypeOK, Live
<1>1. issued \in Nat /\ sessions \subseteq 1 .. issued
  BY SessionBoundsAssumption
<1>2. CASE UNCHANGED sessionVars
  BY <1>1, <1>2 DEF sessionVars
<1>3. CASE issued' = issued /\ sessions' \subseteq sessions /\ expired \subseteq expired'
  BY <1>1, <1>3
<1>4. CASE issued' = issued + 1 /\ sessions' = sessions \cup {issued'} /\ expired' = expired
  BY <1>1, <1>4
<1>5. ASSUME NEW c \in Callers, Serves(c)
      PROVE  \/ UNCHANGED sessionVars
             \/ issued' = issued /\ sessions' \subseteq sessions /\ expired \subseteq expired'
             \/ issued' = issued + 1 /\ sessions' = sessions \cup {issued'} /\ expired' = expired
  BY <1>5 DEF Serves, Serve, Create, LoginRefused, Logout, Look, CheckExpiry, Revoke
<1>6. CASE \E t \in InPlay : Expire(t) \/ OtherLogout(t)
  BY <1>3, <1>6 DEF Expire, OtherLogout, Revoke
<1>7. CASE Restart
  BY <1>3, <1>7 DEF Restart
<1>8. CASE OtherLogin
  BY <1>4, <1>8 DEF OtherLogin
<1>9. CASE \E c \in Callers : Lose(c) \/ LoadSucceeds(c) \/ LogoutAnswered(c)
  BY <1>2, <1>9 DEF Lose, LoadSucceeds, LogoutAnswered
<1>10. CASE \/ Open \/ Login \/ Click \/ ClickLogout
            \/ StatusAnswered \/ LoginAnswered \/ UserLoadFails
  BY <1>2, <1>10
  DEF Open, Login, Click, ClickLogout, StatusAnswered, LoginAnswered, UserLoadFails
<1>11. CASE \/ AutoRefresh \/ AutoRefreshPutOff \/ AutoRefreshFails \/ BecomesVisible
            \/ Change \/ DropCookie
  BY <1>2, <1>11
  DEF AutoRefresh, AutoRefreshPutOff, AutoRefreshFails, BecomesVisible, Change, DropCookie, allVars
<1>12. CASE UNCHANGED allVars
  BY <1>2, <1>12 DEF allVars
<1>13. QED
  BY <1>2, <1>3, <1>4, <1>5, <1>6, <1>7, <1>8, <1>9, <1>10, <1>11, <1>12, CallersOfThePage
  DEF Next, UserHears, TimerHears

(* What a step may do to a request: leave it, end it, begin it with the    *)
(* cookie there is, answer it, or find its session.                        *)
Begins(c) == call'[c].stage = "sent" /\ call'[c].token = cookie'
LogsInOrOut(c) ==
  /\ call[c].ask \in {"login", "logout"} /\ call'[c].ask = call[c].ask
  /\ call'[c].stage = "answered"
  /\ call'[c].token \in {call[c].token, issued'}
Fails(c) == call'[c] = [call[c] EXCEPT !.stage = "answered", !.answer = "failed"]
Finds(c) ==
  /\ call'[c] = [call[c] EXCEPT !.stage = "found"]
  /\ call[c].token \in sessions /\ UNCHANGED sessionVars /\ UnderWay(c)
Refuses(c) ==
  /\ call'[c] = [call[c] EXCEPT !.stage = "answered", !.answer = "refused"]
  /\ ~Live(call[c].token)'
Admits(c) ==
  /\ call'[c] = [call[c] EXCEPT !.stage = "answered", !.answer = "ok"]
  /\ call[c].stage = "found" /\ call[c].token \notin expired

Moves(c) ==
  \/ call'[c] = call[c]
  \/ call'[c] = NoCall
  \/ Begins(c) \/ LogsInOrOut(c) \/ Fails(c) \/ Finds(c) \/ Refuses(c) \/ Admits(c)

LEMMA RequestsMove ==
  ASSUME TypeOK, [Next]_allVars
  PROVE  \A c \in Callers : Moves(c)
<1> DEFINE Typed == call \in [Callers -> CallType]
<1> Typed
  BY DEF TypeOK, SessionsTypeOK, CallType
<1> HIDE DEF Typed
<1>1. ASSUME NEW c \in Callers, NEW ask, Ask(c, ask, cookie')
      PROVE  \A d \in Callers : Moves(d)
  BY <1>1 DEF Typed, Ask, Moves, Begins
<1>2. ASSUME NEW c \in Callers, Done(c)
      PROVE  \A d \in Callers : Moves(d)
  BY <1>2 DEF Typed, Done, Moves
<1>3. CASE UNCHANGED call
  BY <1>3 DEF Moves
<1>4. ASSUME NEW c \in Callers, Serve(c)
      PROVE  \A d \in Callers : Moves(d)
  <2>1. \A d \in Callers \ {c} : call'[d] = call[d]
    BY <1>4 DEF Typed, Serve, Create, LoginRefused, Logout, Look, CheckExpiry, Answer
  <2>2. CASE Create(c) \/ LoginRefused(c) \/ Logout(c)
    <3>1. LogsInOrOut(c)
      BY <2>2 DEF Typed, CallType, Create, LoginRefused, Logout, Answer, Asking, LogsInOrOut
    <3>2. QED
      BY <2>1, <3>1 DEF Moves
  <2>3. CASE Look(c)
    <3>1. CASE call[c].token \in sessions
      <4>1. Finds(c)
        BY <2>3, <3>1 DEF Typed, CallType, Look, Finds, UnderWay
      <4>2. QED
        BY <2>1, <4>1 DEF Moves
    <3>2. CASE call[c].token \notin sessions
      <4>1. Refuses(c)
        BY <2>3, <3>2 DEF Typed, CallType, Look, Answer, Refuses, Live, sessionVars
      <4>2. QED
        BY <2>1, <4>1 DEF Moves
    <3>3. QED
      BY <3>1, <3>2
  <2>4. CASE CheckExpiry(c)
    <3>1. CASE call[c].token \in expired
      <4>1. Refuses(c)
        BY <2>4, <3>1 DEF Typed, CallType, CheckExpiry, Answer, Revoke, Refuses, Live
      <4>2. QED
        BY <2>1, <4>1 DEF Moves
    <3>2. CASE call[c].token \notin expired
      <4>1. Admits(c)
        BY <2>4, <3>2 DEF Typed, CallType, CheckExpiry, Answer, Admits
      <4>2. QED
        BY <2>1, <4>1 DEF Moves
    <3>3. QED
      BY <3>1, <3>2
  <2>5. QED
    BY <1>4, <2>2, <2>3, <2>4 DEF Serve
<1>5. ASSUME NEW c \in Callers, Lose(c)
      PROVE  \A d \in Callers : Moves(d)
  BY <1>5 DEF Typed, CallType, Lose, Answer, Moves, Fails
<1>6. CASE Restart
  BY <1>6 DEF Restart, Moves, Fails
<1>7. CASE Open \/ Login \/ Click \/ ClickLogout \/ AutoRefresh
  BY <1>1, <1>7, CallersOfThePage DEF Open, Login, Click, ClickLogout, AutoRefresh, LoadOverview
<1>8. CASE StatusAnswered \/ LoginAnswered
  BY <1>1, <1>2, <1>8, CallersOfThePage DEF StatusAnswered, LoginAnswered, LoadOverview
<1>9. CASE UserLoadFails \/ AutoRefreshFails
  BY <1>1, <1>2, <1>9, CallersOfThePage DEF UserLoadFails, AutoRefreshFails, LogsOut, Ignored
<1>10. CASE \E c \in Callers : LoadSucceeds(c) \/ LogoutAnswered(c)
  BY <1>2, <1>10 DEF LoadSucceeds, LogoutAnswered
<1>11. CASE \/ AutoRefreshPutOff \/ BecomesVisible \/ Change \/ DropCookie \/ OtherLogin
            \/ \E t \in InPlay : Expire(t) \/ OtherLogout(t)
            \/ UNCHANGED allVars
  BY <1>3, <1>11
  DEF AutoRefreshPutOff, BecomesVisible, Change, DropCookie, OtherLogin, Expire, OtherLogout,
      allVars
<1>12. QED
  BY <1>3, <1>4, <1>5, <1>6, <1>7, <1>8, <1>9, <1>10, <1>11, CallersOfThePage
  DEF Next, UserHears, TimerHears, Serves

(* What a step makes of the parts of a request. *)
LEMMA PartsOfMoves ==
  ASSUME TypeOK, NEW c \in Callers, Moves(c)
  PROVE  /\ call'[c].token \in {call[c].token, NoToken, cookie', issued'}
         /\ Answered(c, "load", "refused")' => call'[c] = call[c] \/ Refuses(c)
         /\ call'[c].stage = "found" => call'[c] = call[c] \/ Finds(c)
         /\ UnderWay(c) /\ call[c].ask \in {"status", "load"} =>
              /\ Answered(c, call[c].ask, "ok")' => Admits(c)
              /\ Answered(c, call[c].ask, "refused")' => Refuses(c)
<1> USE DEF Answered, Asking, UnderWay
<1>1. call[c] \in CallType
  BY DEF TypeOK, SessionsTypeOK, CallType
<1>2. CASE call'[c] = call[c]
  BY <1>2
<1>3. CASE call'[c] = NoCall
  BY <1>3 DEF NoCall
<1>4. CASE Begins(c)
  BY <1>4 DEF Begins
<1>5. CASE LogsInOrOut(c)
  BY <1>5 DEF LogsInOrOut
<1>6. CASE Fails(c)
  BY <1>1, <1>6 DEF Fails, CallType
<1>7. CASE Finds(c)
  BY <1>1, <1>7 DEF Finds, CallType
<1>8. CASE Refuses(c)
  BY <1>1, <1>8 DEF Refuses, CallType
<1>9. CASE Admits(c)
  BY <1>1, <1>9 DEF Admits, CallType
<1>10. QED
  BY <1>2, <1>3, <1>4, <1>5, <1>6, <1>7, <1>8, <1>9 DEF Moves

------------------------------------------------------------------------------
(* The invariant. *)

(* No token is used before it is issued. *)
LEMMA KnownKept == ASSUME TypeOK, Known, [Next]_allVars PROVE Known'
<1>1. issued \in Nat /\ issued' \in Nat /\ issued <= issued'
  BY OverStaysOver
<1>2. /\ cookie \in Nat /\ refused \in Nat
      /\ \A c \in Callers : call[c].token \in Nat
  BY SessionBoundsAssumption DEF TypeOK, SessionsTypeOK, Tokens, NoToken
<1>3. \/ cookie' \in {cookie, NoToken}
      \/ cookie' = issued'
      \/ cookie' = call[User].token
  BY DEF Next, UserHears, TimerHears, Open, Login, Click, ClickLogout, StatusAnswered,
         LoginAnswered, UserLoadFails, LoadSucceeds, LogoutAnswered, AutoRefresh,
         AutoRefreshPutOff, AutoRefreshFails, Serves, Change, DropCookie, OtherLogin,
         OtherLogout, BecomesVisible, panelVars, allVars
<1>4. cookie' <= issued'
  BY <1>1, <1>2, <1>3, CallersOfThePage DEF Known, NoToken
<1>5. refused' \in {refused, NoToken, call[Timer].token}
  BY DEF Next, UserHears, TimerHears, Open, Login, Click, ClickLogout, StatusAnswered,
         LoginAnswered, UserLoadFails, LoadSucceeds, LogoutAnswered, AutoRefresh,
         AutoRefreshPutOff, AutoRefreshFails, LogsOut, Ignored, Serves, Change, DropCookie,
         OtherLogin, OtherLogout, BecomesVisible, panelVars, allVars
<1>6. refused' <= issued'
  BY <1>1, <1>2, <1>5, CallersOfThePage DEF Known, NoToken
<1>7. ASSUME NEW c \in Callers PROVE call'[c].token <= issued'
  <2>1. call'[c].token \in {call[c].token, NoToken, cookie', issued'}
    BY RequestsMove, PartsOfMoves
  <2>2. QED
    BY <1>1, <1>2, <1>4, <2>1 DEF Known, NoToken
<1>8. QED
  BY <1>4, <1>6, <1>7 DEF Known

(* What was refused is over. *)
LEMMA DeadRefusedKept ==
  ASSUME TypeOK, Known, DeadRefused, [Next]_allVars
  PROVE  DeadRefused'
<1>1. /\ issued \in Nat
      /\ \A t \in 0 .. issued : ~Live(t) => ~Live(t)'
  BY OverStaysOver
<1>2. /\ refused \in 0 .. issued /\ NoToken \in 0 .. issued
      /\ \A c \in Callers : call[c].token \in 0 .. issued
  BY <1>1, SessionBoundsAssumption DEF TypeOK, SessionsTypeOK, Known, Tokens, NoToken
<1>3. ~Live(NoToken)
  BY DEF Live, NoToken, TypeOK, SessionsTypeOK
<1>4. \/ refused' \in {refused, NoToken}
      \/ AutoRefreshFails /\ LogsOut /\ call[Timer].answer = "refused"
  BY DEF Next, UserHears, TimerHears, Open, Login, Click, ClickLogout, StatusAnswered,
         LoginAnswered, UserLoadFails, LoadSucceeds, LogoutAnswered, AutoRefresh,
         AutoRefreshPutOff, AutoRefreshFails, Ignored, Serves, Change, DropCookie,
         OtherLogin, OtherLogout, BecomesVisible, panelVars, allVars
<1>5. ~Live(refused)'
  <2>1. CASE refused' \in {refused, NoToken}
    BY <1>1, <1>2, <1>3, <2>1 DEF DeadRefused, Live
  <2>2. CASE AutoRefreshFails /\ LogsOut /\ call[Timer].answer = "refused"
    <3>1. ~Live(call[Timer].token)
      BY <2>2, CallersOfThePage DEF DeadRefused, AutoRefreshFails, LoadFails, Answered
    <3>2. QED
      BY <1>1, <1>2, <2>2, <3>1, CallersOfThePage DEF LogsOut, Live
  <2>3. QED
    BY <1>4, <2>1, <2>2
<1>6. ASSUME NEW c \in Callers, Answered(c, "load", "refused")'
      PROVE  ~Live(call[c].token)'
  <2>1. Moves(c) /\ call[c] \in CallType
    BY RequestsMove DEF TypeOK, SessionsTypeOK, CallType
  <2>2. CASE call'[c] = call[c]
    BY <1>1, <1>2, <1>6, <2>2 DEF DeadRefused, Answered, Asking, Live
  <2>3. CASE Refuses(c)
    BY <2>1, <2>3 DEF Refuses, CallType, Live
  <2>4. QED
    BY <1>6, <2>1, <2>2, <2>3, PartsOfMoves
<1>7. QED
  BY <1>5, <1>6 DEF DeadRefused, Live

(* What a request found is known from its history. *)
LEMMA SeenFitsKept ==
  ASSUME TypeOK, SeenFits, Next
  PROVE  SeenFits'
<1> SUFFICES ASSUME NEW c \in Callers, call'[c].stage = "found", call'[c].token \notin expired'
             PROVE  TRUE \in seen'[c]
  BY DEF SeenFits
<1>1. Moves(c) /\ call[c] \in CallType
  BY RequestsMove DEF TypeOK, SessionsTypeOK, CallType
<1>2. expired \subseteq expired'
  BY OverStaysOver
<1>3. seen'[c] = (IF UnderWay(c) THEN seen[c] ELSE {}) \cup {Live(call[c].token)'}
  BY DEF Next, Watch, UnderWay
<1>4. CASE call'[c] = call[c]
  BY <1>2, <1>3, <1>4 DEF SeenFits, UnderWay
<1>5. CASE Finds(c)
  <2>1. Live(call[c].token)' = TRUE
    BY <1>1, <1>5 DEF Finds, CallType, Live, sessionVars
  <2>2. QED
    BY <1>3, <2>1
<1>6. QED
  BY <1>1, <1>4, <1>5, PartsOfMoves

(* Nothing the page waits for is older than what it shows. *)
LEMMA NotNewerKept ==
  ASSUME TypeOK, NotNewer, [Next]_allVars
  PROVE  NotNewer'
<1> DEFINE Typed == /\ call \in [Callers -> CallType]
                    /\ carried \in [Callers -> 0 .. MaxChanges]
                    /\ latest \in Callers /\ data \in 0 .. MaxChanges /\ shown \in 0 .. MaxChanges
<1> Typed /\ MaxChanges \in Nat /\ Timer \in Callers /\ User \in Callers
  BY CallersOfThePage, ChangesAssumption DEF TypeOK, SessionsTypeOK, CallType
<1> HIDE DEF Typed
<1> USE DEF Typed, NotNewer, Answered, Asking
<1>1. ASSUME NEW c \in Callers, NEW ask, NEW token, Ask(c, ask, token),
             latest' = latest \/ latest' = c, UNCHANGED <<data, carried, shown>>
      PROVE  NotNewer'
  BY <1>1 DEF Ask
<1>2. ASSUME NEW c \in Callers, Done(c), UNCHANGED <<latest, data>>,
             shown' = shown \/ (Answered(c, "load", "ok") /\ Render(c))
      PROVE  NotNewer'
  <2>1. /\ call'[c] = NoCall /\ carried'[c] = 0
        /\ \A d \in Callers \ {c} : call'[d] = call[d] /\ carried'[d] = carried[d]
    BY <1>2 DEF Done
  <2>2. shown' = shown \/ (latest = c /\ shown' = carried[c])
    BY <1>2 DEF Render
  <2>3. shown' <= data' /\ \A d \in Callers : carried'[d] <= data'
    BY <1>2, <2>1, <2>2
  <2>4. ASSUME Answered(latest, "load", "ok")' PROVE shown' <= carried'[latest']
    <3>1. latest' = latest /\ latest # c
      BY <1>2, <2>1, <2>4 DEF NoCall
    <3>2. QED
      BY <2>1, <2>2, <2>4, <3>1
  <2>5. QED
    BY <2>3, <2>4
<1>3. ASSUME UNCHANGED <<latest, carried, shown>>, data' >= data, data' \in Nat,
             Answered(latest, "load", "ok")' => Answered(latest, "load", "ok")
      PROVE  NotNewer'
  BY <1>3
<1>4. ASSUME NEW c \in Callers, Serves(c) PROVE NotNewer'
  <2>1. \A d \in Callers \ {c} : call'[d] = call[d]
    BY <1>4 DEF Serves, Serve, Create, LoginRefused, Logout, Look, CheckExpiry, Answer
  <2>2. ASSUME Answered(c, "load", "ok")' PROVE carried' = [carried EXCEPT ![c] = data]
    BY <1>4, <2>2 DEF Serves
  <2>3. carried' = carried \/ carried' = [carried EXCEPT ![c] = data]
    BY <1>4 DEF Serves
  <2>4. UNCHANGED <<latest, data, shown>>
    BY <1>4 DEF Serves
  <2>5. \A d \in Callers : carried'[d] <= data'
    BY <2>3, <2>4
  <2>6. ASSUME Answered(latest, "load", "ok")' PROVE shown' <= carried'[latest']
    <3>1. CASE latest = c
      BY <2>2, <2>4, <2>6, <3>1
    <3>2. CASE latest # c
      BY <2>1, <2>3, <2>4, <2>6, <3>2
    <3>3. QED
      BY <3>1, <3>2
  <2>7. QED
    BY <2>4, <2>5, <2>6
<1>5. CASE Open \/ Login \/ Click \/ ClickLogout \/ AutoRefresh
  BY <1>1, <1>5 DEF Open, Login, Click, ClickLogout, AutoRefresh, LoadOverview
<1>6. CASE StatusAnswered \/ LoginAnswered
  BY <1>1, <1>2, <1>6 DEF StatusAnswered, LoginAnswered, LoadOverview
<1>7. CASE UserLoadFails \/ AutoRefreshFails
  BY <1>1, <1>2, <1>7 DEF UserLoadFails, AutoRefreshFails, LogsOut, Ignored
<1>8. ASSUME NEW c \in Callers, LoadSucceeds(c) \/ LogoutAnswered(c) PROVE NotNewer'
  BY <1>2, <1>8 DEF LoadSucceeds, LogoutAnswered
<1>9. ASSUME NEW c \in Callers, Lose(c) \/ Restart, UNCHANGED panelVars PROVE NotNewer'
  <2>1. Answered(latest, "load", "ok")' => Answered(latest, "load", "ok")
    <3>1. latest' = latest
      BY <1>9 DEF panelVars
    <3>2. CASE Lose(c)
      <4>1. /\ call'[c].answer = "failed"
            /\ \A d \in Callers \ {c} : call'[d] = call[d]
        BY <3>2 DEF Lose, Answer, CallType
      <4>2. QED
        BY <3>1, <4>1
    <3>3. CASE Restart
      <4>1. call[latest] \in CallType
        OBVIOUS
      <4>2. call'[latest] \in
              {call[latest], [call[latest] EXCEPT !.stage = "answered", !.answer = "failed"]}
        BY <3>3 DEF Restart
      <4>3. QED
        BY <3>1, <4>1, <4>2 DEF CallType
    <3>4. QED
      BY <1>9, <3>2, <3>3
  <2>2. QED
    BY <1>3, <1>9, <2>1 DEF panelVars
<1>10. CASE UNCHANGED call /\ UNCHANGED <<latest, carried, shown, data>>
  BY <1>3, <1>10
<1>11. CASE Change
  BY <1>3, <1>11 DEF Change
<1>12. CASE \/ AutoRefreshPutOff \/ BecomesVisible \/ DropCookie \/ OtherLogin
            \/ \E t \in InPlay : (Expire(t) /\ UNCHANGED panelVars) \/ OtherLogout(t)
            \/ UNCHANGED allVars
  BY <1>10, <1>12
  DEF AutoRefreshPutOff, BecomesVisible, DropCookie, OtherLogin, Expire, OtherLogout, panelVars,
      allVars
<1>13. QED
  BY <1>4, <1>5, <1>6, <1>7, <1>8, <1>9, <1>11, <1>12 DEF Next, UserHears, TimerHears

------------------------------------------------------------------------------
(* The theorems. *)

LEMMA InitInvariant == Init => IInv
<1> SUFFICES ASSUME Init PROVE IInv
  OBVIOUS
<1> USE SessionBoundsAssumption, ChangesAssumption, CallersOfThePage
<1> USE DEF Init, InitSessions
<1>1. TypeOK
  <2>1. SessionsTypeOK
    BY DEF SessionsTypeOK, NoCall, Asks, NoToken, Tokens
  <2>2. \A c \in Callers : flow[c] = "none" /\ call[c] = NoCall
    OBVIOUS
  <2>3. flow \in [Callers -> {"none"}] /\ carried \in [Callers -> 0 .. MaxChanges]
    OBVIOUS
  <2>4. QED
    BY <2>1, <2>2, <2>3 DEF TypeOK, NoToken, Tokens
<1>2. Known /\ DeadRefused /\ SeenFits /\ NotNewer
  BY DEF Known, DeadRefused, SeenFits, NotNewer, NoCall, NoToken, Live, Answered, Asking
<1>3. QED
  BY <1>1, <1>2 DEF IInv

LEMMA NextInvariant == IInv /\ [Next]_allVars => IInv'
<1> SUFFICES ASSUME IInv, [Next]_allVars PROVE IInv'
  OBVIOUS
<1> USE DEF IInv
<1>1. TypeOK' /\ Known' /\ DeadRefused' /\ NotNewer'
  BY TypesKept, KnownKept, DeadRefusedKept, NotNewerKept
<1>2. SeenFits'
  <2>1. CASE Next
    BY <2>1, SeenFitsKept
  <2>2. CASE UNCHANGED allVars
    BY <2>2 DEF SeenFits, allVars, sessionVars
  <2>3. QED
    BY <2>1, <2>2
<1>3. QED
  BY <1>1, <1>2

(* The invariant holds in every state the page and its server reach. *)
THEOREM Invariance == Spec => []IInv
<1>1. Init => IInv
  BY InitInvariant
<1>2. IInv /\ [Next]_allVars => IInv'
  BY NextInvariant
<1>3. QED
  BY <1>1, <1>2, PTL DEF Spec

(* Types: among them, that the timer is set only while the panel shows, and *)
(* that a function of the page runs exactly while its caller waits.         *)
THEOREM TypeCorrect == Spec => []TypeOK
<1>1. IInv => TypeOK
  BY DEF IInv
<1>2. QED
  BY <1>1, Invariance, PTL

(* Validate's two steps: for any number of sessions, logins, logouts and   *)
(* restarts in between, a request is let in only with a session that was   *)
(* live while it was under way, and turned away only if it was not.        *)
THEOREM AnswersAreOfTheCall == Spec => AnswersOfTheCall
<1>1. IInv /\ [Next]_allVars =>
        [\A c \in Callers : UnderWay(c) /\ call[c].ask \in {"status", "load"} =>
           LET moments == seen[c] \cup {Live(call[c].token)'}
           IN  /\ Answered(c, call[c].ask, "ok")' => TRUE \in moments
               /\ Answered(c, call[c].ask, "refused")' => FALSE \in moments]_<<sessionVars, call>>
  <2> SUFFICES ASSUME IInv, [Next]_allVars, NEW c \in Callers,
                      UnderWay(c), call[c].ask \in {"status", "load"}
               PROVE  LET moments == seen[c] \cup {Live(call[c].token)'}
                      IN  /\ Answered(c, call[c].ask, "ok")' => TRUE \in moments
                          /\ Answered(c, call[c].ask, "refused")' => FALSE \in moments
    OBVIOUS
  <2>1. call[c] \in CallType
    BY DEF IInv, TypeOK, SessionsTypeOK, CallType
  <2>2. ASSUME Answered(c, call[c].ask, "ok")' PROVE TRUE \in seen[c]
    <3>1. Admits(c)
      BY <2>2, RequestsMove, PartsOfMoves DEF IInv
    <3>2. QED
      BY <3>1 DEF Admits, IInv, SeenFits
  <2>3. ASSUME Answered(c, call[c].ask, "refused")' PROVE Live(call[c].token)' = FALSE
    <3>1. Refuses(c)
      BY <2>3, RequestsMove, PartsOfMoves DEF IInv
    <3>2. QED
      BY <2>1, <3>1 DEF Refuses, CallType, Live
  <2>4. QED
    BY <2>2, <2>3
<1>2. QED
  BY <1>1, Invariance, PTL DEF Spec, AnswersOfTheCall

(* A refresh that fails does not end a session that still lives.           *)
THEOREM RefreshSpares == Spec => RefreshSparesItsSession
<1>1. IInv /\ [Next]_allVars =>
        [\A t \in sessions \ sessions' :
           Asking(Timer, "logout", "sent") /\ Asking(Timer, "logout", "answered")' =>
             t \in expired \/ t # refused]_allVars
  BY DEF IInv, DeadRefused, Live
<1>2. QED
  BY <1>1, Invariance, PTL DEF Spec, RefreshSparesItsSession

(* Whatever order the answers arrive in, what is shown gets no older. *)
THEOREM ShownGetsNoOlder == Spec => NeverOlder
<1>1. IInv /\ [Next]_allVars => [shown' >= shown]_allVars
  <2> SUFFICES ASSUME IInv, [Next]_allVars, shown' # shown PROVE shown' >= shown
    BY ChangesAssumption DEF IInv, TypeOK
  <2>1. PICK c \in Callers : LoadSucceeds(c)
    BY CallersOfThePage
    DEF Next, UserHears, TimerHears, Open, Login, Click, ClickLogout, StatusAnswered,
        LoginAnswered, UserLoadFails, LogoutAnswered, AutoRefresh, AutoRefreshPutOff,
        AutoRefreshFails, BecomesVisible, Serves, Change, DropCookie, OtherLogin, OtherLogout,
        panelVars, allVars
  <2>2. Answered(latest, "load", "ok") /\ shown' = carried[latest]
    BY <2>1 DEF LoadSucceeds, Render
  <2>3. shown <= carried[latest]
    BY <2>2 DEF IInv, NotNewer
  <2>4. shown \in Nat /\ carried[latest] \in Nat
    BY ChangesAssumption DEF IInv, TypeOK
  <2>5. QED
    BY <2>2, <2>3, <2>4
<1>2. QED
  BY <1>1, Invariance, PTL DEF Spec, NeverOlder

==============================================================================
