-------------------------------- MODULE Panel --------------------------------
(***************************************************************************)
(* A page that shows the panel (src/web/static/index.html), the cookie it  *)
(* shares with the other pages of its browser, and the server's sessions.  *)
(* The page refreshes itself on a timer and does what its user asks for;   *)
(* both run concurrently, and answers arrive in any order.  Other pages    *)
(* are there by what they do to the cookie and the sessions.               *)
(*                                                                         *)
(* The section shown is the overview.  The requests of one load are one    *)
(* request here: their answers are awaited together, and the first failure *)
(* stands for all.  A user waits for one thing before asking for the next, *)
(* and comes back to a page he has hidden (a hidden page puts its refresh  *)
(* off).                                                                   *)
(***************************************************************************)
EXTENDS Sessions

CONSTANTS
  MaxChanges   \* bound: changes of what the panel shows

Timer == "timer"
User == "user"

ASSUME CallersOfThePage == Callers = {Timer, User}
ASSUME ChangesAssumption == MaxChanges \in Nat

VARIABLES
  cookie,   \* emby_mp_session in the browser
  view,     \* which of appView and loginView shows
  armed,    \* autoRefreshTimer is set
  flow,     \* per caller: the function of the page that runs
  latest,   \* the caller whose load's token is overviewLoadToken
  refused,  \* history: the cookie with which a refresh was refused that now logs out
  data,     \* the server's data, as the number of changes
  carried,  \* per caller: the data its answer holds
  shown     \* the data the page shows

panelVars == <<cookie, view, armed, flow, latest, refused, data, carried, shown>>
allVars == <<sessionVars, call, failures, seen, panelVars>>

Init ==
  /\ InitSessions
  /\ cookie = NoToken
  /\ view = "closed"
  /\ armed = FALSE
  /\ flow = [c \in Callers |-> "none"]
  /\ latest = User
  /\ refused = NoToken
  /\ data = 0
  /\ carried = [c \in Callers |-> 0]
  /\ shown = 0

------------------------------------------------------------------------------
(* What the functions of the page are made of. *)

Runs(c, f) == flow' = [flow EXCEPT ![c] = f]
Done(c) ==
  /\ Runs(c, "none")
  /\ call' = [call EXCEPT ![c] = NoCall]
  /\ carried' = [carried EXCEPT ![c] = 0]

SetAuthenticated == view' = "app" /\ UNCHANGED armed
SetUnauthenticated == view' = "login" /\ armed' = FALSE

(* Mutant: whether the panel shows is not looked at. *)
ScheduleAnyhow == armed' = TRUE /\ UNCHANGED view

ScheduleAutoRefresh == armed' = (view = "app") /\ UNCHANGED view

(* loadOverview takes a new token. *)
LoadOverview(c, sent) == Ask(c, "load", sent) /\ latest' = c

(* Mutant: an answer is shown whichever load it is of. *)
RenderAny(c) == shown' = carried[c]

Render(c) == shown' = IF latest = c THEN carried[c] ELSE shown

------------------------------------------------------------------------------
(* The user. *)

Open ==
  /\ view = "closed"
  /\ view' = "blank"
  /\ Runs(User, "open")
  /\ Ask(User, "status", cookie)
  /\ UNCHANGED <<sessionVars, failures, cookie, armed, latest, refused, data, carried, shown>>

StatusAnswered ==
  /\ Asking(User, "status", "answered")
  /\ IF call[User].answer = "ok"
     THEN SetAuthenticated /\ Runs(User, "bootstrap") /\ LoadOverview(User, cookie)
          /\ UNCHANGED carried
     ELSE SetUnauthenticated /\ Done(User) /\ UNCHANGED latest
  /\ UNCHANGED <<sessionVars, failures, cookie, refused, data, shown>>

Login ==
  /\ view = "login" /\ flow[User] = "none"
  /\ Runs(User, "login")
  /\ Ask(User, "login", cookie)
  /\ UNCHANGED <<sessionVars, failures, cookie, view, armed, latest, refused, data, carried, shown>>

LoginAnswered ==
  /\ Asking(User, "login", "answered")
  /\ IF call[User].answer = "ok"
     THEN /\ cookie' = call[User].token
          /\ SetAuthenticated
          /\ LoadOverview(User, cookie')
          /\ UNCHANGED <<flow, carried>>
     ELSE SetUnauthenticated /\ Done(User) /\ UNCHANGED <<cookie, latest>>
  /\ UNCHANGED <<sessionVars, failures, refused, data, shown>>

(* showSection, and refreshAll, during which the timer does not refresh. *)
Click ==
  /\ view = "app" /\ flow[User] = "none"
  /\ \E f \in {"showSection", "refreshAll"} : Runs(User, f)
  /\ LoadOverview(User, cookie)
  /\ UNCHANGED <<sessionVars, failures, cookie, view, armed, refused, data, carried, shown>>

ClickLogout ==
  /\ view = "app" /\ flow[User] = "none"
  /\ Runs(User, "logout") /\ Ask(User, "logout", cookie)
  /\ UNCHANGED <<sessionVars, failures, cookie, view, armed, latest, refused, data, carried, shown>>

(* A load is answered.  What follows depends on who called loadOverview. *)
LoadSucceeds(c) ==
  /\ Answered(c, "load", "ok")
  /\ Render(c)
  /\ Done(c)
  /\ ScheduleAutoRefresh
  /\ UNCHANGED <<sessionVars, failures, cookie, latest, refused, data>>

LoadFails(c) == Asking(c, "load", "answered") /\ call[c].answer # "ok"

UserLoadFails ==
  /\ LoadFails(User)
  /\ \/ /\ flow[User] = "bootstrap"
        /\ Ask(User, "logout", cookie) /\ UNCHANGED <<flow, carried, view, armed>>
     \/ flow[User] = "login" /\ Done(User) /\ SetUnauthenticated
     \/ flow[User] = "showSection" /\ Done(User) /\ UNCHANGED <<view, armed>>
     \/ flow[User] = "refreshAll" /\ Done(User) /\ ScheduleAutoRefresh
  /\ UNCHANGED <<sessionVars, failures, cookie, latest, refused, data, shown>>

(* The answer to a logout deletes the cookie there is when it arrives; the *)
(* page turns to its login even if there is no answer.                     *)
LogoutAnswered(c) ==
  /\ Asking(c, "logout", "answered")
  /\ cookie' = IF call[c].answer = "ok" THEN NoToken ELSE cookie
  /\ SetUnauthenticated
  /\ Done(c)
  /\ refused' = IF c = Timer THEN NoToken ELSE refused
  /\ UNCHANGED <<sessionVars, failures, latest, data, shown>>

------------------------------------------------------------------------------
(* The timer: runAutoRefresh. *)

Busy == flow[User] = "refreshAll" \/ flow[Timer] # "none"

AutoRefresh ==
  /\ armed /\ ~Busy
  /\ armed' = FALSE
  /\ Runs(Timer, "runAutoRefresh")
  /\ LoadOverview(Timer, cookie)
  /\ UNCHANGED <<sessionVars, failures, cookie, view, refused, data, carried, shown>>

(* The timer is set anew, and nothing changes. *)
AutoRefreshPutOff == armed /\ Busy /\ UNCHANGED allVars

(* The user comes back to a page that was hidden: the timer is set, also   *)
(* while a load of the page is still under way.                            *)
BecomesVisible ==
  /\ view # "closed"
  /\ ScheduleAutoRefresh
  /\ UNCHANGED <<sessionVars, call, failures>>
  /\ UNCHANGED <<cookie, flow, latest, refused, data, carried, shown>>

LogsOut ==
  /\ Ask(Timer, "logout", cookie)
  /\ refused' = call[Timer].token
  /\ UNCHANGED <<flow, carried, view, armed>>
Ignored == Done(Timer) /\ ScheduleAutoRefresh /\ UNCHANGED refused

(* Mutant: the page logs out whatever went wrong. *)
AutoRefreshFailsAnyhow ==
  /\ LoadFails(Timer) /\ LogsOut
  /\ UNCHANGED <<sessionVars, failures, cookie, latest, data, shown>>

(* Mutant: no timer is set after a failure. *)
AutoRefreshFailsForGood ==
  /\ LoadFails(Timer)
  /\ \/ call[Timer].answer = "refused" /\ LogsOut
     \/ call[Timer].answer = "failed" /\ Done(Timer) /\ UNCHANGED <<view, armed, refused>>
  /\ UNCHANGED <<sessionVars, failures, cookie, latest, data, shown>>

AutoRefreshFails ==
  /\ LoadFails(Timer)
  /\ \/ call[Timer].answer = "refused" /\ LogsOut
     \/ call[Timer].answer = "failed" /\ Ignored
  /\ UNCHANGED <<sessionVars, failures, cookie, latest, data, shown>>

------------------------------------------------------------------------------
(* The server, the network, the clock, and the other pages. *)

Serves(c) ==
  /\ Serve(c)
  /\ carried' = IF Answered(c, "load", "ok")' THEN [carried EXCEPT ![c] = data] ELSE carried
  /\ UNCHANGED <<cookie, view, armed, flow, latest, refused, data, shown>>

Change ==
  /\ data < MaxChanges
  /\ data' = data + 1
  /\ UNCHANGED <<sessionVars, call, failures>>
  /\ UNCHANGED <<cookie, view, armed, flow, latest, refused, carried, shown>>

(* The browser drops a cookie at the end of its max-age, the life of its   *)
(* session; another page's logout is answered; its user clears it.         *)
DropCookie ==
  /\ cookie # NoToken
  /\ cookie' = NoToken
  /\ UNCHANGED <<sessionVars, call, failures>>
  /\ UNCHANGED <<view, armed, flow, latest, refused, data, carried, shown>>

OtherLogin ==
  /\ issued < MaxSessions
  /\ issued' = issued + 1
  /\ sessions' = sessions \cup {issued'}
  /\ cookie' = issued'
  /\ UNCHANGED <<expired, call, failures>>
  /\ UNCHANGED <<view, armed, flow, latest, refused, data, carried, shown>>

OtherLogout(token) ==
  /\ token \in sessions
  /\ Revoke(token)
  /\ UNCHANGED <<issued, expired, call, failures, panelVars>>

(* What happens to other sessions makes no difference to the page. *)
InPlay == {cookie} \cup {call[c].token : c \in Callers}

UserHears ==
  \/ StatusAnswered \/ LoginAnswered \/ UserLoadFails
  \/ LoadSucceeds(User) \/ LogoutAnswered(User)
TimerHears == AutoRefreshFails \/ LoadSucceeds(Timer) \/ LogoutAnswered(Timer)

Next ==
  /\ \/ Open \/ Login \/ Click \/ ClickLogout \/ UserHears
     \/ AutoRefresh \/ AutoRefreshPutOff \/ BecomesVisible \/ TimerHears
     \/ \E c \in Callers : Serves(c) \/ (Lose(c) /\ UNCHANGED panelVars)
     \/ \E t \in InPlay : (Expire(t) /\ UNCHANGED panelVars) \/ OtherLogout(t)
     \/ Restart /\ UNCHANGED panelVars
     \/ Change \/ DropCookie \/ OtherLogin
  /\ Watch

(* Requests are served and answers arrive; the timer goes off, and in the  *)
(* end at a moment its page is not refreshed by the user.                  *)
Fairness ==
  /\ \A c \in Callers : WF_allVars(Serves(c) /\ Watch)
  /\ WF_allVars(UserHears /\ Watch)
  /\ WF_allVars(TimerHears /\ Watch)
  /\ SF_allVars(AutoRefresh /\ Watch)

Spec == Init /\ [][Next]_allVars /\ Fairness

------------------------------------------------------------------------------
(* Properties. *)

(* Every variable keeps its type; the timer is set only while the panel     *)
(* shows, so that a login page asks for nothing; and a function of the page *)
(* runs exactly while its caller waits for an answer.                       *)
TypeOK ==
  /\ SessionsTypeOK
  /\ cookie \in Tokens \cup {NoToken}
  /\ view \in {"closed", "blank", "login", "app"}
  /\ armed \in BOOLEAN
  /\ flow \in [Callers -> {"none", "open", "bootstrap", "login", "showSection", "refreshAll",
                           "logout", "runAutoRefresh"}]
  /\ latest \in Callers
  /\ refused \in Tokens \cup {NoToken}
  /\ data \in 0 .. MaxChanges /\ shown \in 0 .. MaxChanges
  /\ carried \in [Callers -> 0 .. MaxChanges]
  /\ armed => view = "app"
  /\ \A c \in Callers : flow[c] = "none" <=> call[c] = NoCall

(* A refresh that fails does not end the session it was made with, unless  *)
(* that is over: a page logs out by itself only after the server refused   *)
(* its cookie.  (It may end another one: the page logs out with the cookie *)
(* there is by then, that of a login in between.)                          *)
RefreshSparesItsSession ==
  [][\A t \in sessions \ sessions' :
       Asking(Timer, "logout", "sent") /\ Asking(Timer, "logout", "answered")' =>
         t \in expired \/ t # refused]_allVars

(* The overview never goes back in time: an answer that was asked for      *)
(* before the one that is shown does not replace it, however late it       *)
(* arrives and whichever of the two the server made first.                 *)
NeverOlder == [][shown' >= shown]_allVars

(* A page that shows the panel while its cookie is of no live session does *)
(* not do so for ever: it turns to its login, unless a login elsewhere in  *)
(* the browser comes first.                                                *)
DeadSessionIsNoticed == view = "app" /\ ~Live(cookie) ~> view = "login" \/ Live(cookie)

==============================================================================
