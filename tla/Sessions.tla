------------------------------- MODULE Sessions -------------------------------
(***************************************************************************)
(* The sessions of the panel's users (internal/session) and the requests   *)
(* that create, validate and revoke them (api/handler/auth.go,             *)
(* api/middleware/auth.go).  Sessions are kept in memory only.             *)
(*                                                                         *)
(* Validate reads the map under its lock and the clock after it: two steps *)
(* here, between which a session may be revoked or run out.  A request may *)
(* get lost before the server has it, or its answer after.  Only cookies   *)
(* are modelled, not a password or the token of the configuration in the   *)
(* request itself (Settings has the password).                             *)
(***************************************************************************)
EXTENDS Integers

CONSTANTS
  Callers,      \* who sends requests, each one at a time
  MaxSessions,  \* bound: sessions created
  MaxFailures   \* bound: requests and answers lost, restarts

ASSUME SessionBoundsAssumption == MaxSessions \in Nat /\ MaxFailures \in Nat

VARIABLES
  sessions,  \* Manager.sessions: the tokens of its entries
  issued,    \* tokens handed out: 1 .. issued
  expired,   \* the tokens whose ExpiresAt has passed
  call,      \* the request of each caller
  failures,  \* how many requests and answers were lost, and restarts
  seen       \* history: whether the call's session was live, while it was under way

sessionVars == <<sessions, issued, expired>>

Tokens == 1 .. MaxSessions
NoToken == 0
Asks == {"none", "status", "load", "login", "logout"}
Live(token) == token \in sessions \ expired

(* The cookie sent, and how far the request is; a login's answer carries   *)
(* the new token.                                                          *)
NoCall == [ask |-> "none", stage |-> "none", token |-> NoToken, answer |-> "none"]

InitSessions ==
  /\ sessions = {} /\ issued = 0 /\ expired = {} /\ failures = 0
  /\ call = [c \in Callers |-> NoCall]
  /\ seen = [c \in Callers |-> {}]

Asking(c, ask, stage) == call[c].ask = ask /\ call[c].stage = stage
Answered(c, ask, answer) == Asking(c, ask, "answered") /\ call[c].answer = answer

Ask(c, ask, token) ==
  call' = [call EXCEPT ![c] = [ask |-> ask, stage |-> "sent", token |-> token, answer |-> "none"]]
Answer(c, answer) ==
  call' = [call EXCEPT ![c].stage = "answered", ![c].answer = answer]

Revoke(token) == sessions' = sessions \ {token}

------------------------------------------------------------------------------
(* The server. *)

Create(c) ==
  /\ Asking(c, "login", "sent") /\ issued < MaxSessions
  /\ issued' = issued + 1
  /\ sessions' = sessions \cup {issued'}
  /\ call' = [call EXCEPT ![c].stage = "answered", ![c].answer = "ok", ![c].token = issued']
  /\ UNCHANGED <<expired, failures>>

(* The name or the password is not the administrator's. *)
LoginRefused(c) ==
  /\ Asking(c, "login", "sent")
  /\ Answer(c, "refused")
  /\ UNCHANGED <<sessionVars, failures>>

Logout(c) ==
  /\ Asking(c, "logout", "sent")
  /\ Revoke(call[c].token)
  /\ Answer(c, "ok")
  /\ UNCHANGED <<issued, expired, failures>>

Look(c) ==
  /\ call[c].ask \in {"status", "load"} /\ call[c].stage = "sent"
  /\ IF call[c].token \in sessions
     THEN call' = [call EXCEPT ![c].stage = "found"]
     ELSE Answer(c, "refused")
  /\ UNCHANGED <<sessionVars, failures>>

(* Mutant: the expiry is left to the browser, which drops its cookie. *)
CheckNothing(c) ==
  /\ call[c].stage = "found"
  /\ Answer(c, "ok")
  /\ UNCHANGED <<sessionVars, failures>>

CheckExpiry(c) ==
  /\ call[c].stage = "found"
  /\ IF call[c].token \in expired
     THEN Revoke(call[c].token) /\ Answer(c, "refused")
     ELSE sessions' = sessions /\ Answer(c, "ok")
  /\ UNCHANGED <<issued, expired, failures>>

Serve(c) == Create(c) \/ LoginRefused(c) \/ Logout(c) \/ Look(c) \/ CheckExpiry(c)

Expire(token) ==
  /\ token \in (1 .. issued) \ expired
  /\ expired' = expired \cup {token}
  /\ UNCHANGED <<sessions, issued, call, failures>>

(* The requests being handled fail; those still on their way find the new  *)
(* process.                                                                *)
Restart ==
  /\ failures < MaxFailures
  /\ failures' = failures + 1
  /\ sessions' = {}
  /\ call' = [c \in Callers |-> IF call[c].stage = "found"
                                THEN [call[c] EXCEPT !.stage = "answered", !.answer = "failed"]
                                ELSE call[c]]
  /\ UNCHANGED <<issued, expired>>

(* A request or an answer is lost, or the handler behind Validate fails. *)
Lose(c) ==
  /\ call[c].stage \in {"sent", "answered"} /\ call[c].answer # "failed"
  /\ failures < MaxFailures
  /\ failures' = failures + 1
  /\ Answer(c, "failed")
  /\ UNCHANGED sessionVars

------------------------------------------------------------------------------
(* Properties. *)

UnderWay(c) == call[c].stage \in {"sent", "found"}

(* Bookkeeping for AnswersOfTheCall, a conjunct of every step. *)
Watch ==
  seen' = [c \in Callers |->
             IF ~UnderWay(c)' THEN {}
             ELSE (IF UnderWay(c) THEN seen[c] ELSE {}) \cup {Live(call[c].token)'}]

(* Every variable keeps its type. *)
SessionsTypeOK ==
  /\ issued \in 0 .. MaxSessions
  /\ sessions \subseteq 1 .. issued /\ expired \subseteq 1 .. issued
  /\ call \in [Callers -> [ask : Asks, stage : {"none", "sent", "found", "answered"},
                           token : Tokens \cup {NoToken},
                           answer : {"none", "ok", "refused", "failed"}]]
  /\ failures \in 0 .. MaxFailures
  /\ seen \in [Callers -> SUBSET BOOLEAN]

(* Whatever happens to a session while Validate does not hold the lock, a  *)
(* request is let in only with a session that was live at some moment of   *)
(* the request, and turned away only if it was not live at some moment.    *)
AnswersOfTheCall ==
  [][\A c \in Callers : UnderWay(c) /\ call[c].ask \in {"status", "load"} =>
       LET moments == seen[c] \cup {Live(call[c].token)'}
       IN  /\ Answered(c, call[c].ask, "ok")' => TRUE \in moments
           /\ Answered(c, call[c].ask, "refused")' => FALSE \in moments]_<<sessionVars, call>>

==============================================================================
