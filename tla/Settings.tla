------------------------------ MODULE Settings -------------------------------
(***************************************************************************)
(* The settings page: UpdateDefaultLimits (api/handler/rules.go) changes   *)
(* the running limits, copies the configuration, changes the copy, puts it *)
(* back with config.Update and writes it to the file with config.Save,     *)
(* which holds the lock of the configuration while it hashes, encrypts,    *)
(* truncates the file and writes it.  A restart reads what the file has.   *)
(*                                                                         *)
(* One value stands for the three rate limits; the running limits are two, *)
(* since the handler sets the defaults and the global limit one after the  *)
(* other.  The API key stands for every setting a request may leave empty  *)
(* to keep it.  The key is encrypted in the file and decrypted when it is  *)
(* read, with a key kept beside the file, which gives the same key back.   *)
(***************************************************************************)
EXTENDS Integers

CONSTANTS
  Savers,                \* concurrent handlers of the settings page
  Limits, NoLimit,       \* values of the rate limits, and 0
  ApiKeys, Passwords,
  Requests,              \* what a handler may be asked for
  BuiltIn,               \* the password of a file that has none
  Unset,                 \* an empty string
  Empty,                 \* a file that has been truncated and not written
  None,                  \* nobody holds the lock
  MaxSaves, MaxFaults, MaxLives  \* bounds: requests, failed calls, processes

ASSUME ValuesAssumption ==
  NoLimit \in Limits /\ BuiltIn \in Passwords /\ Unset \notin ApiKeys \cup Passwords
ASSUME LockAssumption == None \notin Savers
ASSUME SettingsBoundsAssumption ==
  {MaxSaves, MaxFaults} \subseteq Nat /\ MaxLives \in Nat \ {0}

Config == [limits : Limits, key : ApiKeys \cup {Unset},
           password : Passwords \cup {Unset}, hash : Passwords \cup {Unset}]
Request == [limits : Limits, key : ApiKeys \cup {Unset}, password : Passwords \cup {Unset}]
ASSUME RequestsAssumption == Requests \subseteq Request /\ Requests # {}
ASSUME EmptyAssumption == Empty \notin Config

VARIABLES
  up,        \* the process runs
  cfg,       \* config.cfg
  lock,      \* who holds config.cfgMu for writing
  file,      \* the configuration file
  running,   \* the defaults and the global limit of the limiter manager
  at,        \* where each handler is
  req,       \* its request
  copy,      \* its copy of the configuration
  saves, faults, lives,  \* how much of the bounds is used
  behind,    \* history: handlers whose copy was taken before the last change
  raced,     \* history: handlers have overlapped since one began alone
  faulty     \* history: the last call of Save did not write the file

handlers == <<at, req, copy>>
bounds   == <<saves, faults, lives>>
history  == <<behind, raced, faulty>>
vars == <<up, cfg, lock, file, running, handlers, bounds, history>>

(* Load: a file that was cut reads as one without any setting. *)
Loaded(f) ==
  LET c == IF f = Empty
           THEN [limits |-> NoLimit, key |-> Unset, password |-> Unset, hash |-> Unset] ELSE f
  IN  IF c.password = Unset /\ c.hash = Unset THEN [c EXCEPT !.password = BuiltIn] ELSE c

Running(l) == [defaults |-> l, global |-> l]
Active == {h \in Savers : at[h] # "idle"}
AnyRequest == CHOOSE r \in Requests : TRUE

(* The file was written by hand or by a save: with a password or its hash. *)
Init ==
  /\ file \in {f \in Config : f.limits = NoLimit /\ f.key = Unset
                              /\ (f.password = Unset \/ f.hash = Unset)}
  /\ up = TRUE
  /\ cfg = Loaded(file)
  /\ lock = None
  /\ running = Running(cfg.limits)
  /\ at = [h \in Savers |-> "idle"]
  /\ req = [h \in Savers |-> AnyRequest]
  /\ copy = [h \in Savers |-> cfg]
  /\ saves = 0 /\ faults = 0 /\ lives = 1
  /\ behind = {} /\ raced = FALSE /\ faulty = FALSE

Goes(h, to) == at' = [at EXCEPT ![h] = to]

------------------------------------------------------------------------------
(* UpdateDefaultLimits, up to the copy of the configuration. *)

UpdateDefaults(h) ==
  /\ up /\ at[h] = "idle" /\ saves < MaxSaves
  /\ \E r \in Requests :
       /\ req' = [req EXCEPT ![h] = r]
       /\ running' = [running EXCEPT !.defaults = r.limits]
  /\ Goes(h, "global")
  /\ saves' = saves + 1
  /\ raced' = (Active # {})
  /\ UNCHANGED <<up, cfg, lock, file, copy, faults, lives, behind, faulty>>

UpdateGlobalLimit(h) ==
  /\ at[h] = "global"
  /\ running' = [running EXCEPT !.global = req[h].limits]
  /\ Goes(h, "copy")
  /\ UNCHANGED <<up, cfg, lock, file, req, copy, bounds, history>>

KeptIfUnset(new, old) == IF new = Unset THEN old ELSE new

(* Mutant: an empty field clears the setting. *)
ChangedBlindly(c, r) ==
  [c EXCEPT !.limits = r.limits, !.key = r.key, !.password = KeptIfUnset(r.password, @)]

(* What a request makes of a configuration; empty fields keep the value. *)
Changed(c, r) ==
  [c EXCEPT !.limits = r.limits, !.key = KeptIfUnset(r.key, @),
            !.password = KeptIfUnset(r.password, @)]

(* Mutant: the limits are changed and not saved. *)
CopyConfigKeepsLimits(h) ==
  /\ at[h] = "copy" /\ lock = None
  /\ copy' = [copy EXCEPT ![h] = [Changed(cfg, req[h]) EXCEPT !.limits = cfg.limits]]
  /\ behind' = behind \ {h}
  /\ Goes(h, "update")
  /\ UNCHANGED <<up, cfg, lock, file, running, req, bounds, raced, faulty>>

CopyConfig(h) ==
  /\ at[h] = "copy" /\ lock = None
  /\ copy' = [copy EXCEPT ![h] = Changed(cfg, req[h])]
  /\ behind' = behind \ {h}
  /\ Goes(h, "update")
  /\ UNCHANGED <<up, cfg, lock, file, running, req, bounds, raced, faulty>>

(* The handlers that hold a copy taken before h changes the configuration. *)
LeftBehind(h) ==
  IF copy[h] = cfg THEN {} ELSE {o \in Savers \ {h} : at[o] \in {"update", "save"}}

Update(h) ==
  /\ at[h] = "update" /\ lock = None
  /\ cfg' = copy[h]
  /\ behind' = behind \cup LeftBehind(h)
  /\ Goes(h, "save")
  /\ UNCHANGED <<up, lock, file, running, req, copy, bounds, raced, faulty>>

------------------------------------------------------------------------------
(* Save. *)

(* Mutant: the file is written from the argument, the variable is not set. *)
SaveArgument(h) ==
  /\ at[h] = "save" /\ lock = None
  /\ lock' = h
  /\ Goes(h, "hash")
  /\ UNCHANGED <<up, cfg, file, running, req, copy, bounds, history>>

Save(h) ==
  /\ at[h] = "save" /\ lock = None
  /\ lock' = h
  /\ cfg' = copy[h]
  /\ behind' = behind \cup LeftBehind(h)
  /\ Goes(h, "hash")
  /\ UNCHANGED <<up, file, running, req, copy, bounds, raced, faulty>>

(* Mutant: neither the password nor its hash is written. *)
SanitizedAway(c) == [limits |-> c.limits, key |-> c.key]

(* What is written: the password as its hash only. *)
Sanitized(c) ==
  [c EXCEPT !.hash = IF c.password = Unset THEN @ ELSE c.password, !.password = Unset]

(* Mutant: Save fails after the file has been opened for writing. *)
TruncateFirst(h) ==
  /\ at[h] = "hash"
  /\ file' = Empty
  /\ \/ Goes(h, "write") /\ UNCHANGED lock
     \/ Goes(h, "idle") /\ lock' = None
  /\ UNCHANGED <<up, cfg, running, req, copy, bounds, history>>

Truncate(h) ==
  /\ at[h] = "hash"
  /\ file' = Empty
  /\ Goes(h, "write")
  /\ UNCHANGED <<up, cfg, lock, running, req, copy, bounds, history>>

Returns(h) == Goes(h, "idle") /\ lock' = None

(* The lock is held since Save, so copy[h] is the configuration. *)
WriteFile(h) ==
  /\ at[h] = "write"
  /\ file' = Sanitized(copy[h])
  /\ Returns(h)
  /\ faulty' = FALSE
  /\ UNCHANGED <<up, cfg, running, req, copy, bounds, behind, raced>>

Fault == faults < MaxFaults /\ faults' = faults + 1

(* Mutant: an early return that leaves the lock taken. *)
SaveFailsLocked(h) ==
  /\ at[h] = "hash" /\ Fault /\ Goes(h, "idle") /\ faulty' = TRUE
  /\ UNCHANGED <<up, cfg, lock, file, running, req, copy, saves, lives, behind, raced>>

(* The hash, the encryption or the opening of the file fails. *)
SaveFails(h) ==
  /\ at[h] = "hash"
  /\ Fault
  /\ Returns(h)
  /\ faulty' = TRUE
  /\ UNCHANGED <<up, cfg, file, running, req, copy, saves, lives, behind, raced>>

WriteFails(h) ==
  /\ at[h] = "write"
  /\ Fault
  /\ Returns(h)
  /\ faulty' = TRUE
  /\ UNCHANGED <<up, cfg, file, running, req, copy, saves, lives, behind, raced>>

(* The Chmod after the file was written fails: an error, and a file that is *)
(* as it should be.                                                         *)
ChmodFails(h) ==
  /\ at[h] = "write"
  /\ file' = Sanitized(copy[h])
  /\ Fault
  /\ Returns(h)
  /\ faulty' = FALSE
  /\ UNCHANGED <<up, cfg, running, req, copy, saves, lives, behind, raced>>

------------------------------------------------------------------------------
(* The process ends where it is: on a signal, on the panel's restart, which *)
(* waits for no handler, or in a crash.                                     *)
ProcessEnds ==
  /\ up
  /\ up' = FALSE
  /\ at' = [h \in Savers |-> "idle"]
  /\ lock' = None
  /\ UNCHANGED <<cfg, file, running, req, copy, bounds, history>>

Start ==
  /\ ~up /\ lives < MaxLives
  /\ up' = TRUE
  /\ cfg' = Loaded(file)
  /\ running' = Running(cfg'.limits)
  /\ lives' = lives + 1
  /\ behind' = {} /\ raced' = FALSE /\ faulty' = FALSE
  /\ UNCHANGED <<lock, file, handlers, saves, faults>>

Proceeds(h) ==
  \/ UpdateGlobalLimit(h) \/ CopyConfig(h) \/ Update(h) \/ Save(h)
  \/ Truncate(h) \/ WriteFile(h) \/ SaveFails(h) \/ WriteFails(h)
  \/ ChmodFails(h)

Next ==
  \/ \E h \in Savers : UpdateDefaults(h) \/ Proceeds(h)
  \/ ProcessEnds \/ Start

Fairness == \A h \in Savers : WF_vars(Proceeds(h))

Spec == Init /\ [][Next]_vars /\ Fairness

------------------------------------------------------------------------------
(* Properties. *)

(* Every variable keeps its type. *)
TypeOK ==
  /\ up \in BOOLEAN
  /\ cfg \in Config
  /\ lock \in Savers \cup {None}
  /\ file \in Config \cup {Empty}
  /\ running \in [defaults : Limits, global : Limits]
  /\ at \in [Savers -> {"idle", "global", "copy", "update", "save", "hash", "write"}]
  /\ req \in [Savers -> Requests]
  /\ copy \in [Savers -> Config]
  /\ saves \in 0 .. MaxSaves /\ faults \in 0 .. MaxFaults /\ lives \in 1 .. MaxLives
  /\ behind \subseteq Savers
  /\ raced \in BOOLEAN /\ faulty \in BOOLEAN

Quiet == up /\ Active = {}

(* The password a configuration was last given. *)
Given(c) == IF c.password # Unset THEN c.password ELSE c.hash
Meant(c) == [limits |-> c.limits, key |-> c.key, password |-> Given(c)]
Same(c, d) == Meant(c) = Meant(d)

(* When no handler is at work and the last Save was completed, a restart   *)
(* would load the settings the process has, however Updates and Saves of   *)
(* several handlers were interleaved.                                      *)
FileFollowsMemory == Quiet /\ ~faulty => Same(cfg, Loaded(file))

(* The running limits are those of the configuration when no handler is at *)
(* work, unless handlers overlapped: a Save that failed does not matter.   *)
LimitsFollowConfig == Quiet /\ ~raced => running = Running(cfg.limits)

(* The settings of the abstract store: what they mean, in memory and in    *)
(* the file; they are written while a handler is between the two halves of *)
(* os.WriteFile.                                                           *)
OnDisk == IF file = Empty THEN {} ELSE {Meant(Loaded(file))}
Phase ==
  IF ~up THEN "down" ELSE IF \E h \in Savers : at[h] = "write" THEN "writing" ELSE "serving"

Store == INSTANCE SettingsStore
  WITH Values <- [limits : Limits, key : ApiKeys \cup {Unset}, password : Passwords],
       Default <- [limits |-> NoLimit, key |-> Unset, password |-> BuiltIn],
       memory <- Meant(cfg), disk <- OnDisk, phase <- Phase

(* However handlers, failed calls and restarts interleave, the file has    *)
(* what the process had as it was written, and nothing only when a write   *)
(* was cut short: a Save that fails earlier leaves it alone.               *)
ImplementsStore == Store!Spec

(* The API key changes to the one a request brings, or falls back to an    *)
(* older one under the hands of a handler whose copy is older than the     *)
(* last change: nothing else that a request left empty is ever lost.       *)
KeyKeptUnlessRaced ==
  [][up /\ up' /\ cfg'.key # cfg.key =>
       \E h \in Savers :
         at'[h] # at[h] /\ (h \in behind \/ (req[h].key = cfg'.key /\ cfg'.key # Unset))]_vars

(* A handler that began ends, with the lock given back by whatever failed. *)
SavesEnd == \A h \in Savers : at[h] # "idle" ~> at[h] = "idle"

(* The settings handler answers "Settings updated successfully" and asks   *)
(* for a restart only after a new port or path; so what VerifyAdminPassword *)
(* accepts does not change with a restart.                                 *)
Accepted(c) == IF c.hash # Unset THEN c.hash ELSE c.password
PasswordTakesEffect == Quiet /\ ~faulty => Accepted(cfg) = Accepted(Loaded(file))

==============================================================================
