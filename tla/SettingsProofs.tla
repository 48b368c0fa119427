--------------------------- MODULE SettingsProofs ----------------------------
(***************************************************************************)
(* What holds of Settings for any number of handlers, any requests and any *)
(* bounds.  IInv says what each handler has established at the stage it is *)
(* at: the lock it holds makes its copy the configuration, the file        *)
(* follows unless somebody is between config.Update and the end of         *)
(* config.Save, the running limits are those a lone handler has set so     *)
(* far, and a copy differs from the configuration in what was asked for.   *)
(* Under IInv each step is one of the abstract store, or leaves it alone.  *)
(***************************************************************************)
EXTENDS Settings, TLAPS

(* config.Save has the lock for itself, and what it writes is config.cfg.  *)
LockInv ==
  /\ ~up => lock = None /\ Active = {}
  /\ \A h \in Savers :
       /\ at[h] \in {"hash", "write"} <=> lock = h
       /\ at[h] \in {"hash", "write"} => copy[h] = cfg

(* There is always a password, or the hash of one. *)
PasswordInv == Given(cfg) # Unset /\ \A h \in Savers : Given(copy[h]) # Unset

(* Between config.Update and the end of config.Save the file is behind. *)
Saving(h) == at[h] \in {"save", "hash", "write"}
FileInv == up /\ ~faulty /\ (\A h \in Savers : ~Saving(h)) => Same(cfg, Loaded(file))

(* A handler that has the settings for itself knows the running limits. *)
Alone(h) == Active \subseteq {h}
LimitsInv ==
  up /\ ~raced =>
    /\ Active = {} => running = Running(cfg.limits)
    /\ \A h \in Active :
         /\ Alone(h)
         /\ running.defaults = req[h].limits
         /\ at[h] # "global" => running = Running(req[h].limits)
         /\ at[h] \notin {"global", "copy"} => copy[h].limits = req[h].limits

(* A copy that is not behind differs in the key that was asked for, if any. *)
KeyInv ==
  \A h \in Savers :
    at[h] \in {"update", "save"} /\ h \notin behind =>
      copy[h].key = KeptIfUnset(req[h].key, cfg.key)

IInv == /\ TypeOK /\ LockInv /\ PasswordInv /\ FileInv
        /\ LimitsInv /\ KeyInv

------------------------------------------------------------------------------
(* What is written, read and changed. *)

(* Load makes a configuration with a password of whatever is in the file. *)
LEMMA LoadedHasPassword ==
  ASSUME NEW f \in Config \cup {Empty}
  PROVE  Loaded(f) \in Config /\ Given(Loaded(f)) # Unset
<1>1. [limits |-> NoLimit, key |-> Unset, password |-> Unset, hash |-> Unset] \in Config
  BY ValuesAssumption DEF Config
<1>2. ASSUME NEW c \in Config
      PROVE  [c EXCEPT !.password = BuiltIn] \in Config
  BY ValuesAssumption DEF Config
<1>3. QED
  BY <1>1, <1>2, ValuesAssumption DEF Loaded, Given, Config

(* A request leaves a configuration that has a password one that has one. *)
LEMMA ChangedHasPassword ==
  ASSUME NEW c \in Config, Given(c) # Unset, NEW r \in Request
  PROVE  /\ Changed(c, r) \in Config /\ Given(Changed(c, r)) # Unset
         /\ Changed(c, r).limits = r.limits
         /\ Changed(c, r).key = KeptIfUnset(r.key, c.key)
  BY DEF Changed, KeptIfUnset, Config, Request, Given

(* A configuration with a password is read back as it was written. *)
LEMMA WrittenIsRead ==
  ASSUME NEW c \in Config, Given(c) # Unset
  PROVE  Sanitized(c) \in Config /\ Same(c, Loaded(Sanitized(c)))
<1>1. Sanitized(c) \in Config /\ Sanitized(c) # Empty
  BY EmptyAssumption DEF Sanitized, Config
<1>2. /\ Sanitized(c).password = Unset /\ Sanitized(c).hash = Given(c)
      /\ Sanitized(c).limits = c.limits /\ Sanitized(c).key = c.key
  BY DEF Sanitized, Config, Given
<1>3. Loaded(Sanitized(c)) = Sanitized(c)
  BY <1>1, <1>2 DEF Loaded
<1>4. QED
  BY <1>1, <1>2, <1>3 DEF Same, Meant, Given

------------------------------------------------------------------------------
(* The initial states. *)

(* The process starts with what the file has and no handler at work. *)
LEMMA InitIInv == Init => IInv
<1> SUFFICES ASSUME Init PROVE IInv
  OBVIOUS
<1>1. file \in Config /\ cfg = Loaded(file) /\ cfg \in Config /\ Given(cfg) # Unset
  BY LoadedHasPassword DEF Init
<1>2. AnyRequest \in Requests
  BY RequestsAssumption DEF AnyRequest
<1>3. TypeOK
  <2>1. running \in [defaults : Limits, global : Limits]
    BY <1>1 DEF Init, Running, Config
  <2>2. saves \in 0 .. MaxSaves /\ faults \in 0 .. MaxFaults /\ lives \in 1 .. MaxLives
    BY SettingsBoundsAssumption DEF Init
  <2>3. raced \in BOOLEAN /\ faulty \in BOOLEAN
    BY DEF Init
  <2>4. at \in [Savers -> {"idle", "global", "copy", "update", "save", "hash", "write"}]
        /\ req \in [Savers -> Requests] /\ copy \in [Savers -> Config]
    BY <1>1, <1>2 DEF Init
  <2>5. QED
    BY <1>1, <2>1, <2>2, <2>3, <2>4 DEF Init, TypeOK
<1>4. QED
  BY <1>1, <1>3, LockAssumption, EmptyAssumption
  DEF Init, IInv, LockInv, PasswordInv, FileInv, LimitsInv, KeyInv, Active, Same

------------------------------------------------------------------------------
(* The steps of one handler and of the process. *)

(* Types are kept: what is loaded, changed and written is a configuration. *)
LEMMA TypeStep == TypeOK /\ PasswordInv /\ [Next]_vars => TypeOK'
<1> SUFFICES ASSUME TypeOK, PasswordInv, [Next]_vars PROVE TypeOK'
  OBVIOUS
<1> USE DEF TypeOK, handlers, bounds, history, Goes
<1>1. ASSUME NEW h \in Savers, UpdateDefaults(h) PROVE TypeOK'
  <2>1. PICK r \in Requests : running' = [running EXCEPT !.defaults = r.limits]
                              /\ req' = [req EXCEPT ![h] = r]
    BY <1>1 DEF UpdateDefaults
  <2>2. r.limits \in Limits
    BY RequestsAssumption DEF Request
  <2>3. saves' \in 0 .. MaxSaves
    BY <1>1, SettingsBoundsAssumption DEF UpdateDefaults
  <2>4. QED
    BY <1>1, <2>1, <2>2, <2>3 DEF UpdateDefaults
<1>2. ASSUME NEW h \in Savers, UpdateGlobalLimit(h) PROVE TypeOK'
  <2>1. req[h].limits \in Limits
    BY RequestsAssumption DEF Request
  <2>2. QED
    BY <1>2, <2>1 DEF UpdateGlobalLimit
<1>3. ASSUME NEW h \in Savers, CopyConfig(h) PROVE TypeOK'
  <2>1. Changed(cfg, req[h]) \in Config
    BY ChangedHasPassword, RequestsAssumption DEF PasswordInv
  <2>2. QED
    BY <1>3, <2>1 DEF CopyConfig
<1>4. ASSUME NEW h \in Savers, Update(h) \/ Save(h) PROVE TypeOK'
  <2>1. copy[h] \in Config /\ LeftBehind(h) \subseteq Savers
    BY DEF LeftBehind
  <2>2. QED
    BY <1>4, <2>1 DEF Update, Save
<1>5. ASSUME NEW h \in Savers, Truncate(h) \/ WriteFile(h) PROVE TypeOK'
  <2>1. Sanitized(copy[h]) \in Config
    BY WrittenIsRead DEF PasswordInv
  <2>2. QED
    BY <1>5, <2>1 DEF Truncate, WriteFile, Returns
<1>6. ASSUME NEW h \in Savers, SaveFails(h) \/ WriteFails(h) \/ ChmodFails(h) PROVE TypeOK'
  <2>1. faults' \in 0 .. MaxFaults
    BY <1>6, SettingsBoundsAssumption DEF SaveFails, WriteFails, ChmodFails, Fault
  <2>2. Sanitized(copy[h]) \in Config
    BY WrittenIsRead DEF PasswordInv
  <2>3. CASE SaveFails(h) \/ WriteFails(h)
    BY <2>1, <2>3 DEF SaveFails, WriteFails, Returns
  <2>4. CASE ChmodFails(h)
    BY <2>1, <2>2, <2>4 DEF ChmodFails, Returns
  <2>5. QED
    BY <1>6, <2>3, <2>4
<1>7. CASE ProcessEnds
  BY <1>7 DEF ProcessEnds
<1>8. CASE Start
  <2>1. cfg' \in Config
    BY <1>8, LoadedHasPassword DEF Start
  <2>2. running' \in [defaults : Limits, global : Limits]
    BY <1>8, <2>1 DEF Start, Running, Config
  <2>3. lives' \in 1 .. MaxLives
    BY <1>8, SettingsBoundsAssumption DEF Start
  <2>4. QED
    BY <1>8, <2>1, <2>2, <2>3 DEF Start
<1>9. CASE UNCHANGED vars
  BY <1>9 DEF vars
<1>10. QED
  BY <1>1, <1>2, <1>3, <1>4, <1>5, <1>6, <1>7, <1>8, <1>9 DEF Next, Proceeds

(* Whoever saves has the lock; the others wait for it before they change   *)
(* the configuration.                                                      *)
LEMMA LockStep == TypeOK /\ LockInv /\ [Next]_vars => LockInv'
<1> SUFFICES ASSUME TypeOK, LockInv, [Next]_vars PROVE LockInv'
  OBVIOUS
<1> USE DEF TypeOK, LockInv, Active, handlers, bounds, history, Goes, Returns
<1>1. ASSUME NEW h \in Savers, UpdateDefaults(h) \/ UpdateGlobalLimit(h) \/ CopyConfig(h)
      PROVE  LockInv'
  BY <1>1 DEF UpdateDefaults, UpdateGlobalLimit, CopyConfig
<1>2. ASSUME NEW h \in Savers, Update(h) PROVE LockInv'
  BY <1>2, LockAssumption DEF Update
<1>3. ASSUME NEW h \in Savers, Save(h) PROVE LockInv'
  BY <1>3, LockAssumption DEF Save
<1>4. ASSUME NEW h \in Savers, Truncate(h) PROVE LockInv'
  BY <1>4 DEF Truncate
<1>5. ASSUME NEW h \in Savers,
             WriteFile(h) \/ SaveFails(h) \/ WriteFails(h) \/ ChmodFails(h)
      PROVE  LockInv'
  BY <1>5, LockAssumption DEF WriteFile, SaveFails, WriteFails, ChmodFails
<1>6. CASE ProcessEnds
  BY <1>6, LockAssumption DEF ProcessEnds
<1>7. CASE Start
  BY <1>7 DEF Start
<1>8. CASE UNCHANGED vars
  BY <1>8 DEF vars
<1>9. QED
  BY <1>1, <1>2, <1>3, <1>4, <1>5, <1>6, <1>7, <1>8 DEF Next, Proceeds

(* No request and no restart leaves the portal without a password. *)
LEMMA PasswordStep == TypeOK /\ PasswordInv /\ [Next]_vars => PasswordInv'
<1> SUFFICES ASSUME TypeOK, PasswordInv, [Next]_vars PROVE PasswordInv'
  OBVIOUS
<1>1. CASE UNCHANGED <<cfg, copy>>
  BY <1>1 DEF PasswordInv
<1>2. ASSUME NEW h \in Savers, CopyConfig(h) PROVE PasswordInv'
  <2>1. Given(Changed(cfg, req[h])) # Unset
    BY ChangedHasPassword, RequestsAssumption DEF PasswordInv, TypeOK
  <2>2. QED
    BY <1>2, <2>1 DEF CopyConfig, PasswordInv, TypeOK
<1>3. ASSUME NEW h \in Savers, Update(h) \/ Save(h) PROVE PasswordInv'
  BY <1>3 DEF Update, Save, PasswordInv
<1>4. CASE Start
  BY <1>4, LoadedHasPassword DEF Start, PasswordInv, TypeOK, handlers
<1>5. QED
  BY <1>1, <1>2, <1>3, <1>4 DEF Next, Proceeds, UpdateDefaults, UpdateGlobalLimit, Truncate,
     WriteFile, SaveFails, WriteFails, ChmodFails, ProcessEnds, vars, handlers

(* The file falls behind with Update and is written by Save, or Save fails. *)
LEMMA FileStep ==
  TypeOK /\ LockInv /\ PasswordInv /\ FileInv /\ [Next]_vars => FileInv'
<1> SUFFICES ASSUME TypeOK, LockInv, PasswordInv, FileInv, [Next]_vars PROVE FileInv'
  OBVIOUS
<1> USE DEF FileInv, Saving, TypeOK, handlers, bounds, history, Goes, Returns
<1>1. ASSUME NEW h \in Savers, UpdateDefaults(h) \/ UpdateGlobalLimit(h) \/ CopyConfig(h)
      PROVE  FileInv'
  BY <1>1 DEF UpdateDefaults, UpdateGlobalLimit, CopyConfig
<1>2. ASSUME NEW h \in Savers, Update(h) \/ Save(h) \/ Truncate(h) PROVE FileInv'
  <2>1. Saving(h)'
    BY <1>2 DEF Update, Save, Truncate
  <2>2. QED
    BY <2>1
<1>3. ASSUME NEW h \in Savers, WriteFile(h) \/ ChmodFails(h) PROVE FileInv'
  <2>1. copy[h] = cfg
    BY <1>3 DEF WriteFile, ChmodFails, LockInv
  <2>2. Same(cfg, Loaded(Sanitized(cfg)))
    BY WrittenIsRead DEF PasswordInv
  <2>3. cfg' = cfg /\ file' = Sanitized(cfg)
    BY <1>3, <2>1 DEF WriteFile, ChmodFails
  <2>4. QED
    BY <2>2, <2>3
<1>4. ASSUME NEW h \in Savers, SaveFails(h) \/ WriteFails(h) PROVE FileInv'
  BY <1>4 DEF SaveFails, WriteFails
<1>5. CASE ProcessEnds
  BY <1>5 DEF ProcessEnds
<1>6. CASE Start
  BY <1>6 DEF Start, Same
<1>7. CASE UNCHANGED vars
  BY <1>7 DEF vars
<1>8. QED
  BY <1>1, <1>2, <1>3, <1>4, <1>5, <1>6, <1>7 DEF Next, Proceeds

(* A handler that has the settings for itself sets both running limits and *)
(* the configuration to the limits it was asked for.                       *)
LEMMA LimitsStep ==
  TypeOK /\ LockInv /\ LimitsInv /\ [Next]_vars => LimitsInv'
<1> SUFFICES ASSUME TypeOK, LockInv, LimitsInv, [Next]_vars PROVE LimitsInv'
  OBVIOUS
<1> USE DEF LimitsInv, Alone, Active, Running, TypeOK, handlers, bounds, history, Goes, Returns
<1>1. ASSUME NEW h \in Savers, UpdateDefaults(h) PROVE LimitsInv'
  <2>1. ~raced' => \A o \in Savers : at[o] = "idle"
    <3>1. raced' = (Active # {})
      BY <1>1 DEF UpdateDefaults
    <3>2. Active = {} => \A o \in Savers : at[o] = "idle"
      OBVIOUS
    <3>3. QED
      BY <3>1, <3>2, Zenon
  <2>2. running'.defaults = req'[h].limits /\ at' = [at EXCEPT ![h] = "global"]
    BY <1>1 DEF UpdateDefaults
  <2>3. QED
    BY <2>1, <2>2
<1>2. ASSUME NEW h \in Savers, UpdateGlobalLimit(h) PROVE LimitsInv'
  BY <1>2 DEF UpdateGlobalLimit
<1>3. ASSUME NEW h \in Savers, CopyConfig(h) PROVE LimitsInv'
  <2>1. copy'[h].limits = req[h].limits
    BY <1>3 DEF CopyConfig, Changed, Config
  <2>2. QED
    BY <1>3, <2>1 DEF CopyConfig
<1>4. ASSUME NEW h \in Savers, Update(h) \/ Save(h) \/ Truncate(h) PROVE LimitsInv'
  <2>1. /\ at[h] \in {"update", "save", "hash"} /\ at'[h] \in {"save", "hash", "write"}
        /\ \A o \in Savers \ {h} : at'[o] = at[o]
        /\ UNCHANGED <<up, running, req, copy, raced>>
    BY <1>4 DEF Update, Save, Truncate
  <2>2. h \in Active /\ Active' = Active
    BY <2>1
  <2>3. QED
    BY <2>1, <2>2
<1>5. ASSUME NEW h \in Savers,
             WriteFile(h) \/ SaveFails(h) \/ WriteFails(h) \/ ChmodFails(h)
      PROVE  LimitsInv'
  <2>1. copy[h] = cfg /\ h \in Active /\ Active' = Active \ {h}
    BY <1>5 DEF LockInv, WriteFile, SaveFails, WriteFails, ChmodFails
  <2>2. UNCHANGED <<up, cfg, running, req, copy, raced>>
    BY <1>5 DEF WriteFile, SaveFails, WriteFails, ChmodFails
  <2>3. at[h] \notin {"global", "copy"}
    BY <1>5 DEF WriteFile, SaveFails, WriteFails, ChmodFails
  <2>4. QED
    BY <2>1, <2>2, <2>3
<1>6. CASE ProcessEnds
  BY <1>6 DEF ProcessEnds
<1>7. CASE Start
  BY <1>7 DEF Start, LockInv
<1>8. CASE UNCHANGED vars
  BY <1>8 DEF vars
<1>9. QED
  BY <1>1, <1>2, <1>3, <1>4, <1>5, <1>6, <1>7, <1>8 DEF Next, Proceeds

(* Whoever changes the configuration leaves behind the copies it does not  *)
(* have.                                                                   *)
LEMMA KeyStep == TypeOK /\ LockInv /\ KeyInv /\ [Next]_vars => KeyInv'
<1> SUFFICES ASSUME TypeOK, LockInv, KeyInv, [Next]_vars PROVE KeyInv'
  OBVIOUS
<1> USE DEF KeyInv, TypeOK, handlers, bounds, history, Goes, Returns
<1>1. ASSUME NEW h \in Savers, UpdateDefaults(h) \/ UpdateGlobalLimit(h) PROVE KeyInv'
  BY <1>1 DEF UpdateDefaults, UpdateGlobalLimit
<1>2. ASSUME NEW h \in Savers, CopyConfig(h) PROVE KeyInv'
  <2>1. copy'[h].key = KeptIfUnset(req[h].key, cfg.key)
    BY <1>2 DEF CopyConfig, Changed, Config
  <2>2. QED
    BY <1>2, <2>1 DEF CopyConfig
<1>3. ASSUME NEW h \in Savers, Update(h) \/ Save(h) PROVE KeyInv'
  <2>1. /\ cfg' = copy[h] /\ behind' = behind \cup LeftBehind(h) /\ UNCHANGED <<req, copy>>
        /\ at[h] \in {"update", "save"} /\ at'[h] \in {"save", "hash"}
        /\ \A o \in Savers \ {h} : at'[o] = at[o]
    BY <1>3 DEF Update, Save
  <2> SUFFICES ASSUME NEW o \in Savers, at'[o] \in {"update", "save"}, o \notin behind'
               PROVE  copy[o].key = KeptIfUnset(req[o].key, copy[h].key)
    BY <2>1
  <2>2. CASE o = h
    <3>1. copy[h].key = KeptIfUnset(req[h].key, cfg.key)
      BY <2>1, <2>2
    <3>2. QED
      BY <2>2, <3>1 DEF KeptIfUnset
  <2>3. CASE o # h
    BY <2>1, <2>3 DEF LeftBehind
  <2>4. QED
    BY <2>2, <2>3
<1>4. ASSUME NEW h \in Savers,
             \/ Truncate(h) \/ WriteFile(h) \/ SaveFails(h) \/ WriteFails(h)
             \/ ChmodFails(h)
      PROVE  KeyInv'
  BY <1>4 DEF Truncate, WriteFile, SaveFails, WriteFails, ChmodFails
<1>5. CASE ProcessEnds
  BY <1>5 DEF ProcessEnds
<1>6. CASE Start
  BY <1>6 DEF Start, LockInv, Active
<1>7. CASE UNCHANGED vars
  BY <1>7 DEF vars
<1>8. QED
  BY <1>1, <1>2, <1>3, <1>4, <1>5, <1>6, <1>7 DEF Next, Proceeds

(* Every step preserves the invariant. *)
LEMMA IInvStep == IInv /\ [Next]_vars => IInv'
  BY TypeStep, LockStep, PasswordStep, FileStep, LimitsStep, KeyStep DEF IInv

(* IInv holds in every state of the portal. *)
LEMMA Invariance == Spec => []IInv
  BY InitIInv, IInvStep, PTL DEF Spec

------------------------------------------------------------------------------
(* The abstract store. *)

StoreVars == <<Meant(cfg), OnDisk, Phase>>
StoreStep == [Store!Next]_StoreVars

Values == [limits : Limits, key : ApiKeys \cup {Unset}, password : Passwords]

(* A configuration with a password means one of the values of the store. *)
LEMMA MeantIsAValue ==
  ASSUME NEW c \in Config, Given(c) # Unset
  PROVE  Meant(c) \in Values
<1>1. Given(c) \in Passwords
  BY DEF Given, Config
<1>2. QED
  BY <1>1 DEF Meant, Values, Config

(* The phase is that of the handler that has the lock. *)
LEMMA PhaseIs ==
  ASSUME TypeOK, LockInv, up
  PROVE  /\ \A h \in Savers : at[h] = "write" => Phase = "writing"
         /\ lock = None => Phase = "serving"
         /\ \A h \in Savers : lock = h /\ at[h] # "write" => Phase = "serving"
<1>1. lock = None => \A h \in Savers : at[h] # "write"
  BY LockAssumption DEF LockInv
<1>2. ASSUME NEW h \in Savers, lock = h, at[h] # "write"
      PROVE  \A o \in Savers : at[o] # "write"
  BY <1>2 DEF LockInv
<1>3. QED
  BY <1>1, <1>2 DEF Phase

(* The steps of a handler. *)
LEMMA HandlerStores ==
  ASSUME TypeOK, LockInv, PasswordInv, TypeOK', LockInv', PasswordInv',
         NEW h \in Savers, UpdateDefaults(h) \/ Proceeds(h)
  PROVE  StoreStep
<1> USE DEF Goes, Returns, handlers, bounds, history
<1>1. up /\ up'
  BY DEF LockInv, Active, Proceeds, UpdateDefaults, UpdateGlobalLimit, CopyConfig, Update,
         Save, Truncate, WriteFile, SaveFails, WriteFails, ChmodFails
<1>2. h \in DOMAIN at
  BY DEF TypeOK
<1>3. CASE UpdateDefaults(h) \/ UpdateGlobalLimit(h) \/ CopyConfig(h)
  <2>1. /\ UNCHANGED <<up, cfg, file>>
        /\ \A o \in Savers : at'[o] = "write" <=> at[o] = "write"
    BY <1>2, <1>3 DEF UpdateDefaults, UpdateGlobalLimit, CopyConfig, TypeOK
  <2>2. UNCHANGED StoreVars
    BY <2>1 DEF StoreVars, OnDisk, Phase
  <2>3. QED
    BY <2>2 DEF StoreStep, StoreVars
<1>4. CASE Update(h) \/ Save(h)
  <2>1. lock = None /\ cfg' = copy[h] /\ UNCHANGED file
    BY <1>4 DEF Update, Save
  <2>2. Phase = "serving" /\ Phase' = "serving"
    <3>1. \A o \in Savers : at[o] # "write"
      BY <2>1, LockAssumption DEF LockInv
    <3>2. \A o \in Savers : at'[o] # "write"
      BY <1>4, <3>1 DEF Update, Save, TypeOK
    <3>3. QED
      BY <1>1, <3>1, <3>2 DEF Phase
  <2>3. Meant(cfg)' \in Values
    BY <2>1, MeantIsAValue DEF TypeOK, PasswordInv
  <2>4. UNCHANGED OnDisk
    BY <2>1 DEF OnDisk
  <2>5. Store!Change
    BY <2>2, <2>3, <2>4 DEF Store!Change, Values
  <2>6. QED
    BY <2>5 DEF StoreStep, StoreVars, Store!Next
<1>5. CASE Truncate(h)
  <2>1. at[h] = "hash" /\ lock = h
    BY <1>5 DEF Truncate, LockInv
  <2>2. Phase = "serving"
    BY <1>1, <2>1, PhaseIs
  <2>3. at'[h] = "write"
    BY <1>2, <1>5 DEF Truncate
  <2>4. Phase' = "writing"
    BY <1>1, <2>3 DEF Phase
  <2>5. OnDisk' = {} /\ UNCHANGED cfg
    BY <1>5 DEF Truncate, OnDisk
  <2>6. Store!BeginWrite
    BY <2>2, <2>4, <2>5 DEF Store!BeginWrite
  <2>7. QED
    BY <2>6 DEF StoreStep, StoreVars, Store!Next
<1>6. CASE WriteFile(h) \/ ChmodFails(h)
  <2>1. at[h] = "write" /\ copy[h] = cfg /\ lock' = None
    BY <1>6 DEF WriteFile, ChmodFails, LockInv
  <2>2. Phase = "writing" /\ Phase' = "serving"
    <3>1. \A o \in Savers : at'[o] # "write"
      BY <2>1, LockAssumption DEF LockInv
    <3>2. QED
      BY <1>1, <2>1, <3>1 DEF Phase
  <2>3. file' = Sanitized(cfg) /\ cfg' = cfg
    BY <1>6, <2>1 DEF WriteFile, ChmodFails
  <2>4. Sanitized(cfg) \in Config /\ Meant(cfg) = Meant(Loaded(Sanitized(cfg)))
    BY WrittenIsRead DEF Same, TypeOK, PasswordInv
  <2>5. OnDisk' = {Meant(cfg)}
    BY <2>3, <2>4, EmptyAssumption DEF OnDisk
  <2>6. Store!EndWrite
    BY <2>2, <2>3, <2>5 DEF Store!EndWrite
  <2>7. QED
    BY <2>6 DEF StoreStep, StoreVars, Store!Next
<1>7. CASE SaveFails(h)
  <2>1. at[h] = "hash" /\ lock = h /\ lock' = None /\ UNCHANGED <<cfg, file>>
    BY <1>7 DEF SaveFails, LockInv
  <2>2. Phase = "serving"
    BY <1>1, <2>1, PhaseIs
  <2>3. Phase' = "serving"
    <3>1. \A o \in Savers : at'[o] # "write"
      BY <2>1, LockAssumption DEF LockInv
    <3>2. QED
      BY <1>1, <3>1 DEF Phase
  <2>4. UNCHANGED StoreVars
    BY <2>1, <2>2, <2>3 DEF StoreVars, OnDisk
  <2>5. QED
    BY <2>4 DEF StoreStep, StoreVars
<1>8. CASE WriteFails(h)
  <2>1. at[h] = "write" /\ lock' = None /\ UNCHANGED <<cfg, file>>
    BY <1>8 DEF WriteFails
  <2>2. Phase = "writing" /\ Phase' = "serving"
    <3>1. \A o \in Savers : at'[o] # "write"
      BY <2>1, LockAssumption DEF LockInv
    <3>2. QED
      BY <1>1, <2>1, <3>1 DEF Phase
  <2>3. UNCHANGED OnDisk
    BY <2>1 DEF OnDisk
  <2>4. Store!BreakOff
    BY <2>1, <2>2, <2>3 DEF Store!BreakOff
  <2>5. QED
    BY <2>4 DEF StoreStep, StoreVars, Store!Next
<1>9. QED
  BY <1>3, <1>4, <1>5, <1>6, <1>7, <1>8 DEF Proceeds

(* The end of the process and its start. *)
LEMMA ProcessStores ==
  ASSUME TypeOK, LockInv, ProcessEnds \/ Start
  PROVE  StoreStep
<1>1. CASE ProcessEnds
  <2>1. up /\ ~up' /\ UNCHANGED <<cfg, file>>
    BY <1>1 DEF ProcessEnds
  <2>2. Phase # "down" /\ Phase' = "down"
    BY <2>1 DEF Phase
  <2>3. UNCHANGED OnDisk
    BY <2>1 DEF OnDisk
  <2>4. Store!Stop
    BY <2>1, <2>2, <2>3 DEF Store!Stop
  <2>5. QED
    BY <2>4 DEF StoreStep, StoreVars, Store!Next
<1>2. CASE Start
  <2>1. ~up /\ up' /\ UNCHANGED <<file, at>> /\ cfg' = Loaded(file)
    BY <1>2 DEF Start, handlers
  <2>2. Phase = "down" /\ Phase' = "serving"
    <3>1. \A o \in Savers : at'[o] # "write"
      BY <2>1 DEF LockInv, Active
    <3>2. QED
      BY <2>1, <3>1 DEF Phase
  <2>3. UNCHANGED OnDisk
    BY <2>1 DEF OnDisk
  <2>4. CASE file = Empty
    <3>1. Loaded(Empty) = [limits |-> NoLimit, key |-> Unset,
                           password |-> BuiltIn, hash |-> Unset]
      BY DEF Loaded
    <3>2. Meant(cfg)' = [limits |-> NoLimit, key |-> Unset, password |-> BuiltIn]
      BY <2>1, <2>4, <3>1, ValuesAssumption DEF Meant, Given
    <3>3. OnDisk = {}
      BY <2>4 DEF OnDisk
    <3>4. Store!Restart
      BY <2>2, <2>3, <3>2, <3>3 DEF Store!Restart
    <3>5. QED
      BY <3>4 DEF StoreStep, StoreVars, Store!Next
  <2>5. CASE file # Empty
    <3>1. OnDisk = {Meant(cfg)'}
      BY <2>1, <2>5 DEF OnDisk, Meant, Given
    <3>2. Store!Restart
      BY <2>2, <2>3, <3>1 DEF Store!Restart
    <3>3. QED
      BY <3>2 DEF StoreStep, StoreVars, Store!Next
  <2>6. QED
    BY <2>4, <2>5
<1>3. QED
  BY <1>1, <1>2


------------------------------------------------------------------------------
(* The properties. *)

(* Every variable keeps its type, whatever is in the file at a start. *)
THEOREM TypeCorrect == Spec => []TypeOK
<1>1. IInv => TypeOK
  BY DEF IInv
<1>2. QED
  BY <1>1, Invariance, PTL

(* However the handlers of the settings page interleave Update and Save,   *)
(* once they are done and the last Save did not fail, a restart loads what *)
(* the process has.                                                        *)
THEOREM RestartChangesNothing == Spec => []FileFollowsMemory
<1>1. IInv => FileFollowsMemory
  BY DEF IInv, FileInv, FileFollowsMemory, Saving, Quiet, Active
<1>2. QED
  BY <1>1, Invariance, PTL

(* Handlers that come one after the other leave the running limits at      *)
(* those of the configuration, whether or not their Save failed.           *)
THEOREM LimitsAgree == Spec => []LimitsFollowConfig
<1>1. IInv => LimitsFollowConfig
  BY DEF IInv, LimitsInv, LimitsFollowConfig, Quiet
<1>2. QED
  BY <1>1, Invariance, PTL

(* The settings are a store of one value: in memory while the portal runs, *)
(* on the disk as it was in memory when it was written, and gone from      *)
(* there only within a write or when one was cut short.                    *)
THEOREM SettingsAreAStore == Spec => ImplementsStore
<1>1. Init => Store!Init
  <2> SUFFICES ASSUME Init PROVE Store!Init
    OBVIOUS
  <2>1. IInv /\ file \in Config /\ cfg = Loaded(file)
    BY InitIInv DEF Init
  <2>2. Meant(cfg) \in Values
    BY <2>1, MeantIsAValue DEF IInv, TypeOK, PasswordInv
  <2>3. OnDisk = {Meant(cfg)}
    BY <2>1, EmptyAssumption DEF OnDisk
  <2>4. Phase = "serving"
    BY DEF Init, Phase
  <2>5. QED
    BY <2>2, <2>3, <2>4 DEF Store!Init, Values
<1>2. IInv /\ IInv' /\ [Next]_vars => StoreStep
  <2> SUFFICES ASSUME IInv, IInv', [Next]_vars PROVE StoreStep
    OBVIOUS
  <2>1. /\ TypeOK /\ LockInv /\ PasswordInv
        /\ TypeOK' /\ LockInv' /\ PasswordInv'
    BY DEF IInv
  <2>2. CASE UNCHANGED vars
    BY <2>2 DEF vars, handlers, StoreStep, StoreVars, OnDisk, Phase
  <2>3. CASE Next
    BY <2>1, <2>3, HandlerStores, ProcessStores DEF Next
  <2>4. QED
    BY <2>2, <2>3
<1>3. QED
  BY <1>1, <1>2, Invariance, PTL DEF Spec, ImplementsStore, Store!Spec, StoreStep, StoreVars

(* A step changes the API key only to the one its handler was asked for,   *)
(* or with a copy that is older than the last change.                      *)
THEOREM KeyIsNotLost == Spec => KeyKeptUnlessRaced
<1> DEFINE Moves(h) == at'[h] # at[h]
           Entitled(h) == h \in behind \/ (req[h].key = cfg'.key /\ cfg'.key # Unset)
           Kept == up /\ up' /\ cfg'.key # cfg.key =>
                     \E h \in Savers : Moves(h) /\ Entitled(h)
<1>1. ASSUME IInv, [Next]_vars PROVE Kept
  <2>1. ASSUME NEW h \in Savers, Update(h) \/ Save(h) PROVE Kept
    <3>1. cfg' = copy[h] /\ at[h] \in {"update", "save"} /\ Moves(h)
      BY <1>1, <2>1 DEF Update, Save, Goes, IInv, TypeOK
    <3>2. h \notin behind => copy[h].key = KeptIfUnset(req[h].key, cfg.key)
      BY <1>1, <3>1 DEF IInv, KeyInv
    <3>3. QED
      BY <3>1, <3>2 DEF KeptIfUnset
  <2>2. CASE UNCHANGED cfg \/ ~up
    BY <2>2
  <2>3. QED
    BY <1>1, <2>1, <2>2 DEF Next, Proceeds, UpdateDefaults, UpdateGlobalLimit, CopyConfig,
       Truncate, WriteFile, SaveFails, WriteFails, ChmodFails, ProcessEnds, Start, vars
<1>2. [Next]_vars /\ IInv => [Kept]_vars
  BY <1>1
<1>3. QED
  BY <1>2, Invariance, PTL DEF Spec, KeyKeptUnlessRaced

==============================================================================
