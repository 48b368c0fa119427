---------------------------- MODULE SettingsStore ----------------------------
(***************************************************************************)
(* What the portal promises about its settings, with no handlers, no lock  *)
(* and no hashes in sight.  There is one value in memory and at most one   *)
(* on the disk.  The one in memory changes while the portal serves, and    *)
(* stands still while it is written.  A write first takes away what was    *)
(* on the disk; it ends with the disk having the value in memory, or is    *)
(* cut short and leaves nothing there.  Whoever starts the portal gets     *)
(* what is on the disk, and the built-in settings where there is nothing.  *)
(***************************************************************************)
CONSTANTS Values, Default

VARIABLES
  memory,  \* a value
  disk,    \* {}, or the set of one value
  phase    \* "serving", "writing" or "down"

Init ==
  /\ memory \in Values
  /\ disk = {memory}
  /\ phase = "serving"

Change ==
  /\ phase = "serving"
  /\ memory' \in Values
  /\ UNCHANGED <<disk, phase>>

BeginWrite ==
  /\ phase = "serving" /\ phase' = "writing"
  /\ disk' = {}
  /\ UNCHANGED memory

EndWrite ==
  /\ phase = "writing" /\ phase' = "serving"
  /\ disk' = {memory}
  /\ UNCHANGED memory

BreakOff ==
  /\ phase = "writing" /\ phase' = "serving"
  /\ UNCHANGED <<memory, disk>>

Stop ==
  /\ phase # "down" /\ phase' = "down"
  /\ UNCHANGED <<memory, disk>>

Restart ==
  /\ phase = "down" /\ phase' = "serving"
  /\ memory' \in (IF disk = {} THEN {Default} ELSE disk)
  /\ UNCHANGED disk

Next == Change \/ BeginWrite \/ EndWrite \/ BreakOff \/ Stop \/ Restart

Spec == Init /\ [][Next]_<<memory, disk, phase>>

==============================================================================
