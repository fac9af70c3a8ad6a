---------------------------- MODULE PowerManager ----------------------------
(***************************************************************************)
(* powerManager.cpp: a loop that, every 50 ms, reads one status from the   *)
(* system manager driver, changes the power state for it, and reads the    *)
(* power key; when the key was down HoldCount times in a row it asks the   *)
(* driver to power off, and the driver answers with a status of its own.   *)
(*                                                                         *)
(* As built, ENABLE_POWER_MODE is off: ProcessPowerManagement ends after   *)
(* PowerOff_Check, and the times it would compare are left out.  The       *)
(* display and the clock are files the program opens for each change, and  *)
(* an open may fail.                                                       *)
(***************************************************************************)
EXTENDS Integers, Sequences

CONSTANTS
  HoldCount,    (* readings of a held key before power-off (20)            *)
  MaxPending,   (* bounds the model: statuses the driver keeps             *)
  Faults        (* what may fail, of AllFaults                             *)

AllFaults == {"key", "command", "clock", "display"}

ASSUME PowerAssumption ==
  /\ HoldCount \in Nat \ {0}
  /\ MaxPending \in Nat \ {0}
  /\ Faults \subseteq AllFaults

VARIABLES
  pc,               (* where the loop is; "off" after system("poweroff")   *)
  power_state,
  old_power_state,
  power_off_count,
  key,              (* the power key                                       *)
  pending,          (* statuses in the driver, in order                    *)
  lit,              (* the display is on                                   *)
  sleptDark,        (* history: the machine slept since the display is off *)
  failed,           (* history: what has failed                            *)
  asked             (* history: who wanted the machine off                 *)

manager == <<pc, power_state, old_power_state, power_off_count>>

vars == <<manager, key, pending, lit, sleptDark, failed, asked>>

Sleeps == {"idle", "memory_idle", "power_down"}
Offs   == {"rtc_power_off", "power_off"}
States == {"normal", "display_off"} \cup Sleeps \cup Offs

(* What the driver reports: a card or a cable (inserted, removed, plugged   *)
(* or unplugged: all are handled alike), or the state to be in.  The        *)
(* statuses of the two idle states and of audio are handled by #if 0 code   *)
(* only.                                                                    *)
Statuses ==
  {"plugged", "audio", "normal", "display_off", "idle", "power_down"} \cup Offs

TypeOK ==
  /\ pc \in {"service", "check", "off"}
  /\ power_state \in States
  /\ old_power_state \in States
  /\ power_off_count \in 0 .. HoldCount + 1
  /\ key \in {"up", "down"}
  /\ pending \in Seq(Statuses)
  /\ lit \in BOOLEAN
  /\ sleptDark \in BOOLEAN
  /\ failed \subseteq AllFaults
  /\ asked \subseteq {"key", "status"}

Init ==
  /\ pc = "service"
  /\ power_state = "normal"
  /\ old_power_state = "normal"
  /\ power_off_count = 0
  /\ key = "up"
  /\ pending = <<>>
  /\ lit = TRUE
  /\ sleptDark = FALSE
  /\ failed = {}
  /\ asked = {}

Fails(f) == f \in Faults /\ failed' = failed \cup {f}

-----------------------------------------------------------------------------
(* ProcessPowerState(state), one definition for each branch.               *)

Same(state) ==
  /\ state = power_state
  /\ pc' = "check"
  /\ UNCHANGED <<power_state, old_power_state, lit, sleptDark, failed>>

Changes(state) ==
  /\ state # power_state
  /\ old_power_state' = power_state
  /\ power_state' = state

(* Mutated form of GoesNormal: a dark display stays dark. *)
GoesNormalDark(state) ==
  /\ state = "normal"
  /\ Changes(state)
  /\ pc' = "check"
  /\ UNCHANGED <<lit, sleptDark, failed>>

(* Only a display that was switched off by the last change is switched on. *)
GoesNormal(state) ==
  /\ state = "normal"
  /\ Changes(state)
  /\ IF power_state = "display_off"
     THEN \/ /\ lit' = TRUE
             /\ sleptDark' = FALSE
             /\ UNCHANGED failed
          \/ Fails("display") /\ UNCHANGED <<lit, sleptDark>>
     ELSE UNCHANGED <<lit, sleptDark, failed>>
  /\ pc' = "check"

GoesDark(state) ==
  /\ state = "display_off"
  /\ Changes(state)
  /\ \/ lit' = FALSE /\ UNCHANGED failed
     \/ Fails("display") /\ UNCHANGED lit
  /\ pc' = "check"
  /\ UNCHANGED sleptDark

(* The state has changed already when the clock turns out not to open. *)
ClockFails(state) ==
  /\ state \in Sleeps \cup Offs
  /\ Changes(state)
  /\ Fails("clock")
  /\ pc' = "check"
  /\ UNCHANGED <<lit, sleptDark>>

(* The write to the clock returns when the machine wakes up. *)
SleepsAndWakes(state) ==
  /\ state \in Sleeps
  /\ state # power_state
  /\ old_power_state' = state
  /\ power_state' = "normal"
  /\ sleptDark' = ~lit
  /\ pc' = "check"
  /\ UNCHANGED <<lit, failed>>

(* system("poweroff"), and a loop that never ends. *)
PowersOff(state) ==
  /\ state \in Offs
  /\ Changes(state)
  /\ pc' = "off"
  /\ UNCHANGED <<lit, sleptDark, failed>>

ProcessPowerState(state) ==
  \/ Same(state)
  \/ GoesNormal(state)
  \/ GoesDark(state)
  \/ ClockFails(state)
  \/ SleepsAndWakes(state)
  \/ PowersOff(state)
-----------------------------------------------------------------------------
(* PM_Service: the select() and the read().                                *)

NoStatus ==
  /\ pc = "service"
  /\ pending = <<>>
  /\ pc' = "check"
  /\ UNCHANGED <<power_state, old_power_state, power_off_count, key, pending,
                 lit, sleptDark, failed, asked>>

(* A status the program does not look for. *)
Ignored == {"audio", "idle"}

(* ProcessSysMgrStatus: a card or a cable wakes the machine as NORMAL does. *)
StatusRead ==
  /\ pc = "service"
  /\ pending # <<>>
  /\ pending' = Tail(pending)
  /\ LET status == Head(pending) IN
       \/ /\ status \in Ignored
          /\ pc' = "check"
          /\ UNCHANGED <<power_state, old_power_state, lit, sleptDark, failed>>
       \/ status = "plugged" /\ ProcessPowerState("normal")
       \/ status \in States \ Ignored /\ ProcessPowerState(status)
  /\ UNCHANGED <<power_off_count, key, asked>>
-----------------------------------------------------------------------------
(* ProcessPowerManagement, which is PowerOff_Check.                        *)

(* Mutated form of KeyRead: 0 is taken for a key that is up. *)
KeyReadUpsideDown ==
  /\ pc = "check"
  /\ power_off_count < HoldCount
  /\ power_off_count' = IF key = "up" THEN power_off_count + 1 ELSE 0
  /\ pc' = "service"
  /\ UNCHANGED <<power_state, old_power_state, key, pending, lit, sleptDark,
                 failed, asked>>

(* The key is read until it was down HoldCount times in a row; a reading    *)
(* that fails leaves the 0 of a key that is down.                           *)
KeyRead ==
  /\ pc = "check"
  /\ power_off_count < HoldCount
  /\ \/ /\ power_off_count' = IF key = "down" THEN power_off_count + 1 ELSE 0
        /\ UNCHANGED failed
     \/ power_off_count' = power_off_count + 1 /\ Fails("key")
  /\ pc' = "service"
  /\ UNCHANGED <<power_state, old_power_state, key, pending, lit, sleptDark,
                 asked>>

(* Mutated form of CommandsOff: the command is sent in every later round. *)
CommandsOffAgain ==
  /\ pc = "check"
  /\ power_off_count >= HoldCount
  /\ pending' = Append(pending, "rtc_power_off")
  /\ power_off_count' = power_off_count + 1
  /\ pc' = "service"
  /\ UNCHANGED <<power_state, old_power_state, key, lit, sleptDark, failed, asked>>

(* Mutated form of CommandsOff: one more reading than KeyRead ever counts. *)
CommandsOffLate ==
  /\ pc = "check"
  /\ power_off_count = HoldCount + 1
  /\ pending' = Append(pending, "rtc_power_off")
  /\ power_off_count' = power_off_count + 1
  /\ pc' = "service"
  /\ UNCHANGED <<power_state, old_power_state, key, lit, sleptDark, failed, asked>>

(* One command to the driver, which reports RTC_POWER_OFF in answer (the    *)
(* driver is not in the repository; commands and statuses have the same     *)
(* values).  The count goes up whether or not the driver took the command.  *)
CommandsOff ==
  /\ pc = "check"
  /\ power_off_count = HoldCount
  /\ \/ pending' = Append(pending, "rtc_power_off") /\ UNCHANGED failed
     \/ Fails("command") /\ UNCHANGED pending
  /\ power_off_count' = power_off_count + 1
  /\ pc' = "service"
  /\ UNCHANGED <<power_state, old_power_state, key, lit, sleptDark, asked>>

(* The command was sent once: the key is not read any more. *)
KeyDead ==
  /\ pc = "check"
  /\ power_off_count > HoldCount
  /\ pc' = "service"
  /\ UNCHANGED <<power_state, old_power_state, power_off_count, key, pending,
                 lit, sleptDark, failed, asked>>
-----------------------------------------------------------------------------
(* The user and the driver.                                                *)

KeyMoves ==
  /\ key' = IF key = "up" THEN "down" ELSE "up"
  /\ asked' = asked \cup {"key"}
  /\ UNCHANGED <<manager, pending, lit, sleptDark, failed>>

StatusComes ==
  /\ Len(pending) < MaxPending
  /\ \E s \in Statuses :
       /\ pending' = Append(pending, s)
       /\ asked' = IF s \in Offs THEN asked \cup {"status"} ELSE asked
  /\ UNCHANGED <<manager, key, lit, sleptDark, failed>>

Service == NoStatus \/ StatusRead

Check == KeyRead \/ CommandsOff \/ KeyDead

Next == Service \/ Check \/ KeyMoves \/ StatusComes

Spec == Init /\ [][Next]_vars

(* The loop has no end but the power-off, and blocks nowhere: its select()  *)
(* has a timeout of zero.                                                   *)
FairSpec == Spec /\ WF_vars(Service) /\ WF_vars(Check)
-----------------------------------------------------------------------------
(* While the display and the clock could be opened, whatever else failed,    *)
(* power_state tells the state of the display, with one exception: a machine *)
(* sent to sleep with its display off wakes up as NORMAL in the dark, and    *)
(* only another DISPLAY_OFF lets a later NORMAL find something to change.    *)
DisplayAgrees ==
  failed \cap {"display", "clock"} = {} /\ pc # "off" =>
    /\ power_state \in {"normal", "display_off"}
    /\ power_state = "display_off" => ~lit
    /\ ~lit => power_state = "display_off" \/ sleptDark

(* The machine goes off on its own only if somebody touched the key or the   *)
(* driver said so, or readings of the key failed: a failed reading counts    *)
(* as a held key.                                                            *)
OffHasReason ==
  pc = "off" \/ "rtc_power_off" \in {pending[i] : i \in DOMAIN pending} =>
    asked # {} \/ "key" \in failed

(* If neither the command nor the clock fails, a key held for good powers    *)
(* the machine off, whatever statuses arrive meanwhile, whatever state the   *)
(* machine is in, and although readings of the key and the display may fail. *)
HeldKeyPowersOff ==
  [](failed \cap {"command", "clock"} = {}) /\ <>[](key = "down") => <>(pc = "off")
=============================================================================
