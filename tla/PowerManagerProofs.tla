------------------------- MODULE PowerManagerProofs -------------------------
(***************************************************************************)
(* Theorems about the power manager, for every length of the key press,     *)
(* any number of pending statuses and any choice of what may fail.          *)
(***************************************************************************)
EXTENDS PowerManager, SequenceTheorems, TLAPS

(* Somebody touched the key, the driver said so, or a reading failed. *)
Reason == asked # {} \/ "key" \in failed

(* What OffHasReason needs of every state: nothing on the way to power-off   *)
(* -- a key that is down, a reading that counted, a status that is pending,  *)
(* the power-off itself -- is there without a reason.                        *)
NothingWithoutReason ==
  \/ pc = "off"
  \/ key = "down"
  \/ power_off_count > 0
  \/ \E i \in DOMAIN pending : pending[i] \in Offs
  => Reason
-----------------------------------------------------------------------------
(* What ProcessPowerState leaves of the types, whichever branch it takes.   *)
LEMMA StateChange ==
  ASSUME TypeOK, NEW state \in States, ProcessPowerState(state)
  PROVE  /\ pc' \in {"check", "off"}
         /\ power_state' \in States
         /\ old_power_state' \in States
         /\ lit' \in BOOLEAN
         /\ sleptDark' \in BOOLEAN
         /\ failed \subseteq failed'
         /\ failed' \subseteq AllFaults
<1> USE PowerAssumption DEF TypeOK, Fails, Changes
<1>1. /\ pc' \in {"check", "off"}
      /\ power_state' \in States
      /\ old_power_state' \in States
  BY DEF ProcessPowerState, Same, GoesNormal, GoesDark, ClockFails, SleepsAndWakes,
         PowersOff, States, Sleeps
<1>2. lit' \in BOOLEAN /\ sleptDark' \in BOOLEAN
  BY DEF ProcessPowerState, Same, GoesNormal, GoesDark, ClockFails, SleepsAndWakes,
         PowersOff
<1>3. failed \subseteq failed' /\ failed' \subseteq AllFaults
  BY DEF ProcessPowerState, Same, GoesNormal, GoesDark, ClockFails, SleepsAndWakes,
         PowersOff
<1> QED
  BY <1>1, <1>2, <1>3

(* PM_Service takes the first status off the queue, and its state is one of  *)
(* the program's.                                                           *)
LEMMA StatusTaken ==
  ASSUME TypeOK, StatusRead
  PROVE  /\ pending' \in Seq(Statuses)
         /\ \A i \in DOMAIN pending' : i + 1 \in DOMAIN pending /\ pending'[i] = pending[i + 1]
         /\ \/ /\ pc' = "check"
               /\ UNCHANGED <<power_state, old_power_state, lit, sleptDark, failed>>
            \/ \E state \in States :
                 /\ state \in Offs => 1 \in DOMAIN pending /\ pending[1] \in Offs
                 /\ ProcessPowerState(state)
<1>1. pending \in Seq(Statuses) /\ pending # <<>> /\ pending' = Tail(pending)
  BY DEF TypeOK, StatusRead
<1>2. /\ pending' \in Seq(Statuses)
      /\ Len(pending') = Len(pending) - 1
      /\ \A i \in 1 .. Len(pending') : pending'[i] = pending[i + 1]
  BY <1>1, HeadTailProperties
<1>3. /\ Len(pending) \in Nat \ {0}
      /\ DOMAIN pending = 1 .. Len(pending)
      /\ DOMAIN pending' = 1 .. Len(pending')
  BY <1>1, <1>2, EmptySeq, LenProperties
<1>4. Head(pending) = pending[1]
  BY <1>1
<1>5. \/ /\ pc' = "check"
         /\ UNCHANGED <<power_state, old_power_state, lit, sleptDark, failed>>
      \/ ProcessPowerState("normal")
      \/ Head(pending) \in States /\ ProcessPowerState(Head(pending))
  BY DEF StatusRead
<1>6. "normal" \in States /\ "normal" \notin Offs
  BY DEF States, Offs
<1> QED
  BY <1>2, <1>3, <1>4, <1>5, <1>6

LEMMA TypeInit == Init => TypeOK
<1> SUFFICES ASSUME Init
             PROVE  TypeOK
  OBVIOUS
<1>1. pending \in Seq(Statuses)
  BY EmptySeq DEF Init
<1>2. power_off_count \in 0 .. HoldCount + 1
  BY PowerAssumption DEF Init
<1> QED
  BY <1>1, <1>2 DEF Init, TypeOK, States

LEMMA TypeStep ==
  ASSUME TypeOK, [Next]_vars
  PROVE  TypeOK'
<1> USE PowerAssumption
<1>1. CASE NoStatus
  BY <1>1 DEF NoStatus, TypeOK
<1>2. CASE StatusRead
  <2>1. pending' \in Seq(Statuses)
    BY <1>2, StatusTaken
  <2>2. CASE pc' = "check" /\ UNCHANGED <<power_state, old_power_state, lit, sleptDark, failed>>
    BY <1>2, <2>1, <2>2 DEF StatusRead, TypeOK
  <2>3. ASSUME NEW state \in States, ProcessPowerState(state)
        PROVE  TypeOK'
    BY <1>2, <2>1, <2>3, StateChange DEF StatusRead, TypeOK
  <2> QED
    BY <1>2, <2>2, <2>3, StatusTaken
<1>3. CASE KeyRead
  BY <1>3 DEF KeyRead, Fails, TypeOK
<1>4. CASE CommandsOff
  <2>1. pending' \in Seq(Statuses)
    BY <1>4, AppendProperties DEF CommandsOff, TypeOK, Statuses, Offs
  <2> QED
    BY <1>4, <2>1 DEF CommandsOff, Fails, TypeOK
<1>5. CASE KeyDead
  BY <1>5 DEF KeyDead, TypeOK
<1>6. CASE KeyMoves
  BY <1>6 DEF KeyMoves, manager, TypeOK
<1>7. CASE StatusComes
  <2>1. PICK s \in Statuses :
          /\ pending' = Append(pending, s)
          /\ asked' = IF s \in Offs THEN asked \cup {"status"} ELSE asked
    BY <1>7 DEF StatusComes
  <2>2. pending' \in Seq(Statuses)
    BY <2>1, AppendProperties DEF TypeOK
  <2> QED
    BY <1>7, <2>1, <2>2 DEF StatusComes, manager, TypeOK
<1>8. CASE UNCHANGED vars
  BY <1>8 DEF vars, manager, TypeOK
<1> QED
  BY <1>1, <1>2, <1>3, <1>4, <1>5, <1>6, <1>7, <1>8 DEF Next, Service, Check

(* Every variable of the power manager keeps its type: the count of readings *)
(* goes at most one past HoldCount, whatever fails.                          *)
THEOREM TypeCorrect == Spec => []TypeOK
<1>1. TypeOK /\ [Next]_vars => TypeOK'
  BY TypeStep
<1> QED
  BY <1>1, TypeInit, PTL DEF Spec
-----------------------------------------------------------------------------
LEMMA ReasonStep ==
  ASSUME TypeOK, NothingWithoutReason, [Next]_vars
  PROVE  NothingWithoutReason'
<1>1. CASE NoStatus
  BY <1>1 DEF NoStatus, NothingWithoutReason, Reason
<1>2. CASE StatusRead
  <2>1. \A i \in DOMAIN pending' : i + 1 \in DOMAIN pending /\ pending'[i] = pending[i + 1]
    BY <1>2, StatusTaken
  <2>2. CASE pc' = "check" /\ UNCHANGED <<power_state, old_power_state, lit, sleptDark, failed>>
    BY <1>2, <2>1, <2>2 DEF StatusRead, NothingWithoutReason, Reason
  <2>3. ASSUME NEW state \in States, ProcessPowerState(state),
               state \in Offs => 1 \in DOMAIN pending /\ pending[1] \in Offs
        PROVE  NothingWithoutReason'
    <3>1. failed \subseteq failed'
      BY <2>3, StateChange
    <3>2. pc' = "off" => state \in Offs
      BY <2>3 DEF ProcessPowerState, Same, GoesNormal, GoesDark, ClockFails,
                  SleepsAndWakes, PowersOff
    <3> QED
      BY <1>2, <2>1, <2>3, <3>1, <3>2 DEF StatusRead, NothingWithoutReason, Reason
  <2> QED
    BY <1>2, <2>2, <2>3, StatusTaken
<1>3. CASE KeyRead
  BY <1>3, PowerAssumption DEF KeyRead, Fails, NothingWithoutReason, Reason, TypeOK
<1>4. CASE CommandsOff
  BY <1>4, PowerAssumption DEF CommandsOff, Fails, NothingWithoutReason, Reason, TypeOK
<1>5. CASE KeyDead
  BY <1>5 DEF KeyDead, NothingWithoutReason, Reason
<1>6. CASE KeyMoves
  BY <1>6 DEF KeyMoves, NothingWithoutReason, Reason
<1>7. CASE StatusComes
  <2>1. PICK s \in Statuses :
          /\ pending' = Append(pending, s)
          /\ asked' = IF s \in Offs THEN asked \cup {"status"} ELSE asked
    BY <1>7 DEF StatusComes
  <2>2. /\ DOMAIN pending = 1 .. Len(pending)
        /\ DOMAIN pending' = 1 .. Len(pending) + 1
        /\ \A i \in 1 .. Len(pending) : pending'[i] = pending[i]
        /\ pending'[Len(pending) + 1] = s
    BY <2>1, AppendProperties, LenProperties DEF TypeOK
  <2>3. UNCHANGED <<pc, power_off_count, key, failed>> /\ asked \subseteq asked'
    BY <1>7, <2>1 DEF StatusComes, manager
  <2>4. s \in Offs => asked' # {}
    BY <2>1
  <2>5. ASSUME NEW i \in DOMAIN pending', pending'[i] \in Offs
        PROVE  Reason'
    <3>1. CASE i \in 1 .. Len(pending)
      BY <2>2, <2>3, <2>5, <3>1 DEF NothingWithoutReason, Reason
    <3>2. CASE i = Len(pending) + 1
      BY <2>2, <2>4, <2>5, <3>2 DEF Reason
    <3>3. Len(pending) \in Nat
      BY LenProperties DEF TypeOK
    <3> QED
      BY <2>2, <3>1, <3>2, <3>3
  <2> QED
    BY <2>3, <2>5 DEF NothingWithoutReason, Reason
<1>8. CASE UNCHANGED vars
  BY <1>8 DEF vars, manager, NothingWithoutReason, Reason
<1> QED
  BY <1>1, <1>2, <1>3, <1>4, <1>5, <1>6, <1>7, <1>8 DEF Next, Service, Check

(* The machine goes off on its own only if somebody touched the key, the     *)
(* driver said so or a reading of the key failed: everything on the way to   *)
(* the power-off has such a reason, and a reason never goes away.            *)
THEOREM ReasonForOff == Spec => []OffHasReason
<1>1. Init => NothingWithoutReason
  BY DEF Init, NothingWithoutReason
<1>2. TypeOK /\ NothingWithoutReason /\ [Next]_vars => NothingWithoutReason'
  BY ReasonStep
<1>3. NothingWithoutReason => OffHasReason
  BY DEF NothingWithoutReason, OffHasReason, Reason, Offs
<1> QED
  BY <1>1, <1>2, <1>3, TypeCorrect, PTL DEF Spec
-----------------------------------------------------------------------------
LEMMA DisplayStep ==
  ASSUME TypeOK, DisplayAgrees, [Next]_vars
  PROVE  DisplayAgrees'
<1>1. CASE StatusRead
  <2>1. CASE pc' = "check" /\ UNCHANGED <<power_state, old_power_state, lit, sleptDark, failed>>
    BY <1>1, <2>1 DEF StatusRead, DisplayAgrees
  <2>2. ASSUME NEW state \in States, ProcessPowerState(state),
                failed' \cap {"display", "clock"} = {}, pc' # "off"
        PROVE  DisplayAgrees'
    <3>1. failed \cap {"display", "clock"} = {} /\ pc # "off"
      BY <1>1, <2>2, StateChange DEF StatusRead
    <3>2. /\ power_state \in {"normal", "display_off"}
          /\ power_state = "display_off" => ~lit
          /\ ~lit => power_state = "display_off" \/ sleptDark
      BY <3>1 DEF DisplayAgrees
    <3>3. CASE Same(state)
      BY <3>2, <3>3 DEF Same, DisplayAgrees
    <3>4. CASE GoesNormal(state)
      BY <2>2, <3>2, <3>4 DEF GoesNormal, Changes, Fails, DisplayAgrees
    <3>5. CASE GoesDark(state)
      BY <2>2, <3>2, <3>5 DEF GoesDark, Changes, Fails, DisplayAgrees
    <3>6. CASE ClockFails(state)
      BY <2>2, <3>6 DEF ClockFails, Fails
    <3>7. CASE SleepsAndWakes(state)
      BY <3>2, <3>7 DEF SleepsAndWakes, DisplayAgrees
    <3>8. CASE PowersOff(state)
      BY <2>2, <3>8 DEF PowersOff
    <3> QED
      BY <2>2, <3>3, <3>4, <3>5, <3>6, <3>7, <3>8 DEF ProcessPowerState
  <2> QED
    BY <1>1, <2>1, <2>2, StatusTaken DEF DisplayAgrees
<1>2. CASE NoStatus \/ Check
  BY <1>2 DEF NoStatus, Check, KeyRead, CommandsOff, KeyDead, Fails, DisplayAgrees
<1>3. CASE KeyMoves \/ StatusComes \/ UNCHANGED vars
  BY <1>3 DEF KeyMoves, StatusComes, vars, manager, DisplayAgrees
<1> QED
  BY <1>1, <1>2, <1>3 DEF Next, Service

(* While no open failed, power_state tells the state of the display, but for *)
(* the machine that was put to sleep in the dark and wakes up as NORMAL.     *)
THEOREM DisplayState == Spec => []DisplayAgrees
<1>1. Init => DisplayAgrees
  BY DEF Init, DisplayAgrees
<1>2. TypeOK /\ DisplayAgrees /\ [Next]_vars => DisplayAgrees'
  BY DisplayStep
<1> QED
  BY <1>1, <1>2, TypeCorrect, PTL DEF Spec
=============================================================================
