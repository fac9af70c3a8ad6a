-------------------------- MODULE AACPlayerProofs ---------------------------
(***************************************************************************)
(* Theorems about the whole player, for every number of slots, frames,     *)
(* files and threads, and for all keys and faults.                         *)
(***************************************************************************)
EXTENDS AACPlayer, TLAPS

(* A thread that goes to a place of its own kind of program keeps the       *)
(* program counters typed, since the three kinds of threads are disjoint.   *)
LEMMA MainGoes ==
  ASSUME PcTypeOK, NEW l \in MainPcs \cup StopPcs, Goto("main", l)
  PROVE  PcTypeOK'
  BY PlayerAssumption DEF PcTypeOK, Goto, Threads

LEMMA DecoderGoes ==
  ASSUME PcTypeOK, NEW d \in DecThreads, NEW l \in DecPcs, Goto(d, l)
  PROVE  PcTypeOK'
  BY PlayerAssumption DEF PcTypeOK, Goto, Threads

LEMMA PlaybackGoes ==
  ASSUME PcTypeOK, NEW p \in PlayThreads, NEW l \in PlayPcs \cup StopPcs, Goto(p, l)
  PROVE  PcTypeOK'
  BY PlayerAssumption DEF PcTypeOK, Goto, Threads
(* Values the steps store, by their types. *)
LEMMA ValuesTyped ==
  /\ 0 \in Slots
  /\ {"null", "live", "freed"} \subseteq Blocks
  /\ 0 \in 0 .. MaxSize /\ Sizes \subseteq 0 .. MaxSize
  /\ NoPointer \in [slot : Slots, block : Blocks]
  /\ \A i \in Slots : NextIdx(i) \in Slots
<1>1. \A i \in Slots : NextIdx(i) \in Slots
  BY RingAssumption DEF Slots, NextIdx
<1> QED
  BY <1>1, RingAssumption DEF Slots, Blocks, Sizes, NoPointer

LEMMA DanglingTyped ==
  ASSUME held \in [PlayThreads -> [slot : Slots, block : Blocks]], NEW S, PointersDangle(S)
  PROVE  held' \in [PlayThreads -> [slot : Slots, block : Blocks]]
  BY ValuesTyped DEF PointersDangle
-----------------------------------------------------------------------------
(* The steps of main, one lemma for where they lead and one for the data.   *)
LEMMA MainPcStep ==
  ASSUME PcTypeOK, Pressing \/ PlayingFile \/ Watch \/ Recheck \/ NextFile
           \/ PauseEnter \/ PauseSet \/ PauseWait
           \/ ResumeEnter \/ ResumeSet \/ ResumeWait
  PROVE  PcTypeOK'
<1> USE MainGoes DEF MainPcs, StopPcs
<1>1. CASE \E k \in {"prev", "next", "home"} : KeyStop(k)
  BY <1>1 DEF KeyStop
<1>2. CASE \E k \in {"forward", "backward"} : KeySeek(k)
  BY <1>2 DEF KeySeek
<1>3. CASE KeyRight
  BY <1>3 DEF KeyRight
<1>4. CASE PlayEnter
  BY <1>4 DEF PlayEnter
<1>5. CASE PlayBegin
  BY <1>5 DEF PlayBegin
<1>6. CASE PlayOpen
  BY <1>6 DEF PlayOpen
<1>7. CASE PlayOpenFails
  BY <1>7 DEF PlayOpenFails, GiveUp
<1>8. CASE PlaySpawn
  BY <1>8, PlayerAssumption DEF PlaySpawn, At, PcTypeOK, DecPcs, Threads
<1>9. CASE PlaySpawnFails
  BY <1>9 DEF PlaySpawnFails, GiveUp
<1>10. CASE PlayCharge
  BY <1>10 DEF PlayCharge
<1>11. CASE PlayCharged
  BY <1>11 DEF PlayCharged
<1>12. CASE PlayNothing
  BY <1>12 DEF PlayNothing, GiveUp
<1>13. CASE PlaySpawnPlayback
  BY <1>13, PlayerAssumption DEF PlaySpawnPlayback, At, PcTypeOK, PlayPcs, Threads
<1>14. CASE PlaySpawnPlaybackFails
  BY <1>14 DEF PlaySpawnPlaybackFails, PcTypeOK
<1>15. CASE Watch
  BY <1>15 DEF Watch
<1>16. CASE Recheck
  BY <1>16 DEF Recheck
<1>17. CASE NextFile
  BY <1>17 DEF NextFile
<1>18. CASE PauseEnter
  BY <1>18 DEF PauseEnter
<1>19. CASE PauseSet
  BY <1>19 DEF PauseSet
<1>20. CASE PauseWait
  BY <1>20 DEF PauseWait
<1>21. CASE ResumeEnter
  BY <1>21 DEF ResumeEnter
<1>22. CASE ResumeSet
  BY <1>22 DEF ResumeSet
<1>23. CASE ResumeWait
  BY <1>23 DEF ResumeWait
<1> QED
  BY <1>1, <1>2, <1>3, <1>4, <1>5, <1>6, <1>7, <1>8, <1>9, <1>10, <1>11, <1>12, <1>13, <1>14, <1>15, <1>16, <1>17, <1>18, <1>19, <1>20, <1>21, <1>22, <1>23 DEF Pressing, PlayingFile

LEMMA MainDataStep ==
  ASSUME DataTypeOK, Pressing \/ PlayingFile \/ Watch \/ Recheck \/ NextFile
           \/ PauseEnter \/ PauseSet \/ PauseWait
           \/ ResumeEnter \/ ResumeSet \/ ResumeWait
  PROVE  DataTypeOK'
<1> USE RingAssumption, PlayerAssumption
    DEF DataTypeOK, RingTypeOK, States, Threads,
        ringVars, ctl, device, locals, decLocals, playLocals, mine
<1>1. CASE \E k \in {"prev", "next", "home"} : KeyStop(k)
  BY <1>1 DEF KeyStop
<1>2. CASE \E k \in {"forward", "backward"} : KeySeek(k)
  BY <1>2 DEF KeySeek
<1>3. CASE KeyRight
  BY <1>3 DEF KeyRight
<1>4. CASE PlayEnter
  BY <1>4 DEF PlayEnter
<1>5. CASE PlayBegin
  BY <1>5 DEF PlayBegin
<1>6. CASE PlayOpen
  <2>1. /\ ReadIdx' = 0 /\ WriteIdx' = 0 /\ FullNum' = 0 /\ raced' = FALSE
        /\ Buf' \in [Slots -> Blocks] /\ BufSize' \in [Slots -> 0 .. MaxSize]
    BY <1>6, ValuesTyped DEF PlayOpen, ResetRing
  <2>2. UNCHANGED <<PCMSize, ctl, device, locals, mine>> /\ file' = "open"
    BY <1>6 DEF PlayOpen, ResetRing
  <2>3. raced' \in BOOLEAN
    BY <2>1, Zenon
  <2> QED
    BY <2>1, <2>2, <2>3, ValuesTyped
<1>7. CASE PlayOpenFails
  BY <1>7 DEF PlayOpenFails, GiveUp
<1>8. CASE PlaySpawn
  BY <1>8 DEF PlaySpawn
<1>9. CASE PlaySpawnFails
  BY <1>9 DEF PlaySpawnFails, GiveUp
<1>10. CASE PlayCharge
  BY <1>10 DEF PlayCharge
<1>11. CASE PlayCharged
  <2>1. playAlive' \in BOOLEAN
    BY <1>11, Zenon DEF PlayCharged
  <2> QED
    BY <1>11, <2>1 DEF PlayCharged
<1>12. CASE PlayNothing
  BY <1>12 DEF PlayNothing, GiveUp
<1>13. CASE PlaySpawnPlayback
  BY <1>13 DEF PlaySpawnPlayback
<1>14. CASE PlaySpawnPlaybackFails
  <2>1. result' \in BOOLEAN
    BY <1>14, Zenon DEF PlaySpawnPlaybackFails
  <2> QED
    BY <1>14, <2>1 DEF PlaySpawnPlaybackFails
<1>15. CASE Watch
  BY <1>15 DEF Watch
<1>16. CASE Recheck
  BY <1>16 DEF Recheck
<1>17. CASE NextFile
  BY <1>17 DEF NextFile
<1>18. CASE PauseEnter
  BY <1>18 DEF PauseEnter
<1>19. CASE PauseSet
  BY <1>19 DEF PauseSet
<1>20. CASE PauseWait
  BY <1>20 DEF PauseWait
<1>21. CASE ResumeEnter
  BY <1>21 DEF ResumeEnter
<1>22. CASE ResumeSet
  BY <1>22 DEF ResumeSet
<1>23. CASE ResumeWait
  BY <1>23 DEF ResumeWait
<1> QED
  BY <1>1, <1>2, <1>3, <1>4, <1>5, <1>6, <1>7, <1>8, <1>9, <1>10, <1>11, <1>12, <1>13, <1>14, <1>15, <1>16, <1>17, <1>18, <1>19, <1>20, <1>21, <1>22, <1>23 DEF Pressing, PlayingFile

(* The steps of AACPlayer_Stop. *)
LEMMA StopPcStep ==
  ASSUME PcTypeOK, NEW t \in Stoppers, Stop(t)
  PROVE  PcTypeOK'
<1> USE MainGoes, PlaybackGoes DEF MainPcs, PlayPcs, StopPcs, Stoppers
<1>1. CASE StopEnter(t)
  BY <1>1 DEF StopEnter
<1>2. CASE StopWait(t)
  BY <1>2 DEF StopWait
<1>3. CASE StopFree(t)
  BY <1>3 DEF StopFree
<1>4. CASE StopClear(t)
  BY <1>4 DEF StopClear
<1>5. CASE StopFile(t)
  BY <1>5 DEF StopFile
<1>6. CASE StopEnd(t)
  BY <1>6 DEF StopEnd
<1> QED
  BY <1>1, <1>2, <1>3, <1>4, <1>5, <1>6 DEF Stop

LEMMA StopDataStep ==
  ASSUME DataTypeOK, NEW t \in Stoppers, Stop(t)
  PROVE  DataTypeOK'
<1> USE RingAssumption, PlayerAssumption
    DEF DataTypeOK, RingTypeOK, States, Threads, Stoppers,
        ringVars, ctl, device, locals, decLocals, playLocals, mine
<1>1. CASE StopEnter(t)
  BY <1>1 DEF StopEnter
<1>2. CASE StopWait(t)
  BY <1>2 DEF StopWait
<1>3. CASE StopFree(t)
  <2>1. held' \in [PlayThreads -> [slot : Slots, block : Blocks]]
    BY <1>3, DanglingTyped DEF StopFree
  <2>2. Buf' \in [Slots -> Blocks] /\ BufSize' \in [Slots -> 0 .. MaxSize] /\ owner' = "none"
    BY <1>3, ValuesTyped DEF StopFree
  <2>3. UNCHANGED <<ReadIdx, WriteIdx, FullNum, PCMSize, raced, state, decAlive, playAlive,
                    file, device, reg, decLocals, fill, mine>>
    BY <1>3 DEF StopFree
  <2> QED
    BY ONLY DataTypeOK, <2>1, <2>2, <2>3
      DEF DataTypeOK, RingTypeOK, device, decLocals, mine
<1>4. CASE StopClear(t)
  <2>1. Buf' \in [Slots -> Blocks] /\ file' \in {"null", "open", "closed"}
    BY <1>4, ValuesTyped DEF StopClear
  <2> QED
    BY <1>4, <2>1 DEF StopClear
<1>5. CASE StopFile(t)
  BY <1>5 DEF StopFile
<1>6. CASE StopEnd(t)
  <2>1. idx' \in 0 .. IF NumFiles = 0 THEN 0 ELSE NumFiles - 1
    <3> USE DEF StopEnd
    <3>1. CASE t = "main" /\ back = "prev" /\ NumFiles > 0
      <4>1. idx' = (idx + 2 * NumFiles - 2) % NumFiles
        BY <1>6, <3>1
      <4>2. idx + 2 * NumFiles - 2 \in Nat
        BY <3>1
      <4> QED
        BY <3>1, <4>1, <4>2
    <3>2. CASE ~(t = "main" /\ back = "prev" /\ NumFiles > 0)
      BY <1>6, <3>2
    <3> QED
      BY <3>1, <3>2
  <2>2. state' = "stopped"
    BY <1>6 DEF StopEnd
  <2>3. UNCHANGED <<ringVars, owner, decAlive, playAlive, file, device, locals, result, back>>
    BY <1>6 DEF StopEnd
  <2> QED
    BY <2>1, <2>2, <2>3
<1> QED
  BY <1>1, <1>2, <1>3, <1>4, <1>5, <1>6 DEF Stop

(* The steps of the decode thread. *)
LEMMA DecoderPcStep ==
  ASSUME PcTypeOK, NEW d \in DecThreads, Decoder(d)
  PROVE  PcTypeOK'
<1> USE DecoderGoes DEF DecPcs
<1>1. CASE DecEnter(d)
  BY <1>1 DEF DecEnter
<1>2. CASE DecEnd(d)
  BY <1>2 DEF DecEnd
<1>3. CASE DecInit(d)
  BY <1>3 DEF DecInit
<1>4. CASE DecLoop(d)
  BY <1>4 DEF DecLoop
<1>5. CASE DecFails(d)
  BY <1>5 DEF DecFails
<1>6. CASE DecEmpty(d)
  BY <1>6 DEF DecEmpty
<1>7. CASE DecRunsOut(d)
  BY <1>7 DEF DecRunsOut
<1>8. CASE DecFrame(d)
  BY <1>8 DEF DecFrame
<1>9. CASE DecGrow(d)
  BY <1>9 DEF DecGrow, FreeBlock, PointersDangle
<1>10. CASE DecGrown(d)
  BY <1>10 DEF DecGrown, NewBlock
<1>11. CASE DecNoMemory(d)
  BY <1>11 DEF DecNoMemory
<1>12. CASE DecCopy(d)
  BY <1>12 DEF DecCopy, SizeSlot
<1>13. CASE DecLoad(d)
  BY <1>13 DEF DecLoad
<1>14. CASE DecStore(d)
  BY <1>14 DEF DecStore
<1> QED
  BY <1>1, <1>2, <1>3, <1>4, <1>5, <1>6, <1>7, <1>8, <1>9, <1>10, <1>11, <1>12, <1>13, <1>14 DEF Decoder

LEMMA DecoderDataStep ==
  ASSUME DataTypeOK, NEW d \in DecThreads, Decoder(d)
  PROVE  DataTypeOK'
<1> USE RingAssumption, PlayerAssumption
    DEF DataTypeOK, RingTypeOK, States, Threads,
        ringVars, ctl, device, locals, decLocals, playLocals, mine
<1>1. CASE DecEnter(d)
  BY <1>1 DEF DecEnter
<1>2. CASE DecEnd(d)
  <2>1. decAlive' \in BOOLEAN
    BY <1>2, Zenon DEF DecEnd
  <2> QED
    BY <1>2, <2>1 DEF DecEnd
<1>3. CASE DecInit(d)
  BY <1>3 DEF DecInit
<1>4. CASE DecLoop(d)
  BY <1>4 DEF DecLoop
<1>5. CASE DecFails(d)
  BY <1>5 DEF DecFails
<1>6. CASE DecEmpty(d)
  BY <1>6 DEF DecEmpty
<1>7. CASE DecRunsOut(d)
  BY <1>7 DEF DecRunsOut
<1>8. CASE DecFrame(d)
  <2>1. PICK n \in Sizes : dsize' = [dsize EXCEPT ![d] = n]
    BY <1>8 DEF DecFrame
  <2>2. dsize' \in [DecThreads -> 0 .. MaxSize]
    BY <2>1, ValuesTyped
  <2>3. goOn' \in [DecThreads -> BOOLEAN]
    BY <1>8 DEF DecFrame
  <2> QED
    BY <1>8, <2>2, <2>3 DEF DecFrame
<1>9. CASE DecGrow(d)
  <2>1. held' \in [PlayThreads -> [slot : Slots, block : Blocks]]
    BY <1>9, DanglingTyped DEF DecGrow
  <2>2. Buf' \in [Slots -> Blocks]
    BY <1>9, ValuesTyped DEF DecGrow, FreeBlock
  <2> QED
    BY <1>9, <2>1, <2>2 DEF DecGrow, FreeBlock
<1>10. CASE DecGrown(d)
  BY <1>10, ValuesTyped DEF DecGrown, NewBlock
<1>11. CASE DecNoMemory(d)
  BY <1>11, ValuesTyped DEF DecNoMemory, NoBlock
<1>12. CASE DecCopy(d)
  BY <1>12, ValuesTyped DEF DecCopy, SizeSlot
<1>13. CASE DecLoad(d)
  BY <1>13 DEF DecLoad
<1>14. CASE DecStore(d)
  <2>1. FullNum' \in Int
    BY <1>14 DEF DecStore, CommitSlot
  <2>2. raced' \in BOOLEAN
    BY <1>14, Zenon DEF DecStore, CommitSlot
  <2> QED
    BY <1>14, <2>1, <2>2, ValuesTyped DEF DecStore, CommitSlot
<1> QED
  BY <1>1, <1>2, <1>3, <1>4, <1>5, <1>6, <1>7, <1>8, <1>9, <1>10, <1>11, <1>12, <1>13, <1>14 DEF Decoder

(* The steps of the playback thread. *)
LEMMA PlaybackPcStep ==
  ASSUME PcTypeOK, NEW p \in PlayThreads, Playback(p), ~Stop(p)
  PROVE  PcTypeOK'
<1> USE PlaybackGoes DEF PlayPcs, StopPcs
<1>1. CASE PlaybackEnter(p)
  BY <1>1 DEF PlaybackEnter
<1>2. CASE PlaybackOpen(p)
  BY <1>2 DEF PlaybackOpen
<1>3. CASE PlaybackPauses(p)
  BY <1>3 DEF PlaybackPauses
<1>4. CASE PlaybackPaused(p)
  BY <1>4 DEF PlaybackPaused
<1>5. CASE PlaybackResumes(p)
  BY <1>5 DEF PlaybackResumes
<1>6. CASE PlaybackResumed(p)
  BY <1>6 DEF PlaybackResumed
<1>7. CASE PlaybackCmd(p)
  BY <1>7 DEF PlaybackCmd
<1>8. CASE PlaybackFill(p)
  BY <1>8 DEF PlaybackFill
<1>9. CASE PlaybackAlive(p)
  BY <1>9 DEF PlaybackAlive
<1>10. CASE PlaybackTake(p)
  BY <1>10 DEF PlaybackTake
<1>11. CASE PlaybackSize(p)
  BY <1>11 DEF PlaybackSize
<1>12. CASE PlaybackSlotDone(p)
  BY <1>12 DEF PlaybackSlotDone
<1>13. CASE PlaybackWrite(p)
  BY <1>13 DEF PlaybackWrite
<1>14. CASE PlaybackWriteFails(p)
  BY <1>14 DEF PlaybackWriteFails
<1>15. CASE PlaybackSub(p)
  BY <1>15 DEF PlaybackSub
<1>16. CASE PlaybackSubst(p)
  BY <1>16 DEF PlaybackSubst, CountDown
<1>17. CASE PlaybackLoad(p)
  BY <1>17 DEF PlaybackLoad
<1>18. CASE PlaybackStore(p)
  BY <1>18 DEF PlaybackStore
<1>19. CASE PlaybackClose(p)
  BY <1>19 DEF PlaybackClose
<1>20. CASE PlaybackEnd(p)
  BY <1>20 DEF PlaybackEnd
<1> QED
  BY <1>1, <1>2, <1>3, <1>4, <1>5, <1>6, <1>7, <1>8, <1>9, <1>10, <1>11, <1>12, <1>13, <1>14, <1>15, <1>16, <1>17, <1>18, <1>19, <1>20 DEF Playback

LEMMA PlaybackDataStep ==
  ASSUME DataTypeOK, NEW p \in PlayThreads, Playback(p), ~Stop(p)
  PROVE  DataTypeOK'
<1> USE RingAssumption, PlayerAssumption
    DEF DataTypeOK, RingTypeOK, States, Threads,
        ringVars, ctl, device, locals, decLocals, playLocals, mine
<1>1. CASE PlaybackEnter(p)
  BY <1>1 DEF PlaybackEnter
<1>2. CASE PlaybackOpen(p)
  <2>1. dev' \in BOOLEAN /\ blk' \in BOOLEAN
    BY <1>2, Zenon DEF PlaybackOpen, OpenDevice
  <2> QED
    BY <1>2, <2>1 DEF PlaybackOpen, OpenDevice
<1>3. CASE PlaybackPauses(p)
  BY <1>3 DEF PlaybackPauses
<1>4. CASE PlaybackPaused(p)
  BY <1>4 DEF PlaybackPaused
<1>5. CASE PlaybackResumes(p)
  BY <1>5 DEF PlaybackResumes
<1>6. CASE PlaybackResumed(p)
  BY <1>6 DEF PlaybackResumed, OpenDevice
<1>7. CASE PlaybackCmd(p)
  BY <1>7 DEF PlaybackCmd
<1>8. CASE PlaybackFill(p)
  BY <1>8 DEF PlaybackFill
<1>9. CASE PlaybackAlive(p)
  BY <1>9 DEF PlaybackAlive
<1>10. CASE PlaybackTake(p)
  BY <1>10 DEF PlaybackTake
<1>11. CASE PlaybackSize(p)
  BY <1>11 DEF PlaybackSize
<1>12. CASE PlaybackSlotDone(p)
  BY <1>12, ValuesTyped DEF PlaybackSlotDone
<1>13. CASE PlaybackWrite(p)
  BY <1>13 DEF PlaybackWrite
<1>14. CASE PlaybackWriteFails(p)
  BY <1>14, ValuesTyped DEF PlaybackWriteFails
<1>15. CASE PlaybackSub(p)
  BY <1>15 DEF PlaybackSub
<1>16. CASE PlaybackSubst(p)
  BY <1>16 DEF PlaybackSubst, CountDown
<1>17. CASE PlaybackLoad(p)
  BY <1>17 DEF PlaybackLoad
<1>18. CASE PlaybackStore(p)
  <2>1. FullNum' \in Int
    BY <1>18 DEF PlaybackStore, ReleaseSlot
  <2>2. raced' \in BOOLEAN
    BY <1>18, Zenon DEF PlaybackStore, ReleaseSlot
  <2> QED
    BY <1>18, <2>1, <2>2, ValuesTyped DEF PlaybackStore, ReleaseSlot
<1>19. CASE PlaybackClose(p)
  <2>1. dev' \in BOOLEAN
    BY <1>19, Zenon DEF PlaybackClose
  <2> QED
    BY <1>19, <2>1 DEF PlaybackClose
<1>20. CASE PlaybackEnd(p)
  <2>1. playAlive' \in BOOLEAN
    BY <1>20, Zenon DEF PlaybackEnd
  <2> QED
    BY <1>20, <2>1 DEF PlaybackEnd
<1> QED
  BY <1>1, <1>2, <1>3, <1>4, <1>5, <1>6, <1>7, <1>8, <1>9, <1>10, <1>11, <1>12, <1>13, <1>14, <1>15, <1>16, <1>17, <1>18, <1>19, <1>20 DEF Playback

-----------------------------------------------------------------------------
(* Whatever the keys, the faults and the interleaving, including those in   *)
(* which the mutex is given back by a thread that does not hold it: no ring *)
(* index leaves the ring and every thread stays within its own program.     *)
THEOREM PlayerTypeCorrect == Spec => []TypeOK
<1>1. Init => TypeOK
  <2> SUFFICES ASSUME Init PROVE TypeOK
    OBVIOUS
  <2>1. DataTypeOK
    <3>1. RingTypeOK
      <4>1. raced \in BOOLEAN
        BY Zenon DEF Init, RingInit
      <4> QED
        BY <4>1, ValuesTyped DEF Init, RingInit, RingTypeOK
    <3>2. /\ decAlive \in BOOLEAN /\ playAlive \in BOOLEAN
          /\ dev \in BOOLEAN /\ blk \in BOOLEAN /\ result \in BOOLEAN
      BY Zenon DEF Init
    <3>3. /\ goOn \in [DecThreads -> BOOLEAN]
          /\ dsize \in [DecThreads -> 0 .. MaxSize]
          /\ held \in [PlayThreads -> [slot : Slots, block : Blocks]]
          /\ fill \in [PlayThreads -> Nat]
      BY ValuesTyped DEF Init
    <3>4. /\ state \in States
          /\ owner \in Threads \cup {"none"}
          /\ file \in {"null", "open", "closed"}
          /\ reg \in [DecThreads \cup PlayThreads -> Int]
          /\ back \in {"fail", "prev", "next", "forward", "home"}
          /\ idx \in 0 .. IF NumFiles = 0 THEN 0 ELSE NumFiles - 1
      BY PlayerAssumption DEF Init, States
    <3> QED
      BY <3>1, <3>2, <3>3, <3>4 DEF DataTypeOK
  <2>2. PcTypeOK
    BY PlayerAssumption DEF Init, PcTypeOK, Threads, MainPcs, DecPcs, PlayPcs, StopPcs
  <2> QED
    BY <2>1, <2>2 DEF TypeOK
<1>2. TypeOK /\ [Next]_vars => TypeOK'
  <2> SUFFICES ASSUME DataTypeOK, PcTypeOK, [Next]_vars
               PROVE  DataTypeOK' /\ PcTypeOK'
    BY DEF TypeOK
  <2>1. CASE Pressing
    BY <2>1, MainPcStep, MainDataStep
  <2>2. CASE Main
    <3>1. CASE Stop("main")
      BY <3>1, StopPcStep, StopDataStep DEF Stoppers
    <3>2. CASE ~Stop("main")
      BY <2>2, <3>2, MainPcStep, MainDataStep DEF Main
    <3> QED
      BY <3>1, <3>2
  <2>3. ASSUME NEW d \in DecThreads, Decoder(d)
        PROVE  DataTypeOK' /\ PcTypeOK'
    BY <2>3, DecoderPcStep, DecoderDataStep
  <2>4. ASSUME NEW p \in PlayThreads, Playback(p)
        PROVE  DataTypeOK' /\ PcTypeOK'
    <3>1. CASE Stop(p)
      BY <3>1, StopPcStep, StopDataStep DEF Stoppers
    <3>2. CASE ~Stop(p)
      BY <2>4, <3>2, PlaybackPcStep, PlaybackDataStep
    <3> QED
      BY <3>1, <3>2
  <2>5. CASE UNCHANGED vars
    BY <2>5 DEF vars, ringVars, ctl, device, locals, decLocals, playLocals, mine,
                DataTypeOK, PcTypeOK, RingTypeOK
  <2> QED
    BY <2>1, <2>2, <2>3, <2>4, <2>5 DEF Next, Exited
<1> QED
  BY <1>1, <1>2, PTL DEF Spec
-----------------------------------------------------------------------------
(* The player that main does not stop: no key does, and every thread that   *)
(* is asked for is created.                                                 *)
Undisturbed ==
  /\ Keys \cap {"prev", "next", "home", "forward"} = {}
  /\ "thread" \notin Faults

DecAway  == \A d \in DecThreads : pc[d] = "off"
PlayAway == \A p \in PlayThreads : pc[p] = "off"

(* Where main is before there is a playback thread. *)
Beginning == {"open", "spawn"}
Charging  == {"charge", "charged", "spawnplay"}

(* Where a playback thread is after it has seen that both flags are clear. *)
Leaving == {"stopfree", "stopclear", "stopfile", "stopend"}

(* There is at most one thread of each kind, and the flags tell of it. *)
ThreadsInv ==
  /\ \A d, e \in DecThreads : pc[d] # "off" /\ pc[e] # "off" => d = e
  /\ \A p, q \in PlayThreads : pc[p] # "off" /\ pc[q] # "off" => p = q
  /\ decAlive <=> ~DecAway
  /\ playAlive => \E p \in PlayThreads : pc[p] \notin {"off"} \cup StopPcs
  /\ \A p \in PlayThreads : pc[p] \in Leaving => DecAway

(* What main has seen to be over, is. *)
MainInv ==
  /\ state = "stopped" \/ pc["main"] \in Beginning \cup StopPcs => DecAway /\ PlayAway
  /\ pc["main"] \in Charging => PlayAway
  /\ pc["main"] \in {"play", "begin", "nextfile"} => state = "stopped"
  /\ pc["main"] \in Beginning \cup Charging => state = "playing" /\ result
  /\ pc["main"] \in StopPcs => state = "playing" /\ back = "fail"

(* While there is no playback thread no update of the count is lost. *)
ChargeInv ==
  /\ pc["main"] \in Charging => \A d \in DecThreads : At(d, "store") => reg[d] = FullNum
  /\ At("main", "charged") => ~decAlive \/ FullNum > 0

AloneInv == ThreadsInv /\ MainInv /\ ChargeInv

(* Where a thread that goes from one place to another leaves the others. *)
LEMMA Moved ==
  ASSUME PcTypeOK, NEW t \in Threads, NEW l, Goto(t, l)
  PROVE  /\ pc'[t] = l
         /\ \A u \in Threads : u # t => pc'[u] = pc[u]
  BY DEF PcTypeOK, Goto

LEMMA MainMoved ==
  ASSUME PcTypeOK, NEW l, Goto("main", l)
  PROVE  /\ pc'["main"] = l
         /\ \A d \in DecThreads : pc'[d] = pc[d]
         /\ \A p \in PlayThreads : pc'[p] = pc[p]
  BY PlayerAssumption, Moved DEF Threads

LEMMA DecoderMoved ==
  ASSUME PcTypeOK, NEW d \in DecThreads, NEW l, Goto(d, l)
  PROVE  /\ pc'[d] = l /\ pc'["main"] = pc["main"]
         /\ \A e \in DecThreads : e # d => pc'[e] = pc[e]
         /\ \A p \in PlayThreads : pc'[p] = pc[p]
  BY PlayerAssumption, Moved DEF Threads

LEMMA PlaybackMoved ==
  ASSUME PcTypeOK, NEW p \in PlayThreads, NEW l, Goto(p, l)
  PROVE  /\ pc'[p] = l /\ pc'["main"] = pc["main"]
         /\ \A q \in PlayThreads : q # p => pc'[q] = pc[q]
         /\ \A d \in DecThreads : pc'[d] = pc[d]
  BY PlayerAssumption, Moved DEF Threads

(* Main creates a thread. *)
LEMMA Created ==
  ASSUME PcTypeOK, NEW t \in DecThreads \cup PlayThreads, NEW l, NEW m,
         pc' = [pc EXCEPT !["main"] = l, ![t] = m]
  PROVE  /\ pc'["main"] = l /\ pc'[t] = m
         /\ \A u \in DecThreads \cup PlayThreads : u # t => pc'[u] = pc[u]
<1>1. t # "main" /\ t \in Threads /\ "main" \in Threads /\ DOMAIN pc = Threads
  BY PlayerAssumption DEF PcTypeOK, Threads
<1>2. \A u \in DecThreads \cup PlayThreads : u \in Threads /\ u # "main"
  BY PlayerAssumption DEF Threads
<1> QED
  BY <1>1, <1>2

LEMMA AloneInit == Init => AloneInv
<1> SUFFICES ASSUME Init
             PROVE  AloneInv
  OBVIOUS
<1>1. pc["main"] = "play" /\ DecAway /\ PlayAway
  BY PlayerAssumption DEF Init, Threads, DecAway, PlayAway
<1> QED
  BY <1>1 DEF Init, AloneInv, ThreadsInv, MainInv, ChargeInv, DecAway, PlayAway, Beginning, Charging, StopPcs, Leaving, At

(* The steps of main without AACPlayer_Stop. *)
LEMMA MainKeepsAlone ==
  ASSUME Undisturbed, PcTypeOK, DataTypeOK, AloneInv,
         Pressing \/ PlayingFile \/ Watch \/ Recheck \/ NextFile
           \/ PauseEnter \/ PauseSet \/ PauseWait
           \/ ResumeEnter \/ ResumeSet \/ ResumeWait
  PROVE  AloneInv'
<1> USE MainMoved
    DEF AloneInv, ThreadsInv, MainInv, ChargeInv, DecAway, PlayAway, Beginning, Charging, StopPcs, Leaving, At,
        ringVars, ctl, device, locals, decLocals, playLocals, mine
<1>1. CASE \E k \in {"prev", "next", "home"} : KeyStop(k)
  BY <1>1 DEF KeyStop, Undisturbed
<1>2. CASE \E k \in {"forward", "backward"} : KeySeek(k)
  BY <1>2 DEF KeySeek, Undisturbed
<1>3. CASE KeyRight
  BY <1>3 DEF KeyRight
<1>4. CASE PlayEnter
  BY <1>4 DEF PlayEnter
<1>5. CASE PlayBegin
  BY <1>5 DEF PlayBegin
<1>6. CASE PlayOpen
  BY <1>6 DEF PlayOpen, ResetRing
<1>7. CASE PlayOpenFails
  BY <1>7 DEF PlayOpenFails, GiveUp
<1>9. CASE PlaySpawnFails
  BY <1>9, PlayerAssumption DEF PlaySpawnFails, Undisturbed
<1>10. CASE PlayCharge
  <2>1. FullNum >= BUFNUM => FullNum > 0
    BY RingAssumption DEF DataTypeOK, RingTypeOK
  <2>2. ~decAlive \/ FullNum > 0
    BY <1>10, <2>1 DEF PlayCharge
  <2> DEFINE some == FullNum > 0
  <2>3. (FullNum' > 0) <=> some
    BY <1>10 DEF PlayCharge
  <2> HIDE DEF some
  <2> QED
    BY <1>10, <2>2, <2>3 DEF PlayCharge, some
<1>11. CASE PlayCharged
  BY <1>11 DEF PlayCharged
<1>12. CASE PlayNothing
  BY <1>12 DEF PlayNothing, GiveUp, DataTypeOK, RingTypeOK
<1>14. CASE PlaySpawnPlaybackFails
  BY <1>14, PlayerAssumption DEF PlaySpawnPlaybackFails, Undisturbed
<1>15. CASE Watch
  BY <1>15 DEF Watch
<1>16. CASE Recheck
  BY <1>16 DEF Recheck
<1>17. CASE NextFile
  BY <1>17 DEF NextFile
<1>18. CASE PauseEnter
  BY <1>18 DEF PauseEnter
<1>19. CASE PauseSet
  BY <1>19 DEF PauseSet
<1>20. CASE PauseWait
  BY <1>20 DEF PauseWait
<1>21. CASE ResumeEnter
  BY <1>21 DEF ResumeEnter
<1>22. CASE ResumeSet
  BY <1>22 DEF ResumeSet
<1>23. CASE ResumeWait
  BY <1>23 DEF ResumeWait
<1>8. CASE PlaySpawn
  <2>1. PICK d \in DecThreads : At(d, "off") /\ pc' = [pc EXCEPT !["main"] = "charge", ![d] = "enter"]
    BY <1>8 DEF PlaySpawn
  <2>2. /\ pc'["main"] = "charge" /\ pc'[d] = "enter"
        /\ \A e \in DecThreads : e # d => pc'[e] = pc[e]
        /\ \A p \in PlayThreads : pc'[p] = pc[p]
    BY ONLY PcTypeOK, <2>1, Created, PlayerAssumption
  <2> QED
    BY <1>8, <2>1, <2>2 DEF PlaySpawn
<1>13. CASE PlaySpawnPlayback
  <2>1. PICK p \in PlayThreads :
          At(p, "off") /\ pc' = [pc EXCEPT !["main"] = IF result THEN "watch" ELSE "stop", ![p] = "enter"]
    BY <1>13 DEF PlaySpawnPlayback
  <2>2. /\ pc'["main"] = "watch" /\ pc'[p] = "enter"
        /\ \A d \in DecThreads : pc'[d] = pc[d]
        /\ \A q \in PlayThreads : q # p => pc'[q] = pc[q]
    <3>1. result
      BY <1>13 DEF PlaySpawnPlayback
    <3> QED
      BY ONLY PcTypeOK, <2>1, <3>1, Created, PlayerAssumption
  <2>3. ThreadsInv'
    <3>1. decAlive' = decAlive /\ playAlive' = playAlive /\ PlayAway /\ ~playAlive
      BY <1>13 DEF PlaySpawnPlayback
    <3>2. \A q, r \in PlayThreads : pc'[q] # "off" /\ pc'[r] # "off" => q = r
      BY <2>2, <3>1
    <3>3. (decAlive <=> ~DecAway)' /\ \A d, e \in DecThreads : pc'[d] # "off" /\ pc'[e] # "off" => d = e
      BY <2>2, <3>1
    <3>4. \A q \in PlayThreads : pc'[q] \notin Leaving
      BY <2>2, <3>1
    <3> QED
      BY <3>1, <3>2, <3>3, <3>4
  <2>4. MainInv'
    BY <1>13, <2>1, <2>2 DEF PlaySpawnPlayback
  <2>5. ChargeInv'
    BY <1>13, <2>1, <2>2 DEF PlaySpawnPlayback
  <2> QED
    BY <2>3, <2>4, <2>5
<1> QED
  BY <1>1, <1>2, <1>3, <1>4, <1>5, <1>6, <1>7, <1>8, <1>9, <1>10, <1>11, <1>12, <1>13, <1>14, <1>15, <1>16, <1>17, <1>18, <1>19, <1>20, <1>21, <1>22, <1>23 DEF Pressing, PlayingFile

(* AACPlayer_Stop, run by main when there is no thread. *)
LEMMA MainStopKeepsAlone ==
  ASSUME PcTypeOK, AloneInv, Stop("main")
  PROVE  AloneInv'
<1> USE MainMoved
    DEF AloneInv, ThreadsInv, MainInv, ChargeInv, DecAway, PlayAway, Beginning, Charging, StopPcs, Leaving, At,
        ringVars, ctl, device, locals, decLocals, playLocals, mine
<1>1. CASE StopEnter("main")
  BY <1>1 DEF StopEnter
<1>2. CASE StopWait("main")
  BY <1>2 DEF StopWait
<1>3. CASE StopFree("main")
  BY <1>3 DEF StopFree, PointersDangle
<1>4. CASE StopClear("main")
  BY <1>4 DEF StopClear
<1>5. CASE StopFile("main")
  BY <1>5 DEF StopFile
<1>6. CASE StopEnd("main")
  BY <1>6 DEF StopEnd
<1> QED
  BY <1>1, <1>2, <1>3, <1>4, <1>5, <1>6 DEF Stop

(* The same by a playback thread. *)
LEMMA PlaybackStopKeepsAlone ==
  ASSUME PcTypeOK, AloneInv, NEW p \in PlayThreads, Stop(p)
  PROVE  AloneInv'
<1> USE PlaybackMoved
    DEF AloneInv, ThreadsInv, MainInv, ChargeInv, DecAway, PlayAway, Beginning, Charging, StopPcs, Leaving, At,
        ringVars, ctl, device, locals, decLocals, playLocals, mine
<1>1. CASE StopEnter(p)
  BY <1>1 DEF StopEnter
<1>2. CASE StopWait(p)
  BY <1>2 DEF StopWait
<1>3. CASE StopFree(p)
  BY <1>3 DEF StopFree, PointersDangle
<1>4. CASE StopClear(p)
  BY <1>4 DEF StopClear
<1>5. CASE StopFile(p)
  BY <1>5 DEF StopFile
<1>6. CASE StopEnd(p)
  BY <1>6, PlayerAssumption DEF StopEnd
<1> QED
  BY <1>1, <1>2, <1>3, <1>4, <1>5, <1>6 DEF Stop

LEMMA DecoderKeepsAlone ==
  ASSUME PcTypeOK, DataTypeOK, AloneInv, NEW d \in DecThreads, Decoder(d)
  PROVE  AloneInv'
<1> USE DecoderMoved
    DEF AloneInv, ThreadsInv, MainInv, ChargeInv, DecAway, PlayAway, Beginning, Charging, StopPcs, Leaving, At,
        ringVars, ctl, device, locals, decLocals, playLocals, mine
<1>1. CASE DecEnter(d)
  BY <1>1 DEF DecEnter
<1>2. CASE DecEnd(d)
  BY <1>2 DEF DecEnd
<1>3. CASE DecInit(d)
  BY <1>3 DEF DecInit
<1>4. CASE DecLoop(d)
  BY <1>4 DEF DecLoop
<1>5. CASE DecFails(d)
  BY <1>5 DEF DecFails
<1>6. CASE DecEmpty(d)
  BY <1>6 DEF DecEmpty
<1>7. CASE DecRunsOut(d)
  BY <1>7 DEF DecRunsOut
<1>8. CASE DecFrame(d)
  BY <1>8 DEF DecFrame
<1>9. CASE DecGrow(d)
  BY <1>9 DEF DecGrow, FreeBlock, PointersDangle
<1>10. CASE DecGrown(d)
  BY <1>10 DEF DecGrown, NewBlock
<1>11. CASE DecNoMemory(d)
  BY <1>11 DEF DecNoMemory, NoBlock
<1>12. CASE DecCopy(d)
  BY <1>12 DEF DecCopy, SizeSlot
<1>13. CASE DecLoad(d)
  <2>1. reg'[d] = FullNum /\ UNCHANGED FullNum
    BY <1>13 DEF DecLoad, DataTypeOK
  <2> QED
    BY <1>13, <2>1 DEF DecLoad
<1>14. CASE DecStore(d)
  <2>1. Goto(d, IF goOn[d] THEN "loop" ELSE "end") /\ FullNum' = reg[d] + 1 /\ At(d, "store")
    BY <1>14 DEF DecStore, CommitSlot
  <2>2. FullNum > 0 /\ reg[d] = FullNum => FullNum' > 0
    BY <2>1 DEF DataTypeOK, RingTypeOK
  <2>3. UNCHANGED <<state, decAlive, playAlive, result, back>>
    BY <1>14 DEF DecStore, CommitSlot
  <2>4. /\ pc'[d] \in {"loop", "end"} /\ pc'["main"] = pc["main"]
        /\ \A e \in DecThreads : e # d => pc'[e] = pc[e]
        /\ \A p \in PlayThreads : pc'[p] = pc[p]
    BY <2>1
  <2>5. ThreadsInv' /\ MainInv'
    BY <2>1, <2>3, <2>4
  <2>6. \A e \in DecThreads : pc'[e] # "store"
    BY <2>1, <2>4
  <2>7. pc'["main"] = "charged" => ~decAlive' \/ FullNum' > 0
    <3> SUFFICES ASSUME pc["main"] = "charged", decAlive
                 PROVE  FullNum' > 0
      BY <2>3, <2>4
    <3>1. FullNum > 0 /\ reg[d] = FullNum
      BY <2>1
    <3> QED
      BY <3>1, <2>2
  <2> QED
    BY <2>5, <2>6, <2>7
<1> QED
  BY <1>1, <1>2, <1>3, <1>4, <1>5, <1>6, <1>7, <1>8, <1>9, <1>10, <1>11, <1>12, <1>13, <1>14 DEF Decoder

LEMMA PlaybackKeepsAlone ==
  ASSUME PcTypeOK, AloneInv, NEW p \in PlayThreads, Playback(p), ~Stop(p)
  PROVE  AloneInv'
<1> USE PlaybackMoved
    DEF AloneInv, ThreadsInv, MainInv, ChargeInv, DecAway, PlayAway, Beginning, Charging, StopPcs, Leaving, At,
        ringVars, ctl, device, locals, decLocals, playLocals, mine
<1>1. CASE PlaybackEnter(p)
  BY <1>1 DEF PlaybackEnter
<1>2. CASE PlaybackOpen(p)
  BY <1>2 DEF PlaybackOpen
<1>3. CASE PlaybackPauses(p)
  BY <1>3 DEF PlaybackPauses
<1>4. CASE PlaybackPaused(p)
  BY <1>4 DEF PlaybackPaused
<1>5. CASE PlaybackResumes(p)
  BY <1>5 DEF PlaybackResumes
<1>6. CASE PlaybackResumed(p)
  BY <1>6 DEF PlaybackResumed
<1>7. CASE PlaybackCmd(p)
  BY <1>7 DEF PlaybackCmd
<1>8. CASE PlaybackFill(p)
  BY <1>8 DEF PlaybackFill
<1>9. CASE PlaybackAlive(p)
  BY <1>9 DEF PlaybackAlive
<1>10. CASE PlaybackTake(p)
  BY <1>10 DEF PlaybackTake
<1>11. CASE PlaybackSize(p)
  BY <1>11 DEF PlaybackSize
<1>12. CASE PlaybackSlotDone(p)
  BY <1>12 DEF PlaybackSlotDone
<1>13. CASE PlaybackWrite(p)
  BY <1>13 DEF PlaybackWrite
<1>14. CASE PlaybackWriteFails(p)
  BY <1>14 DEF PlaybackWriteFails
<1>15. CASE PlaybackSub(p)
  BY <1>15 DEF PlaybackSub
<1>16. CASE PlaybackSubst(p)
  BY <1>16 DEF PlaybackSubst, CountDown
<1>17. CASE PlaybackLoad(p)
  BY <1>17, PlayerAssumption DEF PlaybackLoad
<1>18. CASE PlaybackStore(p)
  BY <1>18 DEF PlaybackStore, ReleaseSlot
<1>19. CASE PlaybackClose(p)
  BY <1>19 DEF PlaybackClose
<1>20. CASE PlaybackEnd(p)
  BY <1>20 DEF PlaybackEnd
<1> QED
  BY <1>1, <1>2, <1>3, <1>4, <1>5, <1>6, <1>7, <1>8, <1>9, <1>10, <1>11, <1>12, <1>13, <1>14, <1>15, <1>16, <1>17, <1>18, <1>19, <1>20 DEF Playback

LEMMA AloneStep ==
  ASSUME Undisturbed
  PROVE  TypeOK /\ AloneInv /\ [Next]_vars => AloneInv'
<1> SUFFICES ASSUME PcTypeOK, DataTypeOK, AloneInv, [Next]_vars
             PROVE  AloneInv'
  BY DEF TypeOK
<1>1. CASE Pressing
  BY <1>1, MainKeepsAlone
<1>2. CASE Main
  BY <1>2, MainKeepsAlone, MainStopKeepsAlone DEF Main
<1>3. CASE \E d \in DecThreads : Decoder(d)
  BY <1>3, DecoderKeepsAlone
<1>4. CASE \E p \in PlayThreads : Playback(p)
  BY <1>4, PlaybackKeepsAlone, PlaybackStopKeepsAlone
<1>5. CASE UNCHANGED vars
  BY <1>5 DEF vars, ringVars, ctl, device, locals, decLocals, playLocals, mine, AloneInv, ThreadsInv, MainInv,
       ChargeInv, DecAway, PlayAway, At
<1> QED
  BY <1>1, <1>2, <1>3, <1>4, <1>5 DEF Next, Exited

(* A file is begun only when no thread of the last one is left, as long as  *)
(* main is not made to stop the player.                                     *)
THEOREM AlwaysBeginsAlone ==
  ASSUME Undisturbed
  PROVE  Spec => []BeginsAlone
<1>1. Init => AloneInv
  BY AloneInit
<1>2. TypeOK /\ AloneInv /\ [Next]_vars => AloneInv'
  BY AloneStep
<1>3. AloneInv => BeginsAlone
  BY DEF AloneInv, MainInv, BeginsAlone, Beginning, DecAway, PlayAway, At
<1> QED
  BY <1>1, <1>2, <1>3, PlayerTypeCorrect, PTL DEF Spec
-----------------------------------------------------------------------------
(* What the states of a pause say of main, the playback thread and the      *)
(* device.                                                                  *)
PauseInv ==
  /\ state = "topause" => At("main", "pausewait")
  /\ state = "toresume" =>
       At("main", "resumewait") /\ \A p \in PlayThreads : pc[p] \in {"off", "cmd", "resume"}
  /\ At("main", "pauseset") => state \in {"playing", "tostop", "stopped"}
  /\ At("main", "resumeset") => state = "paused"
  /\ state = "paused" => ~dev /\ \A p \in PlayThreads : pc[p] \in {"off", "cmd"}
  /\ \A p \in PlayThreads : At(p, "paused") => state = "topause" /\ ~dev
  /\ \A p \in PlayThreads : At(p, "resume") => state = "toresume"

LEMMA PauseInit == Init => PauseInv
<1> SUFFICES ASSUME Init
             PROVE  PauseInv
  OBVIOUS
<1>1. pc["main"] = "play" /\ state = "stopped" /\ \A p \in PlayThreads : pc[p] = "off"
  BY PlayerAssumption DEF Init, Threads
<1> QED
  BY <1>1 DEF PauseInv, At

(* Main without AACPlayer_Stop. *)
LEMMA MainKeepsPause ==
  ASSUME Undisturbed, PcTypeOK, AloneInv, PauseInv,
         Pressing \/ PlayingFile \/ Watch \/ Recheck \/ NextFile
           \/ PauseEnter \/ PauseSet \/ PauseWait
           \/ ResumeEnter \/ ResumeSet \/ ResumeWait
  PROVE  PauseInv'
<1> USE MainMoved
    DEF PauseInv, AloneInv, ThreadsInv, MainInv, PlayAway, Beginning, Charging, StopPcs, At,
        ringVars, ctl, device, locals, decLocals, playLocals, mine
<1>1. CASE \E k \in {"prev", "next", "home"} : KeyStop(k)
  BY <1>1 DEF KeyStop, Undisturbed
<1>2. CASE \E k \in {"forward", "backward"} : KeySeek(k)
  BY <1>2 DEF KeySeek, Undisturbed
<1>3. CASE KeyRight
  BY <1>3 DEF KeyRight
<1>4. CASE PlayEnter
  BY <1>4 DEF PlayEnter
<1>5. CASE PlayBegin
  BY <1>5 DEF PlayBegin
<1>6. CASE PlayOpen
  BY <1>6 DEF PlayOpen, ResetRing
<1>7. CASE PlayOpenFails
  BY <1>7 DEF PlayOpenFails, GiveUp
<1>8. CASE PlaySpawn
  <2>1. PICK d \in DecThreads : At(d, "off") /\ pc' = [pc EXCEPT !["main"] = "charge", ![d] = "enter"]
    BY <1>8 DEF PlaySpawn
  <2>2. /\ pc'["main"] = "charge" /\ pc'[d] = "enter"
        /\ \A u \in DecThreads \cup PlayThreads : u # d => pc'[u] = pc[u]
    BY ONLY PcTypeOK, <2>1, Created
  <2> QED
    BY <1>8, <2>1, <2>2, PlayerAssumption DEF PlaySpawn
<1>9. CASE PlaySpawnFails
  BY <1>9 DEF PlaySpawnFails, GiveUp
<1>10. CASE PlayCharge
  BY <1>10 DEF PlayCharge
<1>11. CASE PlayCharged
  BY <1>11 DEF PlayCharged
<1>12. CASE PlayNothing
  BY <1>12 DEF PlayNothing, GiveUp
<1>13. CASE PlaySpawnPlayback
  <2>1. PICK p \in PlayThreads :
          At(p, "off") /\ pc' = [pc EXCEPT !["main"] = IF result THEN "watch" ELSE "stop", ![p] = "enter"]
    BY <1>13 DEF PlaySpawnPlayback
  <2>2. /\ pc'["main"] = (IF result THEN "watch" ELSE "stop") /\ pc'[p] = "enter"
        /\ \A u \in DecThreads \cup PlayThreads : u # p => pc'[u] = pc[u]
    BY ONLY PcTypeOK, <2>1, Created
  <2>3. state' = "playing" /\ pc'["main"] = "watch"
    BY <1>13, <2>2 DEF PlaySpawnPlayback
  <2>4. \A q \in PlayThreads : pc[q] = "off" /\ (pc'[q] = "off" \/ pc'[q] = "enter")
    BY <1>13, <2>2 DEF PlaySpawnPlayback
  <2> QED
    BY ONLY <2>3, <2>4 DEF PauseInv, At
<1>14. CASE PlaySpawnPlaybackFails
  BY <1>14 DEF PlaySpawnPlaybackFails
<1>15. CASE Watch
  BY <1>15 DEF Watch
<1>16. CASE Recheck
  BY <1>16 DEF Recheck
<1>17. CASE NextFile
  BY <1>17 DEF NextFile
<1>18. CASE PauseEnter
  BY <1>18 DEF PauseEnter
<1>19. CASE PauseSet
  BY <1>19 DEF PauseSet
<1>20. CASE PauseWait
  BY <1>20 DEF PauseWait
<1>21. CASE ResumeEnter
  BY <1>21 DEF ResumeEnter
<1>22. CASE ResumeSet
  BY <1>22 DEF ResumeSet
<1>23. CASE ResumeWait
  BY <1>23 DEF ResumeWait
<1> QED
  BY <1>1, <1>2, <1>3, <1>4, <1>5, <1>6, <1>7, <1>8, <1>9, <1>10, <1>11, <1>12, <1>13, <1>14, <1>15, <1>16, <1>17, <1>18, <1>19, <1>20, <1>21, <1>22, <1>23 DEF Pressing, PlayingFile

(* AACPlayer_Stop; in main there is then no playback thread. *)
LEMMA MainStopKeepsPause ==
  ASSUME PcTypeOK, AloneInv, PauseInv, Stop("main")
  PROVE  PauseInv'
<1> USE MainMoved
    DEF PauseInv, AloneInv, ThreadsInv, MainInv, PlayAway, Beginning, Charging, StopPcs, At,
        ringVars, ctl, device, locals, decLocals, playLocals, mine
<1>1. CASE StopEnter("main")
  BY <1>1 DEF StopEnter
<1>2. CASE StopWait("main")
  BY <1>2 DEF StopWait
<1>3. CASE StopFree("main")
  BY <1>3 DEF StopFree, PointersDangle
<1>4. CASE StopClear("main")
  BY <1>4 DEF StopClear
<1>5. CASE StopFile("main")
  BY <1>5 DEF StopFile
<1>6. CASE StopEnd("main")
  BY <1>6 DEF StopEnd
<1> QED
  BY <1>1, <1>2, <1>3, <1>4, <1>5, <1>6 DEF Stop

LEMMA PlaybackStopKeepsPause ==
  ASSUME PcTypeOK, AloneInv, PauseInv, NEW p \in PlayThreads, Stop(p)
  PROVE  PauseInv'
<1> USE PlaybackMoved
    DEF PauseInv, AloneInv, ThreadsInv, MainInv, PlayAway, Beginning, Charging, StopPcs, At,
        ringVars, ctl, device, locals, decLocals, playLocals, mine
<1>1. CASE StopEnter(p)
  BY <1>1 DEF StopEnter
<1>2. CASE StopWait(p)
  BY <1>2 DEF StopWait
<1>3. CASE StopFree(p)
  BY <1>3 DEF StopFree, PointersDangle
<1>4. CASE StopClear(p)
  BY <1>4 DEF StopClear
<1>5. CASE StopFile(p)
  BY <1>5 DEF StopFile
<1>6. CASE StopEnd(p)
  BY <1>6 DEF StopEnd
<1> QED
  BY <1>1, <1>2, <1>3, <1>4, <1>5, <1>6 DEF Stop

(* The decode thread has no part in a pause. *)
LEMMA DecoderKeepsPause ==
  ASSUME PcTypeOK, PauseInv, NEW d \in DecThreads, Decoder(d)
  PROVE  PauseInv'
<1>1. UNCHANGED <<state, dev>>
  BY DEF Decoder, DecEnter, DecEnd, DecInit, DecLoop, DecFails, DecEmpty, DecRunsOut, DecFrame,
         DecGrow, DecGrown, DecNoMemory, DecCopy, DecLoad, DecStore, ctl, device
<1>2. \E l : Goto(d, l)
  BY DEF Decoder, DecEnter, DecEnd, DecInit, DecLoop, DecFails, DecEmpty, DecRunsOut, DecFrame,
         DecGrow, DecGrown, DecNoMemory, DecCopy, DecLoad, DecStore
<1>3. pc'["main"] = pc["main"] /\ \A p \in PlayThreads : pc'[p] = pc[p]
  BY <1>2, DecoderMoved
<1> QED
  BY <1>1, <1>3 DEF PauseInv, At

LEMMA PlaybackKeepsPause ==
  ASSUME PcTypeOK, AloneInv, PauseInv, NEW p \in PlayThreads, Playback(p), ~Stop(p)
  PROVE  PauseInv'
<1> USE PlaybackMoved
    DEF PauseInv, AloneInv, ThreadsInv, MainInv, PlayAway, Beginning, Charging, StopPcs, At,
        ringVars, ctl, device, locals, decLocals, playLocals, mine
<1>1. CASE PlaybackEnter(p)
  BY <1>1 DEF PlaybackEnter
<1>2. CASE PlaybackOpen(p)
  BY <1>2 DEF PlaybackOpen
<1>3. CASE PlaybackPauses(p)
  BY <1>3 DEF PlaybackPauses
<1>4. CASE PlaybackPaused(p)
  BY <1>4 DEF PlaybackPaused
<1>5. CASE PlaybackResumes(p)
  BY <1>5 DEF PlaybackResumes
<1>6. CASE PlaybackResumed(p)
  BY <1>6 DEF PlaybackResumed
<1>7. CASE PlaybackCmd(p)
  BY <1>7 DEF PlaybackCmd
<1>8. CASE PlaybackFill(p)
  BY <1>8 DEF PlaybackFill
<1>9. CASE PlaybackAlive(p)
  BY <1>9 DEF PlaybackAlive
<1>10. CASE PlaybackTake(p)
  BY <1>10 DEF PlaybackTake
<1>11. CASE PlaybackSize(p)
  BY <1>11 DEF PlaybackSize
<1>12. CASE PlaybackSlotDone(p)
  BY <1>12 DEF PlaybackSlotDone
<1>13. CASE PlaybackWrite(p)
  BY <1>13 DEF PlaybackWrite
<1>14. CASE PlaybackWriteFails(p)
  BY <1>14 DEF PlaybackWriteFails
<1>15. CASE PlaybackSub(p)
  BY <1>15 DEF PlaybackSub
<1>16. CASE PlaybackSubst(p)
  BY <1>16 DEF PlaybackSubst, CountDown
<1>17. CASE PlaybackLoad(p)
  BY <1>17 DEF PlaybackLoad
<1>18. CASE PlaybackStore(p)
  BY <1>18 DEF PlaybackStore, ReleaseSlot
<1>19. CASE PlaybackClose(p)
  BY <1>19 DEF PlaybackClose
<1>20. CASE PlaybackEnd(p)
  BY <1>20 DEF PlaybackEnd
<1> QED
  BY <1>1, <1>2, <1>3, <1>4, <1>5, <1>6, <1>7, <1>8, <1>9, <1>10, <1>11, <1>12, <1>13, <1>14, <1>15, <1>16, <1>17, <1>18, <1>19, <1>20 DEF Playback

LEMMA PauseStep ==
  ASSUME Undisturbed
  PROVE  TypeOK /\ AloneInv /\ PauseInv /\ [Next]_vars => PauseInv'
<1> SUFFICES ASSUME PcTypeOK, AloneInv, PauseInv, [Next]_vars
             PROVE  PauseInv'
  BY DEF TypeOK
<1>1. CASE Pressing
  BY <1>1, MainKeepsPause
<1>2. CASE Main
  BY <1>2, MainKeepsPause, MainStopKeepsPause DEF Main
<1>3. CASE \E d \in DecThreads : Decoder(d)
  BY <1>3, DecoderKeepsPause
<1>4. CASE \E p \in PlayThreads : Playback(p)
  BY <1>4, PlaybackKeepsPause, PlaybackStopKeepsPause
<1>5. CASE UNCHANGED vars
  BY <1>5 DEF vars, ctl, device, PauseInv, At
<1> QED
  BY <1>1, <1>2, <1>3, <1>4, <1>5 DEF Next, Exited

LEMMA PauseInvariant ==
  ASSUME Undisturbed
  PROVE  Spec => [](TypeOK /\ AloneInv /\ PauseInv)
<1>1. Init => AloneInv /\ PauseInv
  BY AloneInit, PauseInit
<1>2. TypeOK /\ AloneInv /\ PauseInv /\ [Next]_vars => (AloneInv /\ PauseInv)'
  BY AloneStep, PauseStep
<1> QED
  BY <1>1, <1>2, PlayerTypeCorrect, PTL DEF Spec

(* A player that says it is paused has closed the device, and its thread    *)
(* only waits for the next command.                                         *)
THEOREM AlwaysPausedSilent ==
  ASSUME Undisturbed
  PROVE  Spec => []PausedIsSilent
<1>1. PauseInv => PausedIsSilent
  BY DEF PauseInv, PausedIsSilent, Emptying
<1> QED
  BY <1>1, PauseInvariant, PTL

(* Nothing but the user's wish to resume ends a pause. *)
THEOREM PausesHold ==
  ASSUME Undisturbed
  PROVE  Spec => PauseHolds
<1>1. TypeOK /\ AloneInv /\ PauseInv /\ [Next]_vars
        => [state = "paused" /\ state' # "paused" => At("main", "resumeset")]_state
  <2> SUFFICES ASSUME AloneInv, PauseInv, [Next]_vars, state = "paused", state' # "paused"
               PROVE  At("main", "resumeset")
    OBVIOUS
  <2> USE DEF ctl, At, ringVars, device
  <2>1. ~PlayBegin /\ ~PauseSet
    BY DEF PlayBegin, PauseSet, PauseInv, AloneInv, MainInv
  <2>2. ~Stop("main")
    BY DEF Stop, StopEnter, StopWait, StopFree, StopClear, StopFile, StopEnd, AloneInv, MainInv, StopPcs
  <2>3. \A p \in PlayThreads : pc[p] \in {"off", "cmd"}
    BY DEF PauseInv
  <2>4. \A p \in PlayThreads : ~Playback(p)
    BY <2>3 DEF Playback, PlaybackEnter, PlaybackOpen, PlaybackPauses, PlaybackPaused, PlaybackResumes,
         PlaybackResumed, PlaybackCmd, PlaybackFill, PlaybackAlive, PlaybackTake, PlaybackSize,
         PlaybackSlotDone, PlaybackWrite, PlaybackWriteFails, PlaybackSub, PlaybackSubst, PlaybackLoad, PlaybackStore, PlaybackClose, PlaybackEnd,
         Stop, StopEnter, StopWait, StopFree, StopClear, StopFile, StopEnd
  <2>5. \A d \in DecThreads : ~Decoder(d)
    BY DEF Decoder, DecEnter, DecEnd, DecInit, DecLoop, DecFails, DecEmpty, DecRunsOut, DecFrame,
         DecGrow, DecGrown, DecNoMemory, DecCopy, DecLoad, DecStore
  <2>6. ~Pressing
    BY DEF Pressing, KeyStop, KeySeek, KeyRight
  <2>7. ~PlayingFile
    BY <2>1 DEF PlayingFile, PlayEnter, PlayOpen, PlayOpenFails, PlaySpawn, PlaySpawnFails, PlayCharge,
         PlayCharged, PlayNothing, PlaySpawnPlayback, PlaySpawnPlaybackFails
  <2>8. ~(Watch \/ Recheck \/ NextFile \/ PauseEnter \/ PauseWait \/ ResumeEnter \/ ResumeWait)
    BY DEF Watch, Recheck, NextFile, PauseEnter, PauseWait, ResumeEnter, ResumeWait
  <2>9. ~UNCHANGED vars
    BY DEF vars
  <2>10. ResumeSet
    BY <2>1, <2>2, <2>4, <2>5, <2>6, <2>7, <2>8, <2>9 DEF Next, Main, Exited
  <2> QED
    BY <2>10 DEF ResumeSet
<1> QED
  BY <1>1, PauseInvariant, PTL DEF Spec, PauseHolds
-----------------------------------------------------------------------------
(* Where a decode thread may still decode into a slot, and where it has a   *)
(* slot it saw room in.                                                     *)
Decoding(d) == pc[d] \notin {"off", "quit", "end"}

Filling == {"decode", "grow", "grown", "copy", "load", "store"}

(* Where a playback thread has pcDecodedPCM in use. *)
Pointing == {"size", "write", "sub", "subst"}

(* A file is under way: a decode thread, a playback thread that has not     *)
(* turned to AACPlayer_Stop, or main before either.                         *)
UnderWay ==
  \/ ~DecAway
  \/ \E p \in PlayThreads : pc[p] \notin {"off"} \cup StopPcs
  \/ pc["main"] \in {"spawn"} \cup Charging

(* A buffer is freed and the file closed only between two steps of a        *)
(* AACPlayer_Stop or of realloc(); a decode thread has a file, and what it  *)
(* notes of its buffers' sizes is so.                                       *)
HeapInv ==
  /\ \A i \in Slots : Buf[i] = "freed" =>
       \/ \E t \in Stoppers : At(t, "stopclear")
       \/ i = WriteIdx /\ \E d \in DecThreads : At(d, "grown")
  /\ file = "closed" => \E t \in Stoppers : At(t, "stopfile")
  /\ ~DecAway \/ At("main", "spawn") => file = "open"
  /\ \A d \in DecThreads : \A i \in Slots :
       Decoding(d) /\ BufSize[i] > 0 /\ Buf[i] # "live" => At(d, "grown") /\ i = WriteIdx
  /\ At("main", "spawn") => \A i \in Slots : BufSize[i] = 0
  /\ \A d \in DecThreads : pc[d] \in {"copy", "load", "store"} => Buf[WriteIdx] = "live"

(* Until an update of the count is lost the indices are FullNum slots apart *)
(* and what a thread saw of the count still holds, so that the decode       *)
(* thread is at none of the slots the playback thread has before it.        *)
SlotInv ==
  ~raced =>
    /\ FullNum \in 0 .. BUFNUM
    /\ WriteIdx = SlotAt(FullNum)
    /\ \A d \in DecThreads : pc[d] \in Filling => FullNum < BUFNUM
    /\ \A p \in PlayThreads : pc[p] \in Emptying => FullNum > 0
    /\ UnderWay => \A k \in 0 .. FullNum - 1 : Buf[SlotAt(k)] = "live"
    /\ \A p \in PlayThreads : pc[p] \in Pointing =>
         held[p] = [slot |-> ReadIdx, block |-> "live"]

LEMMA HeapInit == Init => HeapInv
<1> SUFFICES ASSUME Init
             PROVE  HeapInv
  OBVIOUS
<1>1. pc["main"] = "play" /\ DecAway
  BY PlayerAssumption DEF Init, Threads, DecAway
<1> QED
  BY <1>1, RingAssumption DEF Init, RingInit, HeapInv, At, DecAway, Decoding

(* Main without AACPlayer_Stop. *)
LEMMA MainKeepsHeap ==
  ASSUME Undisturbed, PcTypeOK, AloneInv, HeapInv,
         Pressing \/ PlayingFile \/ Watch \/ Recheck \/ NextFile
           \/ PauseEnter \/ PauseSet \/ PauseWait
           \/ ResumeEnter \/ ResumeSet \/ ResumeWait
  PROVE  HeapInv'
<1> USE MainMoved
    DEF HeapInv, Decoding, AloneInv, ThreadsInv, MainInv, DecAway, PlayAway, Beginning, Charging, StopPcs, Leaving, Stoppers, At,
        ringVars, ctl, device, locals, decLocals, playLocals, mine
<1>1. CASE \E k \in {"prev", "next", "home"} : KeyStop(k)
  BY <1>1 DEF KeyStop, Undisturbed
<1>2. CASE \E k \in {"forward", "backward"} : KeySeek(k)
  BY <1>2 DEF KeySeek, Undisturbed
<1>3. CASE KeyRight
  BY <1>3 DEF KeyRight
<1>4. CASE PlayEnter
  BY <1>4 DEF PlayEnter
<1>5. CASE PlayBegin
  BY <1>5 DEF PlayBegin
<1>6. CASE PlayOpen
  BY <1>6 DEF PlayOpen, ResetRing
<1>7. CASE PlayOpenFails
  BY <1>7 DEF PlayOpenFails, GiveUp
<1>8. CASE PlaySpawn
  <2>1. PICK d \in DecThreads : At(d, "off") /\ pc' = [pc EXCEPT !["main"] = "charge", ![d] = "enter"]
    BY <1>8 DEF PlaySpawn
  <2>2. /\ pc'["main"] = "charge" /\ pc'[d] = "enter"
        /\ \A u \in DecThreads \cup PlayThreads : u # d => pc'[u] = pc[u]
    BY ONLY PcTypeOK, <2>1, Created
  <2>3. UNCHANGED <<ringVars, file>> /\ pc["main"] = "spawn"
    BY <1>8 DEF PlaySpawn
  <2>4. file = "open" /\ \A i \in Slots : Buf[i] # "freed" /\ BufSize[i] = 0
    BY <2>3
  <2>5. \A e \in DecThreads : pc'[e] \in {"off", "enter"}
    BY <2>2, <2>3
  <2> QED
    BY ONLY <2>3, <2>4, <2>5, <2>2 DEF HeapInv, Decoding, DecAway, At, ringVars
<1>9. CASE PlaySpawnFails
  BY <1>9 DEF PlaySpawnFails, GiveUp
<1>10. CASE PlayCharge
  BY <1>10 DEF PlayCharge
<1>11. CASE PlayCharged
  BY <1>11 DEF PlayCharged
<1>12. CASE PlayNothing
  BY <1>12 DEF PlayNothing, GiveUp
<1>13. CASE PlaySpawnPlayback
  <2>1. PICK p \in PlayThreads :
          At(p, "off") /\ pc' = [pc EXCEPT !["main"] = IF result THEN "watch" ELSE "stop", ![p] = "enter"]
    BY <1>13 DEF PlaySpawnPlayback
  <2>2. /\ pc'["main"] = (IF result THEN "watch" ELSE "stop") /\ pc'[p] = "enter"
        /\ \A u \in DecThreads \cup PlayThreads : u # p => pc'[u] = pc[u]
    BY ONLY PcTypeOK, <2>1, Created
  <2>3. UNCHANGED <<ringVars, file, decAlive>> /\ At("main", "spawnplay") /\ pc'["main"] \in {"watch", "stop"}
    BY <1>13, <2>2 DEF PlaySpawnPlayback
  <2>4. /\ file # "closed"
        /\ \A i \in Slots : Buf[i] = "freed" => i = WriteIdx /\ \E d \in DecThreads : pc[d] = "grown"
    BY <2>3
  <2>5. \A d \in DecThreads : pc'[d] = pc[d]
    BY <2>2, PlayerAssumption
  <2> QED
    BY <2>3, <2>4, <2>5
<1>14. CASE PlaySpawnPlaybackFails
  BY <1>14 DEF PlaySpawnPlaybackFails
<1>15. CASE Watch
  BY <1>15 DEF Watch
<1>16. CASE Recheck
  BY <1>16 DEF Recheck
<1>17. CASE NextFile
  BY <1>17 DEF NextFile
<1>18. CASE PauseEnter
  BY <1>18 DEF PauseEnter
<1>19. CASE PauseSet
  BY <1>19 DEF PauseSet
<1>20. CASE PauseWait
  BY <1>20 DEF PauseWait
<1>21. CASE ResumeEnter
  BY <1>21 DEF ResumeEnter
<1>22. CASE ResumeSet
  BY <1>22 DEF ResumeSet
<1>23. CASE ResumeWait
  BY <1>23 DEF ResumeWait
<1> QED
  BY <1>1, <1>2, <1>3, <1>4, <1>5, <1>6, <1>7, <1>8, <1>9, <1>10, <1>11, <1>12, <1>13, <1>14, <1>15, <1>16, <1>17, <1>18, <1>19, <1>20, <1>21, <1>22, <1>23 DEF Pressing, PlayingFile

(* AACPlayer_Stop, after which nobody is there to use what it frees. *)
LEMMA MainStopKeepsHeap ==
  ASSUME PcTypeOK, AloneInv, HeapInv, Stop("main")
  PROVE  HeapInv'
<1> USE MainMoved
    DEF HeapInv, Decoding, AloneInv, ThreadsInv, MainInv, DecAway, PlayAway, Beginning, Charging, StopPcs, Leaving, Stoppers, At,
        ringVars, ctl, device, locals, decLocals, playLocals, mine
<1>1. CASE StopEnter("main")
  BY <1>1 DEF StopEnter
<1>2. CASE StopWait("main")
  BY <1>2 DEF StopWait
<1>3. CASE StopFree("main")
  BY <1>3 DEF StopFree
<1>4. CASE StopClear("main")
  BY <1>4 DEF StopClear
<1>5. CASE StopFile("main")
  BY <1>5 DEF StopFile
<1>6. CASE StopEnd("main")
  BY <1>6 DEF StopEnd
<1> QED
  BY <1>1, <1>2, <1>3, <1>4, <1>5, <1>6 DEF Stop

LEMMA PlaybackStopKeepsHeap ==
  ASSUME PcTypeOK, AloneInv, HeapInv, NEW p \in PlayThreads, Stop(p)
  PROVE  HeapInv'
<1> USE PlaybackMoved
    DEF HeapInv, Decoding, AloneInv, ThreadsInv, MainInv, DecAway, PlayAway, Beginning, Charging, StopPcs, Leaving, Stoppers, At,
        ringVars, ctl, device, locals, decLocals, playLocals, mine
<1>1. CASE StopEnter(p)
  BY <1>1 DEF StopEnter
<1>2. CASE StopWait(p)
  BY <1>2 DEF StopWait
<1>3. CASE StopFree(p)
  <2>1. /\ pc[p] = "stopfree" /\ pc'[p] = "stopclear" /\ pc'["main"] = pc["main"]
        /\ \A d \in DecThreads : pc'[d] = pc[d]
    BY <1>3 DEF StopFree
  <2>2. DecAway /\ pc["main"] \notin {"stopfile", "spawn"} /\ \A q \in PlayThreads : pc[q] # "stopfile"
    BY <2>1
  <2>3. file # "closed"
    BY <2>2
  <2>4. UNCHANGED file
    BY <1>3 DEF StopFree
  <2>5. \A d \in DecThreads : pc'[d] = "off"
    BY <2>1, <2>2
  <2>6. \E t \in Stoppers : pc'[t] = "stopclear"
    BY <2>1
  <2> QED
    BY ONLY <2>1, <2>2, <2>3, <2>4, <2>5, <2>6 DEF HeapInv, Decoding, DecAway, At
<1>4. CASE StopClear(p)
  <2>1. /\ pc[p] = "stopclear" /\ pc'["main"] = pc["main"]
        /\ \A d \in DecThreads : pc'[d] = pc[d]
    BY <1>4 DEF StopClear
  <2>2. DecAway /\ pc["main"] # "spawn"
    BY <2>1
  <2>3. file' = "null" \/ (file' = "closed" /\ pc'[p] = "stopfile")
    BY <1>4 DEF StopClear
  <2>4. \A i \in Slots : Buf'[i] = IF Buf[i] = "freed" THEN "null" ELSE Buf[i]
    BY <1>4 DEF StopClear
  <2>5. \A i \in Slots : Buf'[i] # "freed"
    BY <2>4
  <2>6. \A d \in DecThreads : pc'[d] = "off"
    BY <2>1, <2>2
  <2>7. file' = "closed" => \E t \in Stoppers : pc'[t] = "stopfile"
    BY <2>3
  <2> QED
    BY ONLY <2>1, <2>2, <2>5, <2>6, <2>7 DEF HeapInv, Decoding, DecAway, At
<1>5. CASE StopFile(p)
  BY <1>5 DEF StopFile
<1>6. CASE StopEnd(p)
  BY <1>6 DEF StopEnd
<1> QED
  BY <1>1, <1>2, <1>3, <1>4, <1>5, <1>6 DEF Stop

(* While a decode thread runs there is no other, nobody is between the       *)
(* steps of AACPlayer_Stop that free and close, and main is past its start. *)
LEMMA DecoderWorks ==
  ASSUME PcTypeOK, AloneInv, HeapInv, NEW d \in DecThreads, pc[d] # "off",
         NEW l, Goto(d, l), l # "off"
  PROVE  /\ pc'[d] = l /\ ~DecAway'
         /\ \A e \in DecThreads : e # d => pc'[e] = "off"
         /\ pc'["main"] = pc["main"] /\ pc["main"] # "spawn"
         /\ \A p \in PlayThreads : pc'[p] = pc[p]
         /\ \A t \in Stoppers : pc[t] \notin Leaving
         /\ file = "open"
         /\ \A i \in Slots : Buf[i] = "freed" => i = WriteIdx /\ pc[d] = "grown"
<1>1. /\ pc'[d] = l /\ pc'["main"] = pc["main"]
      /\ \A e \in DecThreads : e # d => pc'[e] = pc[e]
      /\ \A p \in PlayThreads : pc'[p] = pc[p]
  BY DecoderMoved
<1>2. /\ \A e \in DecThreads : e # d => pc[e] = "off"
      /\ ~DecAway
      /\ \A t \in Stoppers : pc[t] \notin Leaving
      /\ pc["main"] # "spawn"
  BY DEF AloneInv, ThreadsInv, MainInv, DecAway, Stoppers, StopPcs, Leaving, Beginning
<1>3. file = "open" /\ \A i \in Slots : Buf[i] = "freed" => i = WriteIdx /\ pc[d] = "grown"
  BY <1>2 DEF HeapInv, Leaving, At
<1> QED
  BY <1>1, <1>2, <1>3 DEF DecAway

LEMMA DecoderKeepsHeap ==
  ASSUME PcTypeOK, DataTypeOK, AloneInv, HeapInv, NEW d \in DecThreads, Decoder(d)
  PROVE  HeapInv'
<1> USE DecoderMoved
    DEF HeapInv, Decoding, AloneInv, ThreadsInv, MainInv, DecAway, PlayAway, Beginning, Charging, StopPcs, Leaving, Stoppers, At,
        ringVars, ctl, device, locals, decLocals, playLocals, mine
<1>1. CASE DecEnter(d)
  BY <1>1 DEF DecEnter
<1>2. CASE DecEnd(d)
  BY <1>2 DEF DecEnd
<1>3. CASE DecInit(d)
  BY <1>3 DEF DecInit
<1>4. CASE DecLoop(d)
  BY <1>4 DEF DecLoop
<1>5. CASE DecFails(d)
  BY <1>5 DEF DecFails
<1>6. CASE DecEmpty(d)
  BY <1>6 DEF DecEmpty
<1>7. CASE DecRunsOut(d)
  BY <1>7 DEF DecRunsOut
<1>8. CASE DecFrame(d)
  <2>1. /\ UNCHANGED <<ringVars, file>> /\ pc[d] = "decode"
        /\ \E n \in Sizes : Goto(d, IF BufSize[WriteIdx] < n THEN "grow" ELSE "copy")
    BY <1>8 DEF DecFrame
  <2>2. PICK n \in Sizes : Goto(d, IF BufSize[WriteIdx] < n THEN "grow" ELSE "copy")
    BY <2>1
  <2>3. pc'[d] = "copy" => Buf[WriteIdx] = "live"
    <3>1. ~(BufSize[WriteIdx] < n) \/ pc'[d] = "grow"
      BY <2>2
    <3>2. WriteIdx \in Slots /\ n >= 1 /\ n \in Int /\ BufSize[WriteIdx] \in Int
      BY RingAssumption DEF DataTypeOK, RingTypeOK, Sizes
    <3>3. pc'[d] = "copy" => BufSize[WriteIdx] > 0
      BY ONLY <3>1, <3>2
    <3> QED
      BY <2>1, <3>2, <3>3
  <2>4. pc'[d] \in {"grow", "copy"}
    BY <2>2
  <2> QED
    BY ONLY <2>1, <2>2, <2>3, <2>4, DecoderWorks, PcTypeOK, AloneInv, HeapInv
       DEF HeapInv, Decoding, DecAway, Leaving, At, ringVars
<1>9. CASE DecGrow(d)
  <2>1. pc[d] = "grow" /\ Goto(d, "grown") /\ UNCHANGED <<WriteIdx, BufSize, file>>
    BY <1>9 DEF DecGrow, FreeBlock
  <2>2. \A i \in Slots : i # WriteIdx => Buf'[i] = Buf[i]
    BY <1>9 DEF DecGrow, FreeBlock, DataTypeOK, RingTypeOK
  <2> QED
    BY ONLY <2>1, <2>2, DecoderWorks, PcTypeOK, AloneInv, HeapInv
       DEF HeapInv, Decoding, DecAway, Leaving, At
<1>10. CASE DecGrown(d)
  <2>1. pc[d] = "grown" /\ Goto(d, "copy") /\ UNCHANGED <<WriteIdx, file>>
    BY <1>10 DEF DecGrown, NewBlock
  <2>2. /\ \A i \in Slots : i # WriteIdx => Buf'[i] = Buf[i] /\ BufSize'[i] = BufSize[i]
        /\ Buf'[WriteIdx] = "live"
    BY <1>10 DEF DecGrown, NewBlock, DataTypeOK, RingTypeOK
  <2> QED
    BY ONLY <2>1, <2>2, DecoderWorks, PcTypeOK, AloneInv, HeapInv
       DEF HeapInv, Decoding, DecAway, Leaving, At
<1>11. CASE DecNoMemory(d)
  <2>1. pc[d] = "grow" /\ Goto(d, "end") /\ UNCHANGED <<WriteIdx, file>>
    BY <1>11 DEF DecNoMemory, NoBlock
  <2>2. /\ \A i \in Slots : i # WriteIdx => Buf'[i] = Buf[i]
        /\ Buf'[WriteIdx] = "null"
    BY <1>11 DEF DecNoMemory, NoBlock, DataTypeOK, RingTypeOK
  <2> QED
    BY ONLY <2>1, <2>2, DecoderWorks, PcTypeOK, AloneInv, HeapInv
       DEF HeapInv, Decoding, DecAway, Leaving, At
<1>12. CASE DecCopy(d)
  BY <1>12 DEF DecCopy, SizeSlot
<1>13. CASE DecLoad(d)
  BY <1>13 DEF DecLoad
<1>14. CASE DecStore(d)
  <2>1. /\ pc[d] = "store" /\ UNCHANGED <<Buf, BufSize, file>>
        /\ Goto(d, IF goOn[d] THEN "loop" ELSE "end")
    BY <1>14 DEF DecStore, CommitSlot
  <2> QED
    BY ONLY <2>1, DecoderWorks, PcTypeOK, AloneInv, HeapInv
       DEF HeapInv, Decoding, DecAway, Leaving, At
<1> QED
  BY <1>1, <1>2, <1>3, <1>4, <1>5, <1>6, <1>7, <1>8, <1>9, <1>10, <1>11, <1>12, <1>13, <1>14 DEF Decoder

(* The playback thread itself only reads the buffers. *)
LEMMA PlaybackKeepsHeap ==
  ASSUME PcTypeOK, HeapInv, NEW p \in PlayThreads, Playback(p), ~Stop(p)
  PROVE  HeapInv'
<1>1. UNCHANGED <<Buf, BufSize, WriteIdx, file>>
  BY DEF Playback, PlaybackEnter, PlaybackOpen, PlaybackPauses, PlaybackPaused, PlaybackResumes,
         PlaybackResumed, PlaybackCmd, PlaybackFill, PlaybackAlive, PlaybackTake, PlaybackSize,
         PlaybackSlotDone, PlaybackWrite, PlaybackWriteFails, PlaybackSub, PlaybackSubst, PlaybackLoad, PlaybackStore,
         PlaybackClose, PlaybackEnd, CountDown, ReleaseSlot, ringVars
<1>2. pc[p] \notin {"stopclear", "stopfile"} /\ \E l : Goto(p, l)
  BY DEF Playback, PlaybackEnter, PlaybackOpen, PlaybackPauses, PlaybackPaused, PlaybackResumes,
         PlaybackResumed, PlaybackCmd, PlaybackFill, PlaybackAlive, PlaybackTake, PlaybackSize,
         PlaybackSlotDone, PlaybackWrite, PlaybackWriteFails, PlaybackSub, PlaybackSubst, PlaybackLoad, PlaybackStore, PlaybackClose, PlaybackEnd, At
<1>3. /\ pc'["main"] = pc["main"]
      /\ \A q \in PlayThreads : q # p => pc'[q] = pc[q]
      /\ \A d \in DecThreads : pc'[d] = pc[d]
  BY <1>2, PlaybackMoved
<1> QED
  BY <1>1, <1>2, <1>3 DEF HeapInv, Decoding, DecAway, Stoppers, At

LEMMA HeapStep ==
  ASSUME Undisturbed
  PROVE  TypeOK /\ AloneInv /\ HeapInv /\ [Next]_vars => HeapInv'
<1> SUFFICES ASSUME PcTypeOK, DataTypeOK, AloneInv, HeapInv, [Next]_vars
             PROVE  HeapInv'
  BY DEF TypeOK
<1>1. CASE Pressing
  BY <1>1, MainKeepsHeap
<1>2. CASE Main
  BY <1>2, MainKeepsHeap, MainStopKeepsHeap DEF Main
<1>3. CASE \E d \in DecThreads : Decoder(d)
  BY <1>3, DecoderKeepsHeap
<1>4. CASE \E p \in PlayThreads : Playback(p)
  BY <1>4, PlaybackKeepsHeap, PlaybackStopKeepsHeap
<1>5. CASE UNCHANGED vars
  BY <1>5 DEF vars, ringVars, HeapInv, Decoding, DecAway, At
<1> QED
  BY <1>1, <1>2, <1>3, <1>4, <1>5 DEF Next, Exited

-----------------------------------------------------------------------------
LEMMA IndexTypes ==
  ASSUME DataTypeOK
  PROVE  /\ BUFNUM \in Nat \ {0}
         /\ ReadIdx \in 0 .. BUFNUM - 1
         /\ WriteIdx \in 0 .. BUFNUM - 1
  BY RingAssumption DEF DataTypeOK, RingTypeOK, Slots

(* The full slots lie from the read index on, and with room left none of    *)
(* them is the one of the write index.                                      *)
LEMMA SlotsApart ==
  ASSUME DataTypeOK, FullNum \in 0 .. BUFNUM, WriteIdx = SlotAt(FullNum)
  PROVE  /\ SlotAt(0) = ReadIdx
         /\ \A k \in 0 .. FullNum - 1 :
              /\ SlotAt(k) \in Slots
              /\ FullNum < BUFNUM => SlotAt(k) # WriteIdx
         /\ FullNum \in 1 .. BUFNUM - 1 => WriteIdx # ReadIdx
  BY IndexTypes DEF SlotAt, Slots

(* A step that leaves the ring alone, while a file is under way at least,   *)
(* and takes a thread to a slot only when it saw room or a full one.        *)
LEMMA SlotsStay ==
  ASSUME SlotInv,
         UNCHANGED <<ReadIdx, WriteIdx, FullNum, raced>>,
         \A d \in DecThreads : pc'[d] \in Filling => pc[d] \in Filling \/ FullNum < BUFNUM,
         \A p \in PlayThreads : pc'[p] \in Emptying => pc[p] \in Emptying \/ FullNum > 0,
         \A p \in PlayThreads : pc'[p] \in Pointing => pc[p] \in Pointing /\ held'[p] = held[p],
         UnderWay' => UnderWay /\ UNCHANGED Buf
  PROVE  SlotInv'
<1>1. \A k : SlotAt(k)' = SlotAt(k)
  BY DEF SlotAt
<1>2. CASE raced
  BY <1>2 DEF SlotInv
<1>3. CASE ~raced
  <2>1. (FullNum \in 0 .. BUFNUM /\ WriteIdx = SlotAt(FullNum))'
    BY <1>1, <1>3 DEF SlotInv
  <2>2. /\ \A d \in DecThreads : pc'[d] \in Filling => FullNum' < BUFNUM
        /\ \A p \in PlayThreads : pc'[p] \in Emptying => FullNum' > 0
    BY <1>3 DEF SlotInv
  <2>3. UnderWay' => \A k \in 0 .. FullNum' - 1 : Buf'[SlotAt(k)'] = "live"
    BY <1>1, <1>3 DEF SlotInv
  <2>4. \A p \in PlayThreads : pc'[p] \in Pointing => held'[p] = [slot |-> ReadIdx', block |-> "live"]
    BY <1>3 DEF SlotInv
  <2> QED
    BY <2>1, <2>2, <2>3, <2>4 DEF SlotInv
<1> QED
  BY <1>2, <1>3

LEMMA SlotInit == Init => SlotInv
<1> SUFFICES ASSUME Init
             PROVE  SlotInv
  OBVIOUS
<1>1. /\ \A d \in DecThreads : pc[d] = "off"
      /\ \A p \in PlayThreads : pc[p] = "off"
  BY PlayerAssumption DEF Init, Threads
<1>2. FullNum = 0 /\ WriteIdx = 0 /\ ReadIdx = 0
  BY DEF Init, RingInit
<1>3. FullNum \in 0 .. BUFNUM /\ WriteIdx = SlotAt(FullNum)
  BY <1>2, RingAssumption DEF SlotAt
<1> QED
  BY <1>1, <1>2, <1>3 DEF SlotInv, Filling, Emptying, Pointing

(* Main without AACPlayer_Stop. *)
LEMMA MainKeepsSlots ==
  ASSUME Undisturbed, PcTypeOK, AloneInv, SlotInv,
         Pressing \/ PlayingFile \/ Watch \/ Recheck \/ NextFile
           \/ PauseEnter \/ PauseSet \/ PauseWait
           \/ ResumeEnter \/ ResumeSet \/ ResumeWait
  PROVE  SlotInv'
<1>1. CASE PlayOpen
  <2>1. /\ \A d \in DecThreads : pc'[d] = "off"
        /\ \A p \in PlayThreads : pc'[p] = "off"
    BY <1>1, MainMoved DEF PlayOpen, AloneInv, MainInv, Beginning, DecAway, PlayAway, At
  <2>2. FullNum' = 0 /\ WriteIdx' = 0 /\ ReadIdx' = 0
    BY <1>1 DEF PlayOpen, ResetRing
  <2>3. (FullNum \in 0 .. BUFNUM /\ WriteIdx = SlotAt(FullNum))'
    BY <2>2, RingAssumption DEF SlotAt
  <2> QED
    BY <2>1, <2>2, <2>3 DEF SlotInv, Filling, Emptying, Pointing
<1>2. CASE PlaySpawn
  <2>1. PICK d \in DecThreads : At(d, "off") /\ pc' = [pc EXCEPT !["main"] = "charge", ![d] = "enter"]
    BY <1>2 DEF PlaySpawn
  <2>2. /\ pc'["main"] = "charge" /\ pc'[d] = "enter"
        /\ \A u \in DecThreads \cup PlayThreads : u # d => pc'[u] = pc[u]
    BY ONLY PcTypeOK, <2>1, Created
  <2>3. UNCHANGED <<ringVars, held>> /\ UnderWay
    BY <1>2 DEF PlaySpawn, UnderWay, At, locals, playLocals
  <2>4. \A p \in PlayThreads : pc'[p] = pc[p]
    BY <2>2, PlayerAssumption
  <2>5. \A e \in DecThreads : pc'[e] \in Filling => pc[e] \in Filling
    BY <2>2 DEF Filling
  <2> QED
    BY <2>3, <2>4, <2>5, SlotsStay DEF ringVars
<1>3. CASE PlaySpawnPlayback
  <2>1. PICK p \in PlayThreads :
          At(p, "off") /\ pc' = [pc EXCEPT !["main"] = IF result THEN "watch" ELSE "stop", ![p] = "enter"]
    BY <1>3 DEF PlaySpawnPlayback
  <2>2. /\ pc'[p] = "enter"
        /\ \A u \in DecThreads \cup PlayThreads : u # p => pc'[u] = pc[u]
    BY ONLY PcTypeOK, <2>1, Created
  <2>3. UNCHANGED <<ringVars, held>> /\ UnderWay
    BY <1>3 DEF PlaySpawnPlayback, UnderWay, Charging, At, locals, playLocals
  <2>4. \A d \in DecThreads : pc'[d] = pc[d]
    BY <2>2, PlayerAssumption
  <2>5. \A q \in PlayThreads :
          /\ pc'[q] \in Emptying => pc[q] \in Emptying
          /\ pc'[q] \in Pointing => pc[q] \in Pointing
    BY <2>2 DEF Emptying, Pointing
  <2> QED
    BY <2>3, <2>4, <2>5, SlotsStay DEF ringVars
<1>4. CASE ~(PlayOpen \/ PlaySpawn \/ PlaySpawnPlayback)
  <2>1. UNCHANGED <<ringVars, held>>
    BY <1>4 DEF Pressing, PlayingFile, KeyStop, KeySeek, KeyRight, PlayEnter, PlayBegin, PlayOpenFails,
         PlaySpawnFails, PlayCharge, PlayCharged, PlayNothing, PlaySpawnPlaybackFails, Watch, Recheck,
         NextFile, PauseEnter, PauseSet, PauseWait, ResumeEnter, ResumeSet, ResumeWait, locals, playLocals
  <2>2. \/ UNCHANGED pc
        \/ /\ \E l : Goto("main", l) /\ l # "spawn" /\ (l \in Charging => pc["main"] \in Charging)
    BY <1>4 DEF Pressing, PlayingFile, KeyStop, KeySeek, KeyRight, PlayEnter, PlayBegin, PlayOpenFails,
         PlaySpawnFails, PlayCharge, PlayCharged, PlayNothing, PlaySpawnPlaybackFails, Watch, Recheck,
         NextFile, PauseEnter, PauseSet, PauseWait, ResumeEnter, ResumeSet, ResumeWait, GiveUp, Charging, At
  <2>3. /\ \A d \in DecThreads : pc'[d] = pc[d]
        /\ \A p \in PlayThreads : pc'[p] = pc[p]
        /\ pc'["main"] \in {"spawn"} \cup Charging => pc["main"] \in {"spawn"} \cup Charging
    BY <2>2, MainMoved
  <2>4. UnderWay' => UnderWay
    BY <2>3 DEF UnderWay, DecAway
  <2> QED
    BY <2>1, <2>3, <2>4, SlotsStay DEF ringVars
<1> QED
  BY <1>1, <1>2, <1>3, <1>4

(* AACPlayer_Stop: when it frees the buffers no file is under way. *)
LEMMA StopKeepsSlots ==
  ASSUME PcTypeOK, AloneInv, SlotInv, NEW t \in Stoppers, Stop(t)
  PROVE  SlotInv'
<1>1. /\ UNCHANGED <<ReadIdx, WriteIdx, FullNum, raced>>
      /\ pc[t] \in StopPcs
      /\ \E l \in StopPcs \cup MainPcs \cup {"off"} :
           Goto(t, l) /\ (t # "main" => l \in StopPcs \cup {"off"}) /\ l \notin {"spawn"} \cup Charging
      /\ pc[t] \in {"stopfree", "stopclear"} \/ UNCHANGED <<Buf, held>>
  BY DEF Stop, StopEnter, StopWait, StopFree, StopClear, StopFile, StopEnd, StopPcs, MainPcs, Charging,
         At, ringVars, locals, playLocals
<1>2. CASE t = "main"
  <2>1. DecAway /\ PlayAway
    BY <1>1, <1>2 DEF AloneInv, MainInv
  <2>2. /\ \A d \in DecThreads : pc'[d] = "off"
        /\ \A p \in PlayThreads : pc'[p] = "off"
        /\ pc'["main"] \notin {"spawn"} \cup Charging
    BY <1>1, <1>2, <2>1, MainMoved DEF DecAway, PlayAway
  <2>3. ~UnderWay'
    BY <2>2 DEF UnderWay, DecAway
  <2> QED
    BY <1>1, <2>2, <2>3, SlotsStay DEF Filling, Emptying, Pointing
<1>3. CASE t \in PlayThreads
  <2>1. /\ pc'["main"] = pc["main"] /\ pc'[t] \in StopPcs \cup {"off"}
        /\ \A d \in DecThreads : pc'[d] = pc[d]
        /\ \A q \in PlayThreads : q # t => pc'[q] = pc[q]
    BY <1>1, <1>3, PlayerAssumption, PlaybackMoved
  <2>2. \A q \in PlayThreads : q # t => pc[q] = "off"
    BY <1>1, <1>3 DEF AloneInv, ThreadsInv, StopPcs
  <2>3. \A q \in PlayThreads : pc'[q] \in StopPcs \cup {"off"}
    BY <2>1, <2>2
  <2>4. pc["main"] \notin {"spawn"} \cup Charging
    BY <1>1, <1>3 DEF AloneInv, MainInv, PlayAway, Beginning, StopPcs
  <2>5. pc[t] \in {"stopfree", "stopclear"} => DecAway
    BY <1>3 DEF AloneInv, ThreadsInv, Leaving
  <2>6. UnderWay' => UnderWay /\ UNCHANGED Buf
    <3>1. UnderWay' => ~DecAway
      BY <2>1, <2>3, <2>4 DEF UnderWay, DecAway
    <3> QED
      BY <1>1, <2>5, <3>1 DEF UnderWay
  <2>7. \A q \in PlayThreads : pc'[q] \notin Emptying /\ pc'[q] \notin Pointing
    BY <2>3 DEF Emptying, Pointing, StopPcs
  <2> QED
    BY <1>1, <2>1, <2>6, <2>7, SlotsStay
<1> QED
  BY <1>2, <1>3 DEF Stoppers

(* A step of the decode thread at the slot it fills, whatever it does to    *)
(* the block there.                                                         *)
LEMMA DecoderFills ==
  ASSUME PcTypeOK, DataTypeOK, AloneInv, HeapInv, SlotInv, NEW d \in DecThreads,
         pc[d] \in Filling, NEW l, Goto(d, l), l \in Filling \cup {"end"},
         UNCHANGED <<ReadIdx, WriteIdx, FullNum, raced>>,
         \A i \in Slots : i # WriteIdx => Buf'[i] = Buf[i],
         UNCHANGED held \/ PointersDangle({WriteIdx})
  PROVE  SlotInv'
<1> SUFFICES ASSUME ~raced
             PROVE  SlotInv'
  BY DEF SlotInv
<1>1. /\ \A e \in DecThreads : e # d => pc'[e] = "off"
      /\ \A p \in PlayThreads : pc'[p] = pc[p]
  BY DecoderWorks DEF Filling
<1>2. FullNum \in 0 .. BUFNUM /\ WriteIdx = SlotAt(FullNum) /\ FullNum < BUFNUM
  BY DEF SlotInv
<1>3. \A k : SlotAt(k)' = SlotAt(k)
  BY DEF SlotAt
<1>4. UnderWay
  BY DEF UnderWay, DecAway, Filling
<1>5. \A k \in 0 .. FullNum - 1 : Buf'[SlotAt(k)] = "live"
  BY <1>2, <1>4, SlotsApart DEF SlotInv
<1>6. ASSUME NEW p \in PlayThreads, pc[p] \in Pointing
      PROVE  held'[p] = [slot |-> ReadIdx, block |-> "live"]
  <2>1. held[p] = [slot |-> ReadIdx, block |-> "live"] /\ FullNum > 0
    BY <1>6 DEF SlotInv, Pointing, Emptying
  <2>2. WriteIdx # ReadIdx
    <3>1. FullNum \in 1 .. BUFNUM - 1
      BY ONLY <1>2, <2>1, RingAssumption
    <3> QED
      BY <1>2, <3>1, SlotsApart
  <2> QED
    BY <2>1, <2>2 DEF PointersDangle
<1>7. \A p \in PlayThreads : pc[p] \in Emptying => FullNum > 0
  BY DEF SlotInv
<1> QED
  BY <1>1, <1>2, <1>3, <1>5, <1>6, <1>7 DEF SlotInv

LEMMA DecoderKeepsSlots ==
  ASSUME PcTypeOK, DataTypeOK, AloneInv, HeapInv, SlotInv, NEW d \in DecThreads, Decoder(d)
  PROVE  SlotInv'
<1>1. CASE DecGrow(d)
  <2>1. /\ pc[d] = "grow" /\ Goto(d, "grown")
        /\ UNCHANGED <<ReadIdx, WriteIdx, FullNum, raced>>
        /\ UNCHANGED held \/ PointersDangle({WriteIdx})
    BY <1>1 DEF DecGrow, FreeBlock, ringVars, At
  <2>2. \A i \in Slots : i # WriteIdx => Buf'[i] = Buf[i]
    BY <1>1 DEF DecGrow, FreeBlock, ringVars, DataTypeOK, RingTypeOK
  <2> QED
    BY <2>1, <2>2, DecoderFills DEF Filling
<1>2. CASE DecGrown(d)
  <2>1. /\ pc[d] = "grown" /\ Goto(d, "copy")
        /\ UNCHANGED <<ReadIdx, WriteIdx, FullNum, raced, held>>
    BY <1>2 DEF DecGrown, NewBlock, locals, playLocals, At
  <2>2. \A i \in Slots : i # WriteIdx => Buf'[i] = Buf[i]
    BY <1>2 DEF DecGrown, NewBlock, DataTypeOK, RingTypeOK
  <2> QED
    BY <2>1, <2>2, DecoderFills DEF Filling
<1>3. CASE DecNoMemory(d)
  <2>1. /\ pc[d] = "grow" /\ Goto(d, "end")
        /\ UNCHANGED <<ReadIdx, WriteIdx, FullNum, raced, held>>
    BY <1>3 DEF DecNoMemory, NoBlock, playLocals, At
  <2>2. \A i \in Slots : i # WriteIdx => Buf'[i] = Buf[i]
    BY <1>3 DEF DecNoMemory, NoBlock, DataTypeOK, RingTypeOK
  <2> QED
    BY <2>1, <2>2, DecoderFills DEF Filling
<1>4. CASE DecStore(d)
  <2>1. /\ pc[d] = "store"
        /\ FullNum' = reg[d] + 1 /\ WriteIdx' = NextIdx(WriteIdx) /\ UNCHANGED <<ReadIdx, Buf, held>>
        /\ raced' = (raced \/ FullNum # reg[d])
        /\ \E l \in {"loop", "end"} : Goto(d, l)
    BY <1>4 DEF DecStore, CommitSlot, playLocals, At
  <2> SUFFICES ASSUME ~raced'
               PROVE  SlotInv'
    BY DEF SlotInv
  <2>2. ~raced /\ FullNum = reg[d]
    BY <2>1, Zenon
  <2>3. /\ pc'[d] \in {"loop", "end"}
        /\ \A e \in DecThreads : e # d => pc'[e] = "off"
        /\ \A p \in PlayThreads : pc'[p] = pc[p]
    BY <2>1, DecoderWorks
  <2>4. FullNum \in 0 .. BUFNUM /\ WriteIdx = SlotAt(FullNum) /\ FullNum < BUFNUM
    BY <2>1, <2>2 DEF SlotInv, Filling
  <2>5. FullNum' \in 1 .. BUFNUM /\ FullNum' - 1 = FullNum
    BY <2>1, <2>2, <2>4, RingAssumption
  <2>6. \A k : SlotAt(k)' = SlotAt(k)
    BY <2>1 DEF SlotAt
  <2>7. WriteIdx' = SlotAt(FullNum')
    BY <2>1, <2>2, <2>4, IndexTypes DEF SlotAt, NextIdx
  <2>8. Buf[WriteIdx] = "live" /\ UnderWay
    BY <2>1 DEF HeapInv, UnderWay, DecAway
  <2>9. \A k \in 0 .. FullNum' - 1 : Buf[SlotAt(k)] = "live"
    <3>1. \A k \in 0 .. FullNum' - 1 : (k \in 0 .. FullNum - 1) \/ k = FullNum
      <4>1. FullNum \in Int /\ FullNum' = FullNum + 1
        BY <2>1, <2>2, <2>4, RingAssumption
      <4> QED
        BY ONLY <4>1
    <3>2. \A k \in 0 .. FullNum - 1 : Buf[SlotAt(k)] = "live"
      BY <2>2, <2>8 DEF SlotInv
    <3>3. Buf[SlotAt(FullNum)] = "live"
      BY <2>4, <2>8
    <3> QED
      BY ONLY <3>1, <3>2, <3>3
  <2>10. \A p \in PlayThreads : pc[p] \in Pointing => held[p] = [slot |-> ReadIdx, block |-> "live"]
    BY <2>2 DEF SlotInv
  <2> QED
    BY ONLY <2>1, <2>3, <2>5, <2>6, <2>7, <2>9, <2>10, RingAssumption DEF SlotInv, Filling
<1>5. CASE ~(DecGrow(d) \/ DecGrown(d) \/ DecNoMemory(d) \/ DecStore(d))
  <2>1. UNCHANGED <<ReadIdx, WriteIdx, FullNum, Buf, raced, held>>
    BY <1>5 DEF Decoder, DecEnter, DecEnd, DecInit, DecLoop, DecFails, DecEmpty, DecRunsOut, DecFrame,
         DecCopy, DecLoad, SizeSlot, ringVars, locals, playLocals
  <2>2. pc[d] # "off" /\ \E l : Goto(d, l) /\ (l \in Filling => pc[d] \in Filling \/ FullNum < BUFNUM)
    BY <1>5 DEF Decoder, DecEnter, DecEnd, DecInit, DecLoop, DecFails, DecEmpty, DecRunsOut, DecFrame,
         DecCopy, DecLoad, Filling, At
  <2>3. /\ pc'[d] \in Filling => pc[d] \in Filling \/ FullNum < BUFNUM
        /\ \A e \in DecThreads : e # d => pc'[e] = pc[e]
        /\ \A p \in PlayThreads : pc'[p] = pc[p]
    BY <2>2, DecoderMoved
  <2>4. UnderWay
    BY <2>2 DEF UnderWay, DecAway
  <2> QED
    BY <2>1, <2>3, <2>4, SlotsStay
<1> QED
  BY <1>1, <1>2, <1>3, <1>4, <1>5

LEMMA PlaybackKeepsSlots ==
  ASSUME PcTypeOK, DataTypeOK, AloneInv, SlotInv, NEW p \in PlayThreads, Playback(p), ~Stop(p)
  PROVE  SlotInv'
<1>1. CASE PlaybackTake(p)
  <2>1. /\ pc[p] = "take" /\ Goto(p, "size")
        /\ held' = [held EXCEPT ![p] = [slot |-> ReadIdx, block |-> Buf[ReadIdx]]]
        /\ UNCHANGED <<ReadIdx, WriteIdx, FullNum, Buf, raced>>
    BY <1>1 DEF PlaybackTake, ringVars, At
  <2> SUFFICES ASSUME ~raced
               PROVE  SlotInv'
    BY <2>1 DEF SlotInv
  <2>2. /\ pc'[p] = "size" /\ pc'["main"] = pc["main"]
        /\ \A q \in PlayThreads : q # p => pc'[q] = pc[q]
        /\ \A d \in DecThreads : pc'[d] = pc[d]
    BY <2>1, PlaybackMoved
  <2>3. \A q \in PlayThreads : q # p => pc[q] = "off"
    BY <2>1 DEF AloneInv, ThreadsInv
  <2>4. FullNum \in 0 .. BUFNUM /\ WriteIdx = SlotAt(FullNum) /\ FullNum > 0
    BY <2>1 DEF SlotInv, Emptying
  <2>5. UnderWay
    BY <2>1 DEF UnderWay, StopPcs
  <2>6. Buf[ReadIdx] = "live"
    <3>1. SlotAt(0) = ReadIdx /\ 0 \in 0 .. FullNum - 1
      BY <2>4, SlotsApart, RingAssumption
    <3> QED
      BY <2>5, <3>1 DEF SlotInv
  <2>7. held'[p] = [slot |-> ReadIdx, block |-> "live"]
    BY <2>1, <2>6 DEF DataTypeOK
  <2>8. \A k : SlotAt(k)' = SlotAt(k)
    BY <2>1 DEF SlotAt
  <2> QED
    BY <2>1, <2>2, <2>3, <2>4, <2>5, <2>7, <2>8 DEF SlotInv, Pointing, Emptying
<1>2. CASE PlaybackStore(p)
  <2>1. /\ pc[p] = "store" /\ Goto(p, "cmd")
        /\ FullNum' = reg[p] - 1 /\ ReadIdx' = NextIdx(ReadIdx) /\ UNCHANGED <<WriteIdx, Buf, held>>
        /\ raced' = (raced \/ FullNum # reg[p])
    BY <1>2 DEF PlaybackStore, ReleaseSlot, playLocals, At
  <2> SUFFICES ASSUME ~raced'
               PROVE  SlotInv'
    BY DEF SlotInv
  <2>2. ~raced /\ FullNum = reg[p]
    BY <2>1, Zenon
  <2>3. /\ pc'[p] = "cmd" /\ pc'["main"] = pc["main"]
        /\ \A q \in PlayThreads : q # p => pc'[q] = pc[q]
        /\ \A d \in DecThreads : pc'[d] = pc[d]
    BY <2>1, PlaybackMoved
  <2>4. \A q \in PlayThreads : q # p => pc[q] = "off"
    BY <2>1 DEF AloneInv, ThreadsInv
  <2>5. FullNum \in 0 .. BUFNUM /\ WriteIdx = SlotAt(FullNum) /\ FullNum > 0
    BY <2>1, <2>2 DEF SlotInv, Emptying
  <2>6. FullNum' \in 0 .. BUFNUM - 1 /\ FullNum' = FullNum - 1
    BY <2>1, <2>2, <2>5, RingAssumption
  <2>7. \A k \in 0 .. FullNum' : SlotAt(k)' = SlotAt(k + 1)
    BY <2>1, <2>5, <2>6, IndexTypes DEF SlotAt, NextIdx
  <2>8. WriteIdx' = SlotAt(FullNum)'
    <3>1. FullNum' \in 0 .. FullNum' /\ FullNum' + 1 = FullNum
      BY <2>5, <2>6, RingAssumption
    <3>2. SlotAt(FullNum)' = SlotAt(FullNum)
      BY <2>1, <2>5, <2>6, IndexTypes DEF SlotAt, NextIdx
    <3> QED
      BY <2>1, <2>5, <3>2
  <2>9. UnderWay
    BY <2>1 DEF UnderWay, StopPcs
  <2>10. \A k \in 0 .. FullNum' - 1 : Buf'[SlotAt(k)'] = "live"
    <3>1. \A k \in 0 .. FullNum' - 1 : k \in 0 .. FullNum' /\ k + 1 \in 0 .. FullNum - 1
      BY <2>5, <2>6, RingAssumption
    <3>2. \A k \in 0 .. FullNum - 1 : Buf[SlotAt(k)] = "live"
      BY <2>2, <2>9 DEF SlotInv
    <3> QED
      BY <2>1, <2>7, <3>1, <3>2
  <2>11. \A q \in PlayThreads : pc'[q] \in {"off", "cmd"}
    BY <2>3, <2>4
  <2>12. FullNum' \in 0 .. BUFNUM /\ FullNum' < BUFNUM
    BY <2>6, RingAssumption
  <2> QED
    BY <2>8, <2>10, <2>11, <2>12 DEF SlotInv, Pointing, Emptying
<1>3. CASE ~(PlaybackTake(p) \/ PlaybackStore(p))
  <2>1. UNCHANGED <<ReadIdx, WriteIdx, FullNum, Buf, raced>>
    BY <1>3 DEF Playback, PlaybackEnter, PlaybackOpen, PlaybackPauses, PlaybackPaused, PlaybackResumes,
         PlaybackResumed, PlaybackCmd, PlaybackFill, PlaybackAlive, PlaybackSize, PlaybackSlotDone,
         PlaybackWrite, PlaybackWriteFails, PlaybackSub, PlaybackSubst, PlaybackLoad, PlaybackClose,
         PlaybackEnd, CountDown, ringVars
  <2>2. /\ pc[p] \notin {"off"} \cup StopPcs
        /\ \E l : /\ Goto(p, l)
                  /\ l \in Emptying => pc[p] \in Emptying \/ FullNum > 0
                  /\ l \in Pointing => pc[p] \in Pointing /\ UNCHANGED held
    BY <1>3 DEF Playback, PlaybackEnter, PlaybackOpen, PlaybackPauses, PlaybackPaused, PlaybackResumes,
         PlaybackResumed, PlaybackCmd, PlaybackFill, PlaybackAlive, PlaybackSize, PlaybackSlotDone,
         PlaybackWrite, PlaybackWriteFails, PlaybackSub, PlaybackSubst, PlaybackLoad, PlaybackClose,
         PlaybackEnd, Emptying, Pointing, StopPcs, locals, playLocals, At
  <2>3. /\ pc'[p] \in Emptying => pc[p] \in Emptying \/ FullNum > 0
        /\ pc'[p] \in Pointing => pc[p] \in Pointing /\ UNCHANGED held
        /\ \A q \in PlayThreads : q # p => pc'[q] = pc[q]
        /\ \A d \in DecThreads : pc'[d] = pc[d]
    BY <2>2, PlaybackMoved
  <2>4. \A q \in PlayThreads : q # p => pc'[q] = "off"
    BY <2>2, <2>3 DEF AloneInv, ThreadsInv
  <2>5. UnderWay
    BY <2>2 DEF UnderWay
  <2>6. \A q \in PlayThreads :
          /\ pc'[q] \in Emptying => pc[q] \in Emptying \/ FullNum > 0
          /\ pc'[q] \in Pointing => pc[q] \in Pointing /\ held'[q] = held[q]
    BY <2>3, <2>4 DEF Emptying, Pointing
  <2> QED
    BY <2>1, <2>3, <2>5, <2>6, SlotsStay
<1> QED
  BY <1>1, <1>2, <1>3

LEMMA SlotStep ==
  ASSUME Undisturbed
  PROVE  TypeOK /\ AloneInv /\ HeapInv /\ SlotInv /\ [Next]_vars => SlotInv'
<1> SUFFICES ASSUME PcTypeOK, DataTypeOK, AloneInv, HeapInv, SlotInv, [Next]_vars
             PROVE  SlotInv'
  BY DEF TypeOK
<1>1. CASE Pressing
  BY <1>1, MainKeepsSlots
<1>2. CASE Main
  BY <1>2, MainKeepsSlots, StopKeepsSlots DEF Main, Stoppers
<1>3. CASE \E d \in DecThreads : Decoder(d)
  BY <1>3, DecoderKeepsSlots
<1>4. CASE \E p \in PlayThreads : Playback(p)
  BY <1>4, PlaybackKeepsSlots, StopKeepsSlots DEF Stoppers
<1>5. CASE UNCHANGED vars
  <2>1. UNCHANGED <<ReadIdx, WriteIdx, FullNum, Buf, raced, held, pc>>
    BY <1>5 DEF vars, ringVars, locals, playLocals
  <2>2. UnderWay' = UnderWay
    BY <2>1 DEF UnderWay, DecAway
  <2> QED
    BY <2>1, <2>2, SlotsStay
<1> QED
  BY <1>1, <1>2, <1>3, <1>4, <1>5 DEF Next, Exited
-----------------------------------------------------------------------------
LEMMA Valid == TypeOK /\ AloneInv /\ HeapInv /\ SlotInv => ResourcesValid
<1> SUFFICES ASSUME PcTypeOK, DataTypeOK, AloneInv, HeapInv, SlotInv
             PROVE  ResourcesValid
  BY DEF TypeOK
<1>1. ASSUME NEW d \in DecThreads, pc[d] # "off"
      PROVE  file = "open" /\ \A i \in Slots : Buf[i] = "freed" => pc[d] = "grown"
  <2>1. /\ \A e \in DecThreads : e # d => pc[e] = "off"
        /\ \A t \in Stoppers : pc[t] \notin Leaving
        /\ ~DecAway
    BY <1>1 DEF AloneInv, ThreadsInv, MainInv, DecAway, Stoppers, StopPcs, Leaving
  <2> QED
    BY <2>1 DEF HeapInv, Leaving, At
<1>2. ASSUME NEW d \in DecThreads
      PROVE  /\ At(d, "grow") => Buf[WriteIdx] # "freed"
             /\ At(d, "copy") => Buf[WriteIdx] = "live"
             /\ pc[d] \in {"init", "decode"} => file = "open"
  <2>1. WriteIdx \in Slots
    BY DEF DataTypeOK, RingTypeOK
  <2> QED
    BY <1>1, <2>1 DEF HeapInv, At
<1>3. ASSUME NEW p \in PlayThreads, At(p, "write"), ~raced
      PROVE  held[p].block = "live"
  BY <1>3 DEF SlotInv, Pointing, At
<1>4. ASSUME NEW t \in Stoppers, pc[t] \in {"stopfree", "stopclear"}
      PROVE  DecAway /\ \A u \in Stoppers : u # t => pc[u] \notin Leaving
  <2>1. CASE t = "main"
    BY <1>4, <2>1 DEF AloneInv, MainInv, PlayAway, Stoppers, StopPcs, Leaving
  <2>2. CASE t \in PlayThreads
    <3>1. DecAway /\ \A q \in PlayThreads : q # t => pc[q] = "off"
      BY <1>4, <2>2 DEF AloneInv, ThreadsInv, Leaving
    <3>2. pc["main"] \notin StopPcs
      BY <1>4, <2>2 DEF AloneInv, MainInv, PlayAway
    <3> QED
      BY <3>1, <3>2 DEF Stoppers, StopPcs, Leaving
  <2> QED
    BY <2>1, <2>2 DEF Stoppers
<1>5. ASSUME NEW t \in Stoppers
      PROVE  /\ At(t, "stopfree") => \A i \in Slots : Buf[i] # "freed"
             /\ At(t, "stopclear") => file # "closed"
  BY <1>4 DEF HeapInv, DecAway, Leaving, At
<1> QED
  BY <1>2, <1>3, <1>5 DEF ResourcesValid

(* The decode thread and AACPlayer_Stop use no buffer that was freed and no *)
(* file that was closed, nothing is freed or closed twice, and until an     *)
(* update of the count is lost no write() reads a block that realloc() or   *)
(* free() took away.                                                        *)
THEOREM AlwaysResourcesValid ==
  ASSUME Undisturbed
  PROVE  Spec => []ResourcesValid
<1>1. Init => AloneInv /\ HeapInv /\ SlotInv
  BY AloneInit, HeapInit, SlotInit
<1>2. TypeOK /\ AloneInv /\ HeapInv /\ SlotInv /\ [Next]_vars => (AloneInv /\ HeapInv /\ SlotInv)'
  BY AloneStep, HeapStep, SlotStep
<1>3. TypeOK /\ AloneInv /\ HeapInv /\ SlotInv => ResourcesValid
  BY Valid
<1> QED
  BY <1>1, <1>2, <1>3, PlayerTypeCorrect, PTL DEF Spec
=============================================================================
