----------------------------- MODULE AACPlayer ------------------------------
(***************************************************************************)
(* The AAC player: the main thread of AACPlayer.c with its keypad loop,    *)
(* the agent functions it calls (AACPlayer_Agent.c), and the decode and    *)
(* playback threads the agent creates for every file.                      *)
(*                                                                         *)
(* A step is one access to what the threads share, or a locked section in  *)
(* which nothing else is decided.  The mutex is taken and given back as    *)
(* the code does it, which includes giving it back without holding it:     *)
(* main's keypad loop (lines 156 and 254 after the first round),           *)
(* AACPlayer_Resume (263, 267) and AACPlayer_Stop (337 after the wait)     *)
(* unlock a mutex they have not locked, and a default mutex lets them.     *)
(*                                                                         *)
(* AACPlayer_Stop is run by main and, when a file ends, by the playback    *)
(* thread on itself; its steps take the thread as parameter.               *)
(***************************************************************************)
EXTENDS DecFrameRing, FiniteSets

CONSTANTS
  DecThreads,   (* the threads pthread_create can give a decoder to        *)
  PlayThreads,  (* the threads it can give a player to                     *)
  NumFiles,     (* i32FileNumInDir; 0 stands for a single file (-1 there)  *)
  Keys,         (* what the user may press: "prev", "next", "right",       *)
                (* "home", and long presses "forward", "backward"          *)
  Faults        (* what may fail: "fopen", "thread", "init", "decode",     *)
                (* "realloc", "dsp", "blksize", "write"                    *)

ASSUME PlayerAssumption ==
  /\ DecThreads # {}
  /\ PlayThreads # {}
  /\ DecThreads \cap PlayThreads = {}
  /\ "main" \notin DecThreads \cup PlayThreads
  /\ "none" \notin DecThreads \cup PlayThreads
  /\ NumFiles \in Nat

Threads == {"main"} \cup DecThreads \cup PlayThreads

VARIABLES
  state,      (* g_eAACPlayer_State                                        *)
  owner,      (* the holder of g_sPlayerStateMutex, or "none"              *)
  decAlive,   (* s_bDecodeThread_Alive                                     *)
  playAlive,  (* s_bPlaybackThread_Alive                                   *)
  file,       (* s_psAACFile: NULL, an open file, or one already closed    *)
  dev,        (* whether s_i32DevDSP is an open device                     *)
  blk,        (* whether s_i32DevDSP_BlockSize is positive                 *)
  pc,         (* where each thread is                                      *)
  reg,        (* what a thread loaded from FullNum or a PCMSize            *)
  goOn,       (* bContinueDecode of each decode thread                     *)
  dsize,      (* i32DecodedSize of each decode thread                      *)
  held,       (* pcDecodedPCM of each playback thread: the slot it was     *)
              (* taken from, and the block it points to                    *)
  fill,       (* i32FillBytes of each playback thread                      *)
  result,     (* bResult of AACPlayer_PlayFile                             *)
  back,       (* why main called AACPlayer_Stop                            *)
  idx         (* i32PlayFileIdx, modulo NumFiles                           *)

ctl    == <<state, owner, decAlive, playAlive>>
device == <<dev, blk>>
decLocals  == <<goOn, dsize>>
playLocals == <<held, fill>>
locals == <<reg, decLocals, playLocals>>
mine   == <<result, back, idx>>

vars == <<ringVars, ctl, file, device, pc, locals, mine>>

States == {"stopped", "playing", "paused", "topause", "toresume", "tostop"}

StopPcs == {"stop", "stopwait", "stopfree", "stopclear", "stopfile", "stopend"}

MainPcs == {"play", "begin", "open", "spawn", "charge", "charged", "spawnplay",
            "watch", "poll", "recheck", "nextfile", "pause", "pauseset",
            "pausewait", "resume", "resumeset", "resumewait", "exit"}

DecPcs == {"off", "enter", "quit", "init", "loop", "decode", "grow", "grown", "copy",
           "load", "store", "end"}

PlayPcs == {"off", "enter", "open", "cmd", "paused", "resume", "fill", "alive", "take",
            "size", "write", "sub", "subst", "load", "store", "close", "end"}

NoPointer == [slot |-> 0, block |-> "null"]

PcTypeOK ==
  /\ pc \in [Threads -> MainPcs \cup DecPcs \cup PlayPcs \cup StopPcs]
  /\ pc["main"] \in MainPcs \cup StopPcs
  /\ \A d \in DecThreads : pc[d] \in DecPcs
  /\ \A p \in PlayThreads : pc[p] \in PlayPcs \cup StopPcs

DataTypeOK ==
  /\ RingTypeOK
  /\ state \in States
  /\ owner \in Threads \cup {"none"}
  /\ decAlive \in BOOLEAN
  /\ playAlive \in BOOLEAN
  /\ file \in {"null", "open", "closed"}
  /\ dev \in BOOLEAN
  /\ blk \in BOOLEAN
  /\ reg \in [DecThreads \cup PlayThreads -> Int]
  /\ goOn \in [DecThreads -> BOOLEAN]
  /\ dsize \in [DecThreads -> 0 .. MaxSize]
  /\ held \in [PlayThreads -> [slot : Slots, block : Blocks]]
  /\ fill \in [PlayThreads -> Nat]
  /\ result \in BOOLEAN
  /\ back \in {"fail", "prev", "next", "forward", "home"}
  /\ idx \in 0 .. IF NumFiles = 0 THEN 0 ELSE NumFiles - 1

TypeOK == DataTypeOK /\ PcTypeOK

(* A playback thread that has seen a full slot and not released it. *)
Emptying == {"take", "size", "write", "sub", "subst", "load", "store"}

Init ==
  /\ RingInit
  /\ state = "stopped"
  /\ owner = "none"
  /\ decAlive = FALSE
  /\ playAlive = FALSE
  /\ file = "null"
  /\ dev = FALSE
  /\ blk = FALSE
  /\ pc = [t \in Threads |-> IF t = "main" THEN "play" ELSE "off"]
  /\ reg = [t \in DecThreads \cup PlayThreads |-> 0]
  /\ goOn = [d \in DecThreads |-> TRUE]
  /\ dsize = [d \in DecThreads |-> 0]
  /\ held = [p \in PlayThreads |-> NoPointer]
  /\ fill = [p \in PlayThreads |-> 0]
  /\ result = TRUE
  /\ back = "fail"
  /\ idx = 0

At(t, l) == pc[t] = l

Goto(t, l) == pc' = [pc EXCEPT ![t] = l]

MutexFree == owner = "none"
-----------------------------------------------------------------------------
(* AACPlayer_PlayFile                                                      *)

(* Locked: refuse unless stopped. *)
PlayEnter ==
  /\ At("main", "play")
  /\ MutexFree
  /\ IF state = "stopped"
     THEN owner' = "main" /\ Goto("main", "begin")
     ELSE UNCHANGED owner /\ Goto("main", "nextfile")
  /\ UNCHANGED <<ringVars, state, decAlive, playAlive, file, device, locals, mine>>

(* "Immediately change state to avoid reentry", and unlock. *)
PlayBegin ==
  /\ At("main", "begin")
  /\ state' = "playing"
  /\ owner' = "none"
  /\ result' = TRUE
  /\ Goto("main", "open")
  /\ UNCHANGED <<ringVars, decAlive, playAlive, file, device, locals, back, idx>>

(* The end of AACPlayer_PlayFile when bResult is false. *)
GiveUp ==
  /\ result' = FALSE
  /\ back' = "fail"
  /\ Goto("main", "stop")
  /\ UNCHANGED idx

PlayOpen ==
  /\ At("main", "open")
  /\ file' = "open"
  /\ ResetRing
  /\ Goto("main", "spawn")
  /\ UNCHANGED <<ctl, device, locals, mine>>

PlayOpenFails ==
  /\ At("main", "open")
  /\ "fopen" \in Faults
  /\ file' = "null"
  /\ GiveUp
  /\ UNCHANGED <<ringVars, ctl, device, locals>>

(* The alive flag is set before the thread exists, so that the precharge    *)
(* loop waits for it.                                                       *)
PlaySpawn ==
  /\ At("main", "spawn")
  /\ decAlive' = TRUE
  /\ \E d \in DecThreads :
       /\ At(d, "off")
       /\ pc' = [pc EXCEPT !["main"] = "charge", ![d] = "enter"]
  /\ UNCHANGED <<ringVars, state, owner, playAlive, file, device, locals, mine>>

(* pthread_create fails, surely so when no thread is left. *)
PlaySpawnFails ==
  /\ At("main", "spawn")
  /\ "thread" \in Faults \/ \A d \in DecThreads : ~At(d, "off")
  /\ decAlive' = FALSE
  /\ GiveUp
  /\ UNCHANGED <<ringVars, state, owner, playAlive, file, device, locals>>

PlayCharge ==
  /\ At("main", "charge")
  /\ ~decAlive \/ FullNum >= BUFNUM
  /\ Goto("main", "charged")
  /\ UNCHANGED <<ringVars, ctl, file, device, locals, mine>>

(* Something was decoded: the playback thread is to be created, its flag    *)
(* still false.  The lock is taken and given back around a debug message.   *)
PlayCharged ==
  /\ At("main", "charged")
  /\ FullNum > 0
  /\ MutexFree
  /\ playAlive' = FALSE
  /\ Goto("main", "spawnplay")
  /\ UNCHANGED <<ringVars, state, owner, decAlive, file, device, locals, mine>>

PlayNothing ==
  /\ At("main", "charged")
  /\ FullNum <= 0
  /\ MutexFree
  /\ GiveUp
  /\ UNCHANGED <<ringVars, ctl, file, device, locals>>

(* The thread is created; an earlier failure of the same loop still stops   *)
(* the player.                                                              *)
PlaySpawnPlayback ==
  /\ At("main", "spawnplay")
  /\ \E p \in PlayThreads :
       /\ At(p, "off")
       /\ pc' = [pc EXCEPT !["main"] = IF result THEN "watch" ELSE "stop",
                           ![p] = "enter"]
  /\ back' = IF result THEN back ELSE "fail"
  /\ UNCHANGED <<ringVars, ctl, file, device, locals, result, idx>>

PlaySpawnPlaybackFails ==
  /\ At("main", "spawnplay")
  /\ "thread" \in Faults \/ \A p \in PlayThreads : ~At(p, "off")
  /\ result' = FALSE
  /\ UNCHANGED <<ringVars, ctl, file, device, pc, locals, back, idx>>
-----------------------------------------------------------------------------
(* main: the loop over the keypad while the player is not stopped          *)

(* The first look at the state, under the lock. *)
Watch ==
  /\ At("main", "watch")
  /\ MutexFree
  /\ Goto("main", IF state = "stopped" THEN "nextfile" ELSE "poll")
  /\ UNCHANGED <<ringVars, ctl, file, device, locals, mine>>

(* Every later look is without the lock, and is followed by an unlock: the  *)
(* round without a key, and the return from a key's handler.                *)
Recheck ==
  /\ pc["main"] \in {"poll", "recheck"}
  /\ owner' = "none"
  /\ Goto("main", IF state = "stopped" THEN "nextfile" ELSE "poll")
  /\ UNCHANGED <<ringVars, state, decAlive, playAlive, file, device, locals, mine>>

(* A single file ends the program, a directory goes round. *)
NextFile ==
  /\ At("main", "nextfile")
  /\ IF NumFiles = 0
     THEN Goto("main", "exit") /\ UNCHANGED idx
     ELSE Goto("main", "play") /\ idx' = (idx + 1) % NumFiles
  /\ UNCHANGED <<ringVars, ctl, file, device, locals, result, back>>

(* UP, DOWN or HOME released after a short press: AACPlayer_Stop. *)
KeyStop(k) ==
  /\ At("main", "poll")
  /\ k \in Keys
  /\ back' = k
  /\ Goto("main", "stop")
  /\ UNCHANGED <<ringVars, ctl, file, device, locals, result, idx>>

(* UP or DOWN after a long press: AACPlayer_Seek.  A seek that is accepted  *)
(* moves the decoder library's position; one past the end stops the player. *)
KeySeek(k) ==
  /\ At("main", "poll")
  /\ k \in Keys
  /\ MutexFree
  /\ \/ Goto("main", "recheck") /\ UNCHANGED back
     \/ /\ k = "forward" /\ state = "playing"
        /\ Goto("main", "stop") /\ back' = k
  /\ UNCHANGED <<ringVars, ctl, file, device, locals, result, idx>>

(* RIGHT released: pause when playing, else resume. *)
KeyRight ==
  /\ At("main", "poll")
  /\ "right" \in Keys
  /\ MutexFree
  /\ Goto("main", IF state = "playing" THEN "pause" ELSE "resume")
  /\ UNCHANGED <<ringVars, ctl, file, device, locals, mine>>

PauseEnter ==
  /\ At("main", "pause")
  /\ MutexFree
  /\ IF state = "playing"
     THEN owner' = "main" /\ Goto("main", "pauseset")
     ELSE UNCHANGED owner /\ Goto("main", "recheck")
  /\ UNCHANGED <<ringVars, state, decAlive, playAlive, file, device, locals, mine>>

PauseSet ==
  /\ At("main", "pauseset")
  /\ state' = "topause"
  /\ owner' = "none"
  /\ Goto("main", "pausewait")
  /\ UNCHANGED <<ringVars, decAlive, playAlive, file, device, locals, mine>>

(* "Wait for playback thread suspended", under the lock. *)
PauseWait ==
  /\ At("main", "pausewait")
  /\ MutexFree
  /\ state = "paused"
  /\ Goto("main", "recheck")
  /\ UNCHANGED <<ringVars, ctl, file, device, locals, mine>>

ResumeEnter ==
  /\ At("main", "resume")
  /\ MutexFree
  /\ IF state = "paused"
     THEN owner' = "main" /\ Goto("main", "resumeset")
     ELSE UNCHANGED owner /\ Goto("main", "recheck")
  /\ UNCHANGED <<ringVars, state, decAlive, playAlive, file, device, locals, mine>>

ResumeSet ==
  /\ At("main", "resumeset")
  /\ state' = "toresume"
  /\ owner' = "none"
  /\ Goto("main", "resumewait")
  /\ UNCHANGED <<ringVars, decAlive, playAlive, file, device, locals, mine>>

(* "Wait for playback thread resumed": every look, made without the lock,   *)
(* ends in an unlock.                                                       *)
ResumeWait ==
  /\ At("main", "resumewait")
  /\ owner' = "none"
  /\ Goto("main", IF state = "playing" THEN "recheck" ELSE "resumewait")
  /\ UNCHANGED <<ringVars, state, decAlive, playAlive, file, device, locals, mine>>
-----------------------------------------------------------------------------
(* AACPlayer_Stop, run by main or by a playback thread                     *)

Stoppers == {"main"} \cup PlayThreads

StopEnter(t) ==
  /\ At(t, "stop")
  /\ MutexFree
  /\ IF decAlive \/ playAlive
     THEN state' = "tostop" /\ UNCHANGED owner /\ Goto(t, "stopwait")
     ELSE owner' = t /\ UNCHANGED state /\ Goto(t, "stopfree")
  /\ UNCHANGED <<ringVars, decAlive, playAlive, file, device, locals, mine>>

(* Mutated form of StopWait: only the playback thread is waited for. *)
StopWaitPlaybackOnly(t) ==
  /\ At(t, "stopwait")
  /\ ~playAlive
  /\ Goto(t, "stopfree")
  /\ UNCHANGED <<ringVars, ctl, file, device, locals, mine>>

(* "Wait for decode and playback threads terminated": for their flags. *)
StopWait(t) ==
  /\ At(t, "stopwait")
  /\ ~decAlive /\ ~playAlive
  /\ Goto(t, "stopfree")
  /\ UNCHANGED <<ringVars, ctl, file, device, locals, mine>>

(* The blocks of a set of slots are given back: whoever points to one is    *)
(* left with a dangling pointer.                                            *)
PointersDangle(S) ==
  held' = [p \in PlayThreads |->
             IF held[p].slot \in S /\ held[p].block = "live"
             THEN [held[p] EXCEPT !.block = "freed"]
             ELSE held[p]]

(* Unlock, held or not, and free every buffer whose pointer is not NULL.    *)
StopFree(t) ==
  /\ At(t, "stopfree")
  /\ owner' = "none"
  /\ Buf' = [i \in Slots |-> IF Buf[i] = "null" THEN "null" ELSE "freed"]
  /\ BufSize' = [i \in Slots |-> 0]
  /\ PointersDangle(Slots)
  /\ Goto(t, "stopclear")
  /\ UNCHANGED <<ReadIdx, WriteIdx, FullNum, PCMSize, raced, state, decAlive, playAlive,
                 file, device, reg, decLocals, fill, mine>>

(* Mutated form of StopClear: the pointers are left dangling. *)
StopClearDangling(t) ==
  /\ At(t, "stopclear")
  /\ file' = IF file = "null" THEN "null" ELSE "closed"
  /\ Goto(t, IF file = "null" THEN "stopend" ELSE "stopfile")
  /\ UNCHANGED <<ringVars, ctl, device, locals, mine>>

(* The pointers are set to NULL after the free; then the file is closed if  *)
(* there is one.                                                            *)
StopClear(t) ==
  /\ At(t, "stopclear")
  /\ Buf' = [i \in Slots |-> IF Buf[i] = "freed" THEN "null" ELSE Buf[i]]
  /\ file' = IF file = "null" THEN "null" ELSE "closed"
  /\ Goto(t, IF file = "null" THEN "stopend" ELSE "stopfile")
  /\ UNCHANGED <<ReadIdx, WriteIdx, FullNum, PCMSize, BufSize, raced, ctl, device, locals,
                 mine>>

StopFile(t) ==
  /\ At(t, "stopfile")
  /\ file' = "null"
  /\ Goto(t, "stopend")
  /\ UNCHANGED <<ringVars, ctl, device, locals, mine>>

(* Locked: stopped.  A playback thread ends here; main goes on with what    *)
(* made it stop, and "previous" steps the file index back by two first.     *)
StopEnd(t) ==
  /\ At(t, "stopend")
  /\ MutexFree
  /\ state' = "stopped"
  /\ Goto(t, IF t # "main" THEN "off"
             ELSE CASE back = "fail" -> "nextfile"
                    [] back = "home" -> "exit"
                    [] OTHER -> "recheck")
  /\ idx' = IF t = "main" /\ back = "prev" /\ NumFiles > 0
            THEN (idx + 2 * NumFiles - 2) % NumFiles
            ELSE idx
  /\ UNCHANGED <<ringVars, owner, decAlive, playAlive, file, device, locals, result, back>>

Stop(t) ==
  StopEnter(t) \/ StopWait(t) \/ StopFree(t) \/ StopClear(t) \/ StopFile(t) \/ StopEnd(t)
-----------------------------------------------------------------------------
(* s_DecodeThread                                                          *)

DecEnter(d) ==
  /\ At(d, "enter")
  /\ MutexFree
  /\ decAlive' = TRUE
  /\ Goto(d, IF state = "playing" THEN "init" ELSE "quit")
  /\ UNCHANGED <<ringVars, state, owner, playAlive, file, device, locals, mine>>

(* Out of the thread by either exit: the flag is cleared last. *)
DecEnd(d) ==
  /\ pc[d] \in {"quit", "end"}
  /\ decAlive' = FALSE
  /\ Goto(d, "off")
  /\ UNCHANGED <<ringVars, state, owner, playAlive, file, device, locals, mine>>

DecInit(d) ==
  /\ At(d, "init")
  /\ Goto(d, "loop") \/ ("init" \in Faults /\ Goto(d, "end"))
  /\ UNCHANGED <<ringVars, ctl, file, device, locals, mine>>

(* Mutated form of DecLoop: the stop command is not looked for. *)
DecLoopDeaf(d) ==
  /\ At(d, "loop")
  /\ MutexFree
  /\ FullNum < BUFNUM
  /\ Goto(d, "decode")
  /\ UNCHANGED <<ringVars, ctl, file, device, locals, mine>>

(* The command is looked at first, then the room; a full ring is waited on  *)
(* by going round.                                                          *)
DecLoop(d) ==
  /\ At(d, "loop")
  /\ MutexFree
  /\ \/ state = "tostop" /\ Goto(d, "end")
     \/ state # "tostop" /\ FullNum < BUFNUM /\ Goto(d, "decode")
  /\ UNCHANGED <<ringVars, ctl, file, device, locals, mine>>

DecFails(d) ==
  /\ At(d, "decode")
  /\ "decode" \in Faults
  /\ Goto(d, "end")
  /\ UNCHANGED <<ringVars, ctl, file, device, locals, mine>>

(* A frame without samples, the last one or not. *)
DecEmpty(d) ==
  /\ At(d, "decode")
  /\ Goto(d, "loop")
  /\ UNCHANGED <<ringVars, ctl, file, device, locals, mine>>

DecRunsOut(d) ==
  /\ At(d, "decode")
  /\ Goto(d, "end")
  /\ UNCHANGED <<ringVars, ctl, file, device, locals, mine>>

(* A frame with samples; its slot's buffer is grown when it is noted to be  *)
(* smaller, which it is after PlayFile and Stop zeroed it.                  *)
DecFrame(d) ==
  /\ At(d, "decode")
  /\ \E n \in Sizes :
       /\ dsize' = [dsize EXCEPT ![d] = n]
       /\ Goto(d, IF BufSize[WriteIdx] < n THEN "grow" ELSE "copy")
  /\ \E more \in BOOLEAN : goOn' = [goOn EXCEPT ![d] = more]
  /\ UNCHANGED <<ringVars, ctl, file, device, reg, playLocals, mine>>

(* realloc() moves the block, which frees the old one, or has no need to.   *)
DecGrow(d) ==
  /\ At(d, "grow")
  /\ \/ FreeBlock /\ PointersDangle({WriteIdx})
     \/ UNCHANGED <<ringVars, held>>
  /\ Goto(d, "grown")
  /\ UNCHANGED <<ctl, file, device, reg, decLocals, fill, mine>>

DecGrown(d) ==
  /\ At(d, "grown")
  /\ NewBlock(dsize[d])
  /\ Goto(d, "copy")
  /\ UNCHANGED <<ctl, file, device, locals, mine>>

DecNoMemory(d) ==
  /\ At(d, "grow")
  /\ "realloc" \in Faults
  /\ NoBlock
  /\ dsize' = [dsize EXCEPT ![d] = 0]
  /\ Goto(d, "end")
  /\ UNCHANGED <<ctl, file, device, reg, goOn, playLocals, mine>>

(* The samples are copied, which are no part of this module, and their size *)
(* is stored.                                                               *)
DecCopy(d) ==
  /\ At(d, "copy")
  /\ SizeSlot(dsize[d])
  /\ dsize' = [dsize EXCEPT ![d] = 0]
  /\ Goto(d, "load")
  /\ UNCHANGED <<ctl, file, device, reg, goOn, playLocals, mine>>

DecLoad(d) ==
  /\ At(d, "load")
  /\ reg' = [reg EXCEPT ![d] = FullNum]
  /\ Goto(d, "store")
  /\ UNCHANGED <<ringVars, ctl, file, device, decLocals, playLocals, mine>>

DecStore(d) ==
  /\ At(d, "store")
  /\ CommitSlot(reg[d])
  /\ reg' = [reg EXCEPT ![d] = 0]
  /\ Goto(d, IF goOn[d] THEN "loop" ELSE "end")
  /\ UNCHANGED <<ctl, file, device, decLocals, playLocals, mine>>

Decoder(d) ==
  DecEnter(d) \/ DecEnd(d) \/ DecInit(d) \/ DecLoop(d) \/ DecFails(d) \/ DecEmpty(d)
    \/ DecRunsOut(d) \/ DecFrame(d) \/ DecGrow(d) \/ DecGrown(d) \/ DecNoMemory(d) \/ DecCopy(d)
    \/ DecLoad(d) \/ DecStore(d)
-----------------------------------------------------------------------------
(* s_PlaybackThread                                                        *)

PlaybackEnter(p) ==
  /\ At(p, "enter")
  /\ playAlive' = TRUE
  /\ Goto(p, "open")
  /\ UNCHANGED <<ringVars, state, owner, decAlive, file, device, locals, mine>>

(* s_OpenAudioPlayDevice: no device, or one that tells no block size; in    *)
(* both cases s_i32DevDSP_BlockSize keeps the 0 it is given first.          *)
OpenDevice ==
  \/ dev' = TRUE /\ blk' = TRUE
  \/ "dsp" \in Faults /\ dev' = FALSE /\ blk' = FALSE
  \/ "blksize" \in Faults /\ dev' = TRUE /\ blk' = FALSE

(* The lock is taken and given back before. *)
PlaybackOpen(p) ==
  /\ At(p, "open")
  /\ MutexFree
  /\ OpenDevice
  /\ Goto(p, IF blk' THEN "cmd" ELSE "end")
  /\ UNCHANGED <<ringVars, ctl, file, locals, mine>>

(* Mutated form of PlaybackPauses: the device stays open. *)
PlaybackPausesOpen(p) ==
  /\ At(p, "cmd")
  /\ MutexFree
  /\ state = "topause"
  /\ owner' = p
  /\ Goto(p, "paused")
  /\ UNCHANGED <<ringVars, state, decAlive, playAlive, file, device, locals, mine>>

(* Locked: told to pause, it closes the device first. *)
PlaybackPauses(p) ==
  /\ At(p, "cmd")
  /\ MutexFree
  /\ state = "topause"
  /\ owner' = p
  /\ dev' = FALSE
  /\ Goto(p, "paused")
  /\ UNCHANGED <<ringVars, state, decAlive, playAlive, file, blk, locals, mine>>

PlaybackPaused(p) ==
  /\ At(p, "paused")
  /\ state' = "paused"
  /\ owner' = "none"
  /\ Goto(p, "cmd")
  /\ UNCHANGED <<ringVars, decAlive, playAlive, file, device, locals, mine>>

(* Mutated form of PlaybackResumes: a paused player resumes by itself. *)
PlaybackResumesAlways(p) ==
  /\ At(p, "cmd")
  /\ MutexFree
  /\ state \in {"paused", "toresume"}
  /\ owner' = p
  /\ Goto(p, "resume")
  /\ UNCHANGED <<ringVars, state, decAlive, playAlive, file, device, locals, mine>>

(* Locked: told to resume, it opens the device again, and whether that      *)
(* succeeds or not says it is playing.                                      *)
PlaybackResumes(p) ==
  /\ At(p, "cmd")
  /\ MutexFree
  /\ state = "toresume"
  /\ owner' = p
  /\ Goto(p, "resume")
  /\ UNCHANGED <<ringVars, state, decAlive, playAlive, file, device, locals, mine>>

PlaybackResumed(p) ==
  /\ At(p, "resume")
  /\ OpenDevice
  /\ state' = "playing"
  /\ owner' = "none"
  /\ Goto(p, "fill")
  /\ UNCHANGED <<ringVars, decAlive, playAlive, file, locals, mine>>

(* No command, or the one to stop; a paused player goes round. *)
PlaybackCmd(p) ==
  /\ At(p, "cmd")
  /\ MutexFree
  /\ \/ state = "tostop" /\ Goto(p, "close")
     \/ state \in {"playing", "stopped"} /\ Goto(p, "fill")
  /\ UNCHANGED <<ringVars, ctl, file, device, locals, mine>>

PlaybackFill(p) ==
  /\ At(p, "fill")
  /\ Goto(p, IF FullNum > 0 THEN "take" ELSE "alive")
  /\ UNCHANGED <<ringVars, ctl, file, device, locals, mine>>

(* Mutated form of PlaybackAlive: the end of decoding is not looked for. *)
PlaybackAliveForever(p) ==
  /\ At(p, "alive")
  /\ Goto(p, "cmd")
  /\ UNCHANGED <<ringVars, ctl, file, device, locals, mine>>

PlaybackAlive(p) ==
  /\ At(p, "alive")
  /\ Goto(p, IF decAlive THEN "cmd" ELSE "close")
  /\ UNCHANGED <<ringVars, ctl, file, device, locals, mine>>

(* pcDecodedPCM is taken from the table. *)
PlaybackTake(p) ==
  /\ At(p, "take")
  /\ held' = [held EXCEPT ![p] = [slot |-> ReadIdx, block |-> Buf[ReadIdx]]]
  /\ Goto(p, "size")
  /\ UNCHANGED <<ringVars, ctl, file, device, reg, decLocals, fill, mine>>

(* How much of what is left goes to the device next: its free space and its *)
(* block size cut it down.  Without a device neither the free space nor     *)
(* select() comes to an end, and the thread stays here.                     *)
PlaybackSize(p) ==
  /\ At(p, "size")
  /\ PCMSize[ReadIdx] > 0
  /\ dev /\ blk
  /\ \E n \in 1 .. PCMSize[ReadIdx] : fill' = [fill EXCEPT ![p] = n]
  /\ Goto(p, "write")
  /\ UNCHANGED <<ringVars, ctl, file, device, reg, decLocals, held, mine>>

(* Nothing is left: the pointer goes out of use. *)
PlaybackSlotDone(p) ==
  /\ At(p, "size")
  /\ PCMSize[ReadIdx] <= 0
  /\ held' = [held EXCEPT ![p] = NoPointer]
  /\ Goto(p, "load")
  /\ UNCHANGED <<ringVars, ctl, file, device, reg, decLocals, fill, mine>>

PlaybackWrite(p) ==
  /\ At(p, "write")
  /\ dev
  /\ held[p].block # "null"
  /\ Goto(p, "sub")
  /\ UNCHANGED <<ringVars, ctl, file, device, locals, mine>>

(* The write fails, surely so from NULL and to no device. *)
PlaybackWriteFails(p) ==
  /\ At(p, "write")
  /\ "write" \in Faults \/ held[p].block # "live" \/ ~dev
  /\ held' = [held EXCEPT ![p] = NoPointer]
  /\ fill' = [fill EXCEPT ![p] = 0]
  /\ Goto(p, "close")
  /\ UNCHANGED <<ringVars, ctl, file, device, reg, decLocals, mine>>

PlaybackSub(p) ==
  /\ At(p, "sub")
  /\ reg' = [reg EXCEPT ![p] = PCMSize[ReadIdx]]
  /\ Goto(p, "subst")
  /\ UNCHANGED <<ringVars, ctl, file, device, decLocals, playLocals, mine>>

PlaybackSubst(p) ==
  /\ At(p, "subst")
  /\ CountDown(reg[p], fill[p])
  /\ reg' = [reg EXCEPT ![p] = 0]
  /\ fill' = [fill EXCEPT ![p] = 0]
  /\ Goto(p, "size")
  /\ UNCHANGED <<ctl, file, device, decLocals, held, mine>>

PlaybackLoad(p) ==
  /\ At(p, "load")
  /\ reg' = [reg EXCEPT ![p] = FullNum]
  /\ Goto(p, "store")
  /\ UNCHANGED <<ringVars, ctl, file, device, decLocals, playLocals, mine>>

PlaybackStore(p) ==
  /\ At(p, "store")
  /\ ReleaseSlot(reg[p])
  /\ reg' = [reg EXCEPT ![p] = 0]
  /\ Goto(p, "cmd")
  /\ UNCHANGED <<ctl, file, device, decLocals, playLocals, mine>>

PlaybackClose(p) ==
  /\ At(p, "close")
  /\ dev' = FALSE
  /\ Goto(p, "end")
  /\ UNCHANGED <<ringVars, ctl, file, blk, locals, mine>>

(* "Auto stop player", with its own flag cleared. *)
PlaybackEnd(p) ==
  /\ At(p, "end")
  /\ playAlive' = FALSE
  /\ Goto(p, "stop")
  /\ UNCHANGED <<ringVars, state, owner, decAlive, file, device, locals, mine>>

Playback(p) ==
  PlaybackEnter(p) \/ PlaybackOpen(p) \/ PlaybackPauses(p) \/ PlaybackPaused(p)
    \/ PlaybackResumes(p) \/ PlaybackResumed(p) \/ PlaybackCmd(p) \/ PlaybackFill(p)
    \/ PlaybackAlive(p) \/ PlaybackTake(p) \/ PlaybackSize(p) \/ PlaybackSlotDone(p)
    \/ PlaybackWrite(p) \/ PlaybackWriteFails(p) \/ PlaybackSub(p) \/ PlaybackSubst(p)
    \/ PlaybackLoad(p) \/ PlaybackStore(p) \/ PlaybackClose(p) \/ PlaybackEnd(p)
    \/ Stop(p)
-----------------------------------------------------------------------------
Pressing ==
  \/ \E k \in {"prev", "next", "home"} : KeyStop(k)
  \/ \E k \in {"forward", "backward"} : KeySeek(k)
  \/ KeyRight

PlayingFile ==
  PlayEnter \/ PlayBegin \/ PlayOpen \/ PlayOpenFails \/ PlaySpawn \/ PlaySpawnFails
    \/ PlayCharge \/ PlayCharged \/ PlayNothing \/ PlaySpawnPlayback
    \/ PlaySpawnPlaybackFails

Main ==
  PlayingFile \/ Watch \/ Recheck \/ NextFile \/ PauseEnter \/ PauseSet \/ PauseWait
    \/ ResumeEnter \/ ResumeSet \/ ResumeWait \/ Stop("main")

Running == ~At("main", "exit")

(* The end of main ends the process and every thread of it. *)
Exited == At("main", "exit") /\ UNCHANGED vars

Next ==
  \/ Pressing
  \/ Main
  \/ Running /\ \E d \in DecThreads : Decoder(d)
  \/ Running /\ \E p \in PlayThreads : Playback(p)
  \/ Exited

Spec == Init /\ [][Next]_vars

(* Every thread runs, since each wait is a nanosleep() or select(); a file  *)
(* runs out of frames, and a pthread_create() that is tried again for ever  *)
(* succeeds at last.  Nobody has to press a key.                            *)
Fairness ==
  /\ WF_vars(Main)
  /\ SF_vars(PlaySpawnPlayback)
  /\ \A d \in DecThreads :
       /\ WF_vars(Running /\ Decoder(d))
       /\ SF_vars(Running /\ DecRunsOut(d))
  /\ \A p \in PlayThreads : WF_vars(Running /\ Playback(p))

FairSpec == Spec /\ Fairness
-----------------------------------------------------------------------------
(* A file is begun only after every thread of the last one is through: no   *)
(* thread of theirs can touch the new file's ring or stop the new file.     *)
BeginsAlone ==
  At("main", "open") => \A t \in DecThreads \cup PlayThreads : At(t, "off")

(* What the threads share is used only while it is there: the decode        *)
(* thread's realloc() and memcpy() and the free() of AACPlayer_Stop never   *)
(* meet a buffer that was freed, the decoder library reads only an open     *)
(* file, no file is closed twice, and until an update of the count is lost  *)
(* no write() reads a buffer that realloc() or free() took away.            *)
ResourcesValid ==
  /\ \A d \in DecThreads :
       /\ At(d, "grow") => Buf[WriteIdx] # "freed"
       /\ At(d, "copy") => Buf[WriteIdx] = "live"
       /\ pc[d] \in {"init", "decode"} => file = "open"
  /\ \A p \in PlayThreads : At(p, "write") /\ ~raced => held[p].block = "live"
  /\ \A t \in Stoppers :
       /\ At(t, "stopfree") => \A i \in Slots : Buf[i] # "freed"
       /\ At(t, "stopclear") => file # "closed"

(* While the player says it is paused the device is closed and nobody is on *)
(* the way to write to it.                                                  *)
PausedIsSilent ==
  state = "paused" =>
    /\ ~dev
    /\ \A p \in PlayThreads : pc[p] \notin {"open", "fill"} \cup Emptying

(* A pause lasts until the user asks to resume: no thread takes the player  *)
(* out of it, and no stale stop or report of another file does.             *)
PauseHolds ==
  [][state = "paused" /\ state' # "paused" => At("main", "resumeset")]_state

(* Every file that was begun comes to an end: the decode thread, the        *)
(* playback thread and main never wait for each other for good.             *)
FileEnds == At("main", "begin") ~> pc["main"] \in {"nextfile", "exit"}

(* AACPlayer_Stop, called from the keypad or after a failure, returns: both *)
(* threads see TOSTOP wherever they are, a full or an empty ring included.  *)
StopReturns == At("main", "stop") ~> pc["main"] \notin StopPcs

(* What the comment in AACPlayer_Stop says before the buffers are freed:    *)
(* "Wait for decode and playback threads terminated".                       *)
StopFreesAlone ==
  At("main", "stopfree") => \A t \in DecThreads \cup PlayThreads : At(t, "off")

(* What the comment in AACPlayer_Pause says: it waits until the playback    *)
(* thread is suspended, and so comes to an end.                             *)
PauseReturns == At("main", "pausewait") ~> ~At("main", "pausewait")
=============================================================================
