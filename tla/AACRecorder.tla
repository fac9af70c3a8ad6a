---------------------------- MODULE AACRecorder -----------------------------
(***************************************************************************)
(* The AAC recorder: main of AACRecorder.c, AACRecorder_RecordFile, and    *)
(* the loop s_EncodeThread (AACRecorder_Agent.c), which in spite of its    *)
(* name is called by main itself, like CheckKey and the functions CheckKey *)
(* calls.  One thread reads blocks of a PCM file, cuts them into frames in *)
(* a ring of buffers, encodes the frames and writes them to a file.        *)
(*                                                                         *)
(* A byte is its place in the input after the header.  The input is a      *)
(* regular file, so that only its last block can be short.                 *)
(***************************************************************************)
EXTENDS Integers, Sequences

CONSTANTS
  BUFNUM,     (* PCMFRAME_BUFNUM (8)                                       *)
  BUFSIZE,    (* PCMFRAME_BUFSIZE (2048)                                   *)
  BlockSize,  (* s_i32DevDSP_BlockSize (2048)                              *)
  Header,     (* bytes skipped by the lseek() (44)                         *)
  MaxInput,   (* bounds the model: the bytes after the header              *)
  Faults      (* what may fail, of "fopen", "malloc", "open", "init",      *)
              (* "read", "encode", "write"                                 *)

ASSUME RecorderAssumption ==
  /\ BUFNUM \in Nat /\ BUFNUM > 1
  /\ BUFSIZE \in Nat \ {0}
  /\ BlockSize = BUFSIZE
  /\ Header \in 0 .. BlockSize - 1
  /\ MaxInput \in Nat

VARIABLES
  input,      (* how many bytes follow the header of the input file        *)
  state,      (* g_eAACRecorder_State                                      *)
  pc,         (* where the program is                                      *)
  alive,      (* s_bEncodeThread_Alive                                     *)
  file,       (* whether s_psAACFile is open (NULL else)                   *)
  buf,        (* s_apcPCMFrame_Buf: allocated or NULL                      *)
  PCM,        (* per buffer, the bytes counted by s_ai32PCMFrame_PCMSize   *)
  FullNum, ReadIdx, WriteIdx,
  device,     (* whether s_i32DevDSP is open                               *)
  pos,        (* its position after the header                             *)
  number,     (* blocks read                                               *)
  recorded,   (* the bytes of the frames written to the file               *)
  cut         (* history: a key or a fault ended the recording             *)

ring == <<buf, PCM, FullNum, ReadIdx, WriteIdx>>
tape == <<device, pos, number>>

vars == <<input, state, pc, alive, file, ring, tape, recorded, cut>>

Slots == 0 .. BUFNUM - 1

Bytes == 1 .. MaxInput

States == {"stopped", "recording", "paused", "topause", "toresume", "tostop"}

TypeOK ==
  /\ input \in 0 .. MaxInput
  /\ state \in States
  /\ pc \in {"record", "setup", "command", "read", "encode", "key", "pause",
             "finish", "exit"}
  /\ alive \in BOOLEAN
  /\ file \in BOOLEAN
  /\ buf \in [Slots -> BOOLEAN]
  /\ PCM \in [Slots -> Seq(Bytes)]
  /\ \A i \in Slots : Len(PCM[i]) <= BUFSIZE
  /\ FullNum \in 0 .. BUFNUM - 1
  /\ ReadIdx \in Slots
  /\ WriteIdx \in Slots
  /\ device \in BOOLEAN
  /\ pos \in 0 .. input
  /\ number \in Nat
  /\ recorded \in Seq(Bytes)
  /\ cut \in BOOLEAN

Init ==
  /\ input \in 0 .. MaxInput
  /\ state = "stopped"
  /\ pc = "record"
  /\ alive = FALSE
  /\ file = FALSE
  /\ buf = [i \in Slots |-> FALSE]
  /\ PCM = [i \in Slots |-> <<>>]
  /\ FullNum = 0 /\ ReadIdx = 0 /\ WriteIdx = 0
  /\ device = FALSE
  /\ pos = 0
  /\ number = 0
  /\ recorded = <<>>
  /\ cut = FALSE

(* Mutated form of NextIdx: no wrapping. *)
NextIdxUnwrapped(i) == i + 1

NextIdx(i) == IF i + 1 = BUFNUM THEN 0 ELSE i + 1

Least(a, b) == IF a < b THEN a ELSE b

(* AACRecorder_Stop: it waits for nobody. *)
Stop ==
  /\ PCM' = [i \in Slots |-> <<>>]
  /\ buf' = [i \in Slots |-> FALSE]
  /\ file' = FALSE
  /\ state' = "stopped"
  /\ UNCHANGED <<FullNum, ReadIdx, WriteIdx>>
-----------------------------------------------------------------------------
(* AACRecorder_RecordFile opens the file and allocates the buffers.        *)
RecordFile ==
  /\ pc = "record"
  /\ state = "stopped"
  /\ state' = "recording"
  /\ file' = TRUE
  /\ buf' = [i \in Slots |-> TRUE]
  /\ pc' = "setup"
  /\ UNCHANGED <<input, alive, PCM, FullNum, ReadIdx, WriteIdx, tape, recorded, cut>>

(* One of them fails: what was allocated is given back, and main returns. *)
RecordFileFails ==
  /\ pc = "record"
  /\ Faults \cap {"fopen", "malloc"} # {}
  /\ Stop
  /\ pc' = "exit"
  /\ cut' = TRUE
  /\ UNCHANGED <<input, alive, tape, recorded>>

(* The start of s_EncodeThread.  Whether the input could be opened is not   *)
(* looked at: the first read() finds out.                                   *)
Setup ==
  /\ pc = "setup"
  /\ alive' = TRUE
  /\ \/ device' = TRUE /\ UNCHANGED cut
     \/ "open" \in Faults /\ device' = FALSE /\ cut' = TRUE
  /\ pc' = "command"
  /\ UNCHANGED <<input, state, file, ring, pos, number, recorded>>

(* The block's buffer, the encoded frame's, or the encoder. *)
SetupFails ==
  /\ pc = "setup"
  /\ Faults \cap {"malloc", "init"} # {}
  /\ alive' = TRUE
  /\ device' \in BOOLEAN
  /\ pc' = "finish"
  /\ cut' = TRUE
  /\ UNCHANGED <<input, state, file, ring, pos, number, recorded>>
-----------------------------------------------------------------------------
(* The loop of s_EncodeThread.                                             *)

(* TOSTOP ends the loop once no full frame is left. *)
CheckCommand ==
  /\ pc = "command"
  /\ pc' = IF state = "tostop" /\ FullNum = 0 THEN "finish" ELSE "read"
  /\ UNCHANGED <<input, state, alive, file, ring, tape, recorded, cut>>

(* s_i32no, from the size of the file with its header. *)
BlockLimit == (Header + input) \div BlockSize + 1

(* The next block, and the part of it that the buffer at the write index    *)
(* has room for; the rest of a block, if any, is dropped.                   *)
Read ==
  /\ pc = "read"
  /\ device
  /\ pos < input
  /\ number < BlockLimit
  /\ number' = number + 1
  /\ LET n    == Least(BlockSize, input - pos)
         fill == Least(BUFSIZE - Len(PCM[WriteIdx]), n)
         all  == PCM[WriteIdx] \o [i \in 1 .. fill |-> pos + i]
     IN /\ pos' = pos + n
        /\ IF FullNum < BUFNUM - 1
           THEN /\ PCM' = [PCM EXCEPT ![WriteIdx] = all]
                /\ IF Len(all) = BUFSIZE
                   THEN FullNum' = FullNum + 1 /\ WriteIdx' = NextIdx(WriteIdx)
                   ELSE UNCHANGED <<FullNum, WriteIdx>>
           ELSE UNCHANGED <<PCM, FullNum, WriteIdx>>
  /\ pc' = "encode"
  /\ UNCHANGED <<input, state, alive, file, buf, ReadIdx, device, recorded, cut>>

(* Mutated form of ReadNothing: the read() is tried again. *)
ReadNothingAgain ==
  /\ pc = "read"
  /\ ~device \/ pos = input \/ number >= BlockLimit
  /\ UNCHANGED vars

(* The end of the file, a closed device, a read() that fails, or as many    *)
(* blocks read as the file had when it was opened.                          *)
ReadNothing ==
  /\ pc = "read"
  /\ \/ /\ ~device \/ pos = input \/ number >= BlockLimit
        /\ UNCHANGED cut
     \/ "read" \in Faults /\ cut' = TRUE
  /\ number' = number + 1
  /\ alive' = FALSE
  /\ state' = "tostop"
  /\ pc' = "encode"
  /\ UNCHANGED <<input, file, ring, device, pos, recorded>>

(* Mutated form of Encode: the read index stays where it is. *)
EncodeSameBuffer ==
  /\ pc = "encode"
  /\ FullNum > 0
  /\ recorded' = recorded \o PCM[ReadIdx]
  /\ PCM' = [PCM EXCEPT ![ReadIdx] = <<>>]
  /\ FullNum' = FullNum - 1
  /\ pc' = "key"
  /\ UNCHANGED <<input, state, alive, file, buf, ReadIdx, WriteIdx, tape, cut>>

(* The oldest full frame is encoded and written. *)
Encode ==
  /\ pc = "encode"
  /\ FullNum > 0
  /\ recorded' = recorded \o PCM[ReadIdx]
  /\ PCM' = [PCM EXCEPT ![ReadIdx] = <<>>]
  /\ ReadIdx' = NextIdx(ReadIdx)
  /\ FullNum' = FullNum - 1
  /\ pc' = "key"
  /\ UNCHANGED <<input, state, alive, file, buf, WriteIdx, tape, cut>>

(* The encoder or fwrite() fails. *)
EncodeFails ==
  /\ pc = "encode"
  /\ FullNum > 0
  /\ Faults \cap {"encode", "write"} # {}
  /\ pc' = "finish"
  /\ cut' = TRUE
  /\ UNCHANGED <<input, state, alive, file, ring, tape, recorded>>

(* No full frame ends the recording, a frame filled in part included. *)
NothingToEncode ==
  /\ pc = "encode"
  /\ FullNum = 0
  /\ state' = "tostop"
  /\ pc' = "finish"
  /\ UNCHANGED <<input, alive, file, ring, tape, recorded, cut>>
-----------------------------------------------------------------------------
(* CheckKey, at the end of each round.                                     *)

NoKey ==
  /\ pc = "key"
  /\ pc' = "command"
  /\ UNCHANGED <<input, state, alive, file, ring, tape, recorded, cut>>

(* RIGHT: AACRecorder_Pause.  It is never pressed in another state than     *)
(* RECORDING here, so that AACRecorder_Resume is never called.              *)
KeyRight ==
  /\ pc = "key"
  /\ state = "recording"
  /\ state' = "topause"
  /\ pc' = "pause"
  /\ UNCHANGED <<input, alive, file, ring, tape, recorded, cut>>

(* "Wait for record thread suspended": the loop of AACRecorder_Pause. *)
PauseWait ==
  /\ pc = "pause"
  /\ pc' = IF state = "paused" THEN "command" ELSE "pause"
  /\ UNCHANGED <<input, state, alive, file, ring, tape, recorded, cut>>

(* Mutated form of KeyHome: CheckKey does not tell the loop to stop. *)
KeyHomeGoesOn ==
  /\ pc = "key"
  /\ Stop
  /\ cut' = TRUE
  /\ pc' = "command"
  /\ UNCHANGED <<input, alive, tape, recorded>>

(* HOME stops the recorder from inside the loop and then leaves the loop. *)
KeyHome ==
  /\ pc = "key"
  /\ Stop
  /\ cut' = TRUE
  /\ pc' = "finish"
  /\ UNCHANGED <<input, alive, tape, recorded>>

(* EndOfEncode: the device is closed, and the recorder stopped (again). *)
Finish ==
  /\ pc = "finish"
  /\ Stop
  /\ device' = FALSE
  /\ alive' = FALSE
  /\ pc' = "exit"
  /\ UNCHANGED <<input, pos, number, recorded, cut>>

Exited == pc = "exit" /\ UNCHANGED vars
-----------------------------------------------------------------------------
Round ==
  CheckCommand \/ Read \/ ReadNothing \/ Encode \/ EncodeFails \/ NothingToEncode

Recorder ==
  RecordFile \/ RecordFileFails \/ Setup \/ SetupFails \/ Round \/ NoKey
    \/ KeyRight \/ PauseWait \/ KeyHome \/ Finish

Next == Recorder \/ Exited

Spec == Init /\ [][Next]_vars

(* One program that nothing holds up; no key has to be pressed. *)
FairSpec == Spec /\ WF_vars(Recorder)
-----------------------------------------------------------------------------
(* What is in the file is the beginning of the input, in order and without  *)
(* a gap, whatever ends the recording: the blocks, the buffers' fill sizes   *)
(* and the two indices of the ring agree.                                   *)
RecordedInOrder == recorded = [i \in 1 .. Len(recorded) |-> i]

(* A recording that no key and no fault ends holds every whole frame of the *)
(* input, and none of the bytes after the last whole frame.                  *)
WholeFramesRecorded ==
  pc = "exit" /\ ~cut => Len(recorded) = BUFSIZE * (input \div BUFSIZE)

(* A frame is only encoded from an allocated buffer into an open file: HOME  *)
(* has closed and freed everything in the middle of the loop.                *)
EncodesIntoOpenFile == pc = "encode" => file /\ buf[ReadIdx] /\ buf[WriteIdx]

(* Unless it is paused the recorder comes to an end.                        *)
RecorderEnds == [](pc # "pause") => <>(pc = "exit")

(* What the program tells its user: "RIGHT key: Pause / Resume".  So a pause *)
(* lets the loop go on, which is what looks for the next RIGHT.              *)
PauseReturns == pc = "pause" ~> pc # "pause"
=============================================================================
