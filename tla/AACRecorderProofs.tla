------------------------- MODULE AACRecorderProofs --------------------------
(***************************************************************************)
(* Theorems about the recorder, for every number and size of the frame      *)
(* buffers, every length of the header and of the input, and any choice of  *)
(* what may fail.                                                           *)
(***************************************************************************)
EXTENDS AACRecorder, SequenceTheorems, TLAPS

Recording == {"command", "read", "encode", "key", "pause"}

(* Nothing is underway: the next block is cut from where the file ends.     *)
NoFrameHeld ==
  /\ FullNum = 0
  /\ ReadIdx = WriteIdx
  /\ \A i \in Slots : PCM[i] = <<>>
  /\ Len(recorded) = pos
  /\ pos = number * BUFSIZE

(* One whole frame is in the ring, and it is the next of the input.         *)
OneFrameHeld ==
  /\ FullNum = 1
  /\ WriteIdx = NextIdx(ReadIdx)
  /\ PCM[ReadIdx] = [i \in 1 .. BUFSIZE |-> Len(recorded) + i]
  /\ \A i \in Slots \ {ReadIdx} : PCM[i] = <<>>
  /\ Len(recorded) + BUFSIZE = pos
  /\ pos = number * BUFSIZE

AllFramesRecorded == cut \/ Len(recorded) = BUFSIZE * (input \div BUFSIZE)

(* The inductive invariant.  FullNum is never more than 1: each round reads  *)
(* at most one block and encodes what it filled.                             *)
RecordingInv ==
  /\ RecordedInOrder
  /\ pc \in Recording \cup {"setup"} => file /\ \A i \in Slots : buf[i]
  /\ pc \in Recording => device \/ cut
  /\ \/ pc \in {"setup", "command", "read", "key"}
     \/ pc = "encode" /\ FullNum = 1
     => state = "recording"
  /\ pc = "pause" => state = "topause"
  /\ pc \in {"record", "setup", "command", "read", "key", "pause"} => NoFrameHeld
  /\ pc = "encode" => OneFrameHeld \/ (FullNum = 0 /\ AllFramesRecorded)
  /\ pc \in {"finish", "exit"} => AllFramesRecorded
-----------------------------------------------------------------------------
(* What division says of its result. *)
LEMMA DivisionBounds ==
  ASSUME NEW n \in Nat, NEW b \in Nat \ {0}
  PROVE  n \div b \in Nat /\ b * (n \div b) <= n /\ n < b * (n \div b + 1)
OBVIOUS

(* A product with BUFSIZE and a rest below it: division gives the factor.   *)
LEMMA Division ==
  ASSUME NEW k \in Nat, NEW r \in 0 .. BUFSIZE - 1
  PROVE  (k * BUFSIZE + r) \div BUFSIZE = k
<1> USE RecorderAssumption
<1> DEFINE n == k * BUFSIZE + r
           d == n \div BUFSIZE
<1>1. /\ n \in Nat /\ d \in Nat
      /\ BUFSIZE * d <= n
      /\ n < BUFSIZE * (d + 1)
  BY DivisionBounds
<1>2. n = k * BUFSIZE + r
  OBVIOUS
<1> HIDE DEF n, d
<1>3. BUFSIZE * d < BUFSIZE * (k + 1)
  BY <1>1, <1>2
<1>4. BUFSIZE * k < BUFSIZE * (d + 1)
  BY <1>1, <1>2
<1>5. d < k + 1
  BY <1>1, <1>3
<1>6. k < d + 1
  BY <1>1, <1>4
<1> QED
  BY <1>1, <1>5, <1>6 DEF d, n

(* The limit on the number of blocks, which counts the header in, never      *)
(* comes before the end of the input.                                        *)
LEMMA LimitIsEnough ==
  ASSUME TypeOK, NoFrameHeld
  PROVE  number < BlockLimit
<1> USE RecorderAssumption
<1> DEFINE d == (Header + input) \div BlockSize
<1>1. Header + input \in Nat
  BY DEF TypeOK
<1>2. d \in Nat /\ Header + input < BUFSIZE * (d + 1)
  BY <1>1, DivisionBounds
<1>3. number * BUFSIZE <= Header + input /\ number \in Nat
  BY DEF NoFrameHeld, TypeOK
<1> HIDE DEF d
<1>4. BUFSIZE * number < BUFSIZE * (d + 1)
  BY <1>1, <1>2, <1>3
<1>5. number < d + 1
  BY <1>2, <1>3, <1>4
<1> QED
  BY <1>5 DEF d, BlockLimit

(* The block that Read takes, when nothing is underway: whole, it fills the  *)
(* buffer at the write index; short, it is the last and fills it in part.    *)
LEMMA BlockRead ==
  ASSUME TypeOK, NoFrameHeld, Read
  PROVE  \E n \in 1 .. BUFSIZE :
           /\ n = Least(BUFSIZE, input - pos)
           /\ pos' = pos + n
           /\ number' = number + 1
           /\ PCM' = [PCM EXCEPT ![WriteIdx] = [i \in 1 .. n |-> pos + i]]
           /\ [i \in 1 .. n |-> pos + i] \in Seq(Bytes)
           /\ Len([i \in 1 .. n |-> pos + i]) = n
           /\ \/ n = BUFSIZE /\ FullNum' = 1 /\ WriteIdx' = NextIdx(WriteIdx)
              \/ n < BUFSIZE /\ n = input - pos /\ UNCHANGED <<FullNum, WriteIdx>>
<1> USE RecorderAssumption
<1> DEFINE n == Least(BlockSize, input - pos)
           fill == Least(BUFSIZE - Len(PCM[WriteIdx]), n)
           block == [i \in 1 .. fill |-> pos + i]
           all == PCM[WriteIdx] \o block
<1>1. pos \in Nat /\ input \in Nat /\ pos < input /\ input <= MaxInput /\ WriteIdx \in Slots
  BY DEF Read, TypeOK
<1>2. n \in 1 .. BUFSIZE /\ n <= input - pos
  BY <1>1 DEF Least
<1>3. PCM[WriteIdx] = <<>> /\ Len(PCM[WriteIdx]) = 0
  BY <1>1 DEF NoFrameHeld
<1>4. fill = n
  BY <1>2, <1>3 DEF Least
<1>5. \A i \in 1 .. n : pos + i \in Bytes
  BY <1>1, <1>2 DEF Bytes
<1>6. block \in Seq(Bytes) /\ Len(block) = n
  BY <1>2, <1>4, <1>5
<1>7. all = block
  BY <1>3, <1>6, ConcatEmptySeq
<1>8. FullNum < BUFNUM - 1 /\ FullNum = 0
  BY DEF NoFrameHeld
<1>9. /\ number' = number + 1
      /\ pos' = pos + n
      /\ PCM' = [PCM EXCEPT ![WriteIdx] = all]
      /\ IF Len(all) = BUFSIZE
         THEN FullNum' = FullNum + 1 /\ WriteIdx' = NextIdx(WriteIdx)
         ELSE UNCHANGED <<FullNum, WriteIdx>>
  BY <1>8 DEF Read
<1>10. n = Least(BUFSIZE, input - pos)
  OBVIOUS
<1>11. n < BUFSIZE => n = input - pos
  BY <1>1 DEF Least
<1>12. /\ [i \in 1 .. n |-> pos + i] \in Seq(Bytes)
       /\ Len([i \in 1 .. n |-> pos + i]) = n
       /\ all = [i \in 1 .. n |-> pos + i]
  BY <1>4, <1>6, <1>7
<1> HIDE DEF n, fill, block, all
<1> USE <1>2
<1> WITNESS n \in 1 .. BUFSIZE
<1> QED
  BY <1>2, <1>8, <1>9, <1>10, <1>11, <1>12
-----------------------------------------------------------------------------
LEMMA TypeStep ==
  ASSUME TypeOK, RecordingInv, [Next]_vars
  PROVE  TypeOK'
<1> USE RecorderAssumption DEF TypeOK, Slots
<1>1. ASSUME Stop, UNCHANGED <<input, recorded>>
      PROVE  /\ state' \in States /\ file' \in BOOLEAN /\ buf' \in [Slots -> BOOLEAN]
             /\ PCM' \in [Slots -> Seq(Bytes)]
             /\ \A i \in Slots : Len(PCM'[i]) <= BUFSIZE
             /\ UNCHANGED <<FullNum, ReadIdx, WriteIdx>>
  <2>1. <<>> \in Seq(Bytes) /\ Len(<<>>) = 0
    BY EmptySeq
  <2>2. PCM' = [i \in Slots |-> <<>>] /\ buf' = [i \in Slots |-> FALSE]
    BY <1>1 DEF Stop
  <2>3. PCM' \in [Slots -> Seq(Bytes)] /\ \A i \in Slots : Len(PCM'[i]) <= BUFSIZE
    BY <2>1, <2>2
  <2>4. buf' \in [Slots -> BOOLEAN]
    BY <2>2
  <2> QED
    BY <1>1, <2>3, <2>4 DEF Stop, States
<1>2. CASE RecordFile
  BY <1>2 DEF RecordFile, tape, States
<1>3. CASE RecordFileFails
  BY <1>1, <1>3 DEF RecordFileFails, tape
<1>4. CASE Setup
  BY <1>4 DEF Setup, ring
<1>5. CASE SetupFails
  BY <1>5 DEF SetupFails, ring
<1>6. CASE CheckCommand
  BY <1>6 DEF CheckCommand, ring, tape
<1>7. CASE Read
  <2>1. NoFrameHeld /\ pos < input /\ WriteIdx \in Slots /\ NextIdx(WriteIdx) \in Slots
    BY <1>7 DEF Read, RecordingInv, NextIdx
  <2>2. PICK n \in 1 .. BUFSIZE :
          /\ n = Least(BUFSIZE, input - pos)
          /\ pos' = pos + n
          /\ number' = number + 1
          /\ PCM' = [PCM EXCEPT ![WriteIdx] = [i \in 1 .. n |-> pos + i]]
          /\ [i \in 1 .. n |-> pos + i] \in Seq(Bytes)
          /\ Len([i \in 1 .. n |-> pos + i]) = n
          /\ \/ n = BUFSIZE /\ FullNum' = 1 /\ WriteIdx' = NextIdx(WriteIdx)
             \/ n < BUFSIZE /\ n = input - pos /\ UNCHANGED <<FullNum, WriteIdx>>
    BY <1>7, <2>1, BlockRead
  <2> DEFINE block == [i \in 1 .. n |-> pos + i]
  <2>3. block \in Seq(Bytes) /\ Len(block) <= BUFSIZE /\ PCM' = [PCM EXCEPT ![WriteIdx] = block]
    BY <2>2
  <2>4. pos' \in 0 .. input
    BY <2>1, <2>2 DEF Least
  <2>5. FullNum' \in 0 .. BUFNUM - 1 /\ WriteIdx' \in Slots
    <3>1. 1 \in 0 .. BUFNUM - 1
      OBVIOUS
    <3>2. \/ FullNum' = 1 /\ WriteIdx' = NextIdx(WriteIdx)
          \/ UNCHANGED <<FullNum, WriteIdx>>
      BY <2>2
    <3> QED
      BY <2>1, <3>1, <3>2
  <2> HIDE DEF block
  <2>6. PCM' \in [Slots -> Seq(Bytes)] /\ \A i \in Slots : Len(PCM'[i]) <= BUFSIZE
    BY <2>3
  <2>7. /\ number' \in Nat /\ pc' = "encode"
        /\ UNCHANGED <<input, state, alive, file, buf, ReadIdx, device, recorded, cut>>
    BY <1>7 DEF Read
  <2> QED
    BY <2>4, <2>5, <2>6, <2>7
<1>8. CASE ReadNothing
  <2>1. cut' \in BOOLEAN
    BY <1>8 DEF ReadNothing
  <2>2. /\ number' \in Nat /\ alive' = FALSE /\ state' = "tostop" /\ pc' = "encode"
        /\ UNCHANGED <<input, file, ring, device, pos, recorded>>
    BY <1>8 DEF ReadNothing
  <2> QED
    BY <2>1, <2>2 DEF ring, States
<1>9. CASE Encode
  <2>1. /\ ReadIdx \in Slots /\ NextIdx(ReadIdx) \in Slots
        /\ PCM[ReadIdx] \in Seq(Bytes)
        /\ <<>> \in Seq(Bytes) /\ Len(<<>>) = 0
    BY EmptySeq DEF NextIdx
  <2>2. recorded' \in Seq(Bytes)
    BY <1>9, <2>1, ConcatProperties DEF Encode
  <2>3. PCM' \in [Slots -> Seq(Bytes)] /\ \A i \in Slots : Len(PCM'[i]) <= BUFSIZE
    BY <1>9, <2>1 DEF Encode
  <2> QED
    BY <1>9, <2>1, <2>2, <2>3 DEF Encode, tape
<1>10. CASE EncodeFails
  BY <1>10 DEF EncodeFails, ring, tape
<1>11. CASE NothingToEncode
  BY <1>11 DEF NothingToEncode, ring, tape, States
<1>12. CASE NoKey
  BY <1>12 DEF NoKey, ring, tape
<1>13. CASE KeyRight
  BY <1>13 DEF KeyRight, ring, tape, States
<1>14. CASE PauseWait
  BY <1>14 DEF PauseWait, ring, tape
<1>15. CASE KeyHome
  BY <1>1, <1>15 DEF KeyHome, tape
<1>16. CASE Finish
  BY <1>1, <1>16 DEF Finish
<1>17. CASE UNCHANGED vars
  BY <1>17 DEF vars, ring, tape
<1> QED
  BY <1>2, <1>3, <1>4, <1>5, <1>6, <1>7, <1>8, <1>9, <1>10, <1>11, <1>12, <1>13,
     <1>14, <1>15, <1>16, <1>17 DEF Next, Recorder, Round, Exited
-----------------------------------------------------------------------------
(* The two steps that carry bytes.                                          *)

LEMMA ReadStep ==
  ASSUME TypeOK, RecordingInv, Read
  PROVE  RecordingInv'
<1> USE RecorderAssumption
<1>1. NoFrameHeld /\ pos < input /\ pos \in Nat /\ input \in Nat /\ number \in Nat
  BY DEF Read, RecordingInv, TypeOK
<1>2. PICK n \in 1 .. BUFSIZE :
        /\ n = Least(BUFSIZE, input - pos)
        /\ pos' = pos + n
        /\ number' = number + 1
        /\ PCM' = [PCM EXCEPT ![WriteIdx] = [i \in 1 .. n |-> pos + i]]
        /\ [i \in 1 .. n |-> pos + i] \in Seq(Bytes)
        /\ Len([i \in 1 .. n |-> pos + i]) = n
        /\ \/ n = BUFSIZE /\ FullNum' = 1 /\ WriteIdx' = NextIdx(WriteIdx)
           \/ n < BUFSIZE /\ n = input - pos /\ UNCHANGED <<FullNum, WriteIdx>>
  BY <1>1, BlockRead
<1>3. UNCHANGED <<input, state, alive, file, buf, ReadIdx, device, recorded, cut>> /\ pc' = "encode"
  BY DEF Read
<1>4. Len(recorded) = pos /\ pos = number * BUFSIZE /\ FullNum = 0
  BY <1>1 DEF NoFrameHeld
<1>5. CASE n = BUFSIZE /\ FullNum' = 1 /\ WriteIdx' = NextIdx(WriteIdx)
  <2>1. ReadIdx = WriteIdx /\ \A i \in Slots : PCM[i] = <<>>
    BY <1>1 DEF NoFrameHeld
  <2>2. PCM \in [Slots -> Seq(Bytes)] /\ WriteIdx \in Slots
    BY DEF TypeOK
  <2>3. PCM'[ReadIdx] = [i \in 1 .. BUFSIZE |-> Len(recorded) + i]
    BY <1>2, <1>4, <1>5, <2>1, <2>2
  <2>4. \A i \in Slots \ {ReadIdx} : PCM'[i] = <<>>
    BY <1>2, <2>1, <2>2
  <2>5. pos' = number' * BUFSIZE /\ Len(recorded) + BUFSIZE = pos'
    BY <1>1, <1>2, <1>4, <1>5
  <2>6. OneFrameHeld'
    BY <1>3, <1>5, <2>1, <2>3, <2>4, <2>5 DEF OneFrameHeld, NextIdx
  <2> QED
    BY <1>3, <2>6 DEF RecordingInv, RecordedInOrder, Recording, Read
<1>6. CASE n < BUFSIZE /\ n = input - pos /\ UNCHANGED <<FullNum, WriteIdx>>
  <2>1. input = number * BUFSIZE + n /\ n \in 0 .. BUFSIZE - 1
    BY <1>1, <1>2, <1>4, <1>6
  <2>2. input \div BUFSIZE = number
    BY <1>1, <2>1, Division
  <2>3. AllFramesRecorded'
    BY <1>1, <1>3, <1>4, <2>2 DEF AllFramesRecorded
  <2> QED
    BY <1>3, <1>4, <1>6, <2>3 DEF RecordingInv, RecordedInOrder, Recording, Read
<1> QED
  BY <1>2, <1>5, <1>6

LEMMA EncodeStep ==
  ASSUME TypeOK, RecordingInv, Encode
  PROVE  RecordingInv'
<1> USE RecorderAssumption
<1>1. OneFrameHeld /\ RecordedInOrder
  BY DEF Encode, RecordingInv
<1>2. /\ recorded \in Seq(Bytes) /\ Len(recorded) \in Nat
      /\ PCM \in [Slots -> Seq(Bytes)] /\ ReadIdx \in Slots
      /\ PCM[ReadIdx] \in Seq(Bytes) /\ Len(PCM[ReadIdx]) = BUFSIZE
      /\ \A j \in 1 .. BUFSIZE : PCM[ReadIdx][j] = Len(recorded) + j
  <2>1. /\ recorded \in Seq(Bytes) /\ Len(recorded) \in Nat
        /\ PCM \in [Slots -> Seq(Bytes)] /\ ReadIdx \in Slots
        /\ PCM[ReadIdx] \in Seq(Bytes)
    BY LenProperties DEF TypeOK
  <2>2. PCM[ReadIdx] = [j \in 1 .. BUFSIZE |-> Len(recorded) + j]
    BY <1>1 DEF OneFrameHeld
  <2>3. Len(PCM[ReadIdx]) \in Nat /\ 1 .. Len(PCM[ReadIdx]) = 1 .. BUFSIZE
    BY <2>1, <2>2, LenProperties
  <2>4. Len(PCM[ReadIdx]) = BUFSIZE
    BY <2>3
  <2> QED
    BY <2>1, <2>2, <2>4
<1>3. /\ recorded' \in Seq(Bytes)
      /\ Len(recorded') = Len(recorded) + BUFSIZE
      /\ \A i \in 1 .. Len(recorded) + BUFSIZE :
           recorded'[i] = IF i <= Len(recorded) THEN recorded[i]
                          ELSE PCM[ReadIdx][i - Len(recorded)]
  BY <1>2, ConcatProperties DEF Encode
<1>4. ASSUME NEW i \in 1 .. Len(recorded')
      PROVE  recorded'[i] = i
  <2>1. CASE i <= Len(recorded)
    BY <1>1, <1>2, <1>3, <2>1 DEF RecordedInOrder
  <2>2. CASE i > Len(recorded)
    <3>1. i - Len(recorded) \in 1 .. BUFSIZE /\ i \in 1 .. Len(recorded) + BUFSIZE
      BY <1>2, <1>3, <2>2
    <3>2. recorded'[i] = PCM[ReadIdx][i - Len(recorded)]
      BY <1>2, <1>3, <2>2, <3>1
    <3>3. PCM[ReadIdx][i - Len(recorded)] = Len(recorded) + (i - Len(recorded))
      BY <1>2, <3>1
    <3> QED
      BY <1>2, <3>1, <3>2, <3>3
  <2> QED
    BY <1>2, <2>1, <2>2
<1>5. RecordedInOrder'
  BY <1>3, <1>4, LenProperties DEF RecordedInOrder
<1>6. /\ FullNum' = 0
      /\ ReadIdx' = NextIdx(ReadIdx) /\ WriteIdx' = NextIdx(ReadIdx)
      /\ UNCHANGED <<input, state, alive, file, buf, device, pos, number, cut>>
      /\ pc' = "key"
  BY <1>1 DEF Encode, OneFrameHeld, tape
<1>7. \A i \in Slots : PCM'[i] = <<>>
  BY <1>1, <1>2 DEF Encode, OneFrameHeld
<1>8. NoFrameHeld'
  BY <1>1, <1>3, <1>6, <1>7 DEF NoFrameHeld, OneFrameHeld
<1>9. /\ file /\ \A i \in Slots : buf[i]
      /\ device \/ cut
      /\ state = "recording"
  BY <1>1 DEF Encode, RecordingInv, Recording, OneFrameHeld
<1> QED
  BY <1>5, <1>6, <1>8, <1>9 DEF RecordingInv, Recording

(* The end of the input, and every other reason for nothing to read.        *)
LEMMA ReadNothingStep ==
  ASSUME TypeOK, RecordingInv, ReadNothing
  PROVE  RecordingInv'
<1>1. NoFrameHeld /\ (device \/ cut)
  BY DEF ReadNothing, RecordingInv, Recording
<1>2. UNCHANGED <<input, file, buf, PCM, FullNum, ReadIdx, WriteIdx, device, pos, recorded>>
      /\ pc' = "encode"
  BY DEF ReadNothing, ring
<1>3. cut' \/ pos = input
  BY <1>1, LimitIsEnough, RecorderAssumption DEF ReadNothing, TypeOK, BlockLimit
<1>4. CASE cut'
  BY <1>1, <1>2, <1>4 DEF RecordingInv, RecordedInOrder, Recording, NoFrameHeld,
     AllFramesRecorded, ReadNothing
<1>5. CASE pos = input /\ UNCHANGED cut
  <2>1. number \in Nat /\ input \in Nat /\ input = number * BUFSIZE + 0
    BY <1>1, <1>5, RecorderAssumption DEF NoFrameHeld, TypeOK
  <2>2. input \div BUFSIZE = number
    BY <2>1, Division, RecorderAssumption
  <2>3. AllFramesRecorded'
    BY <1>1, <1>2, <1>5, <2>1, <2>2, RecorderAssumption DEF AllFramesRecorded, NoFrameHeld
  <2> QED
    BY <1>1, <1>2, <1>5, <2>3 DEF RecordingInv, RecordedInOrder, Recording, NoFrameHeld,
       ReadNothing
<1> QED
  BY <1>3, <1>4, <1>5 DEF ReadNothing
-----------------------------------------------------------------------------
LEMMA RecordingStep ==
  ASSUME TypeOK, RecordingInv, [Next]_vars
  PROVE  RecordingInv'
<1> USE DEF RecordingInv, Recording, RecordedInOrder
<1>1. CASE RecordFile
  BY <1>1 DEF RecordFile, NoFrameHeld, tape
<1>2. CASE RecordFileFails
  BY <1>2 DEF RecordFileFails, AllFramesRecorded
<1>3. CASE Setup
  BY <1>3 DEF Setup, NoFrameHeld, ring
<1>4. CASE SetupFails
  BY <1>4 DEF SetupFails, AllFramesRecorded, ring
<1>5. CASE CheckCommand
  BY <1>5 DEF CheckCommand, NoFrameHeld, AllFramesRecorded, ring, tape
<1>6. CASE Read
  BY <1>6, ReadStep
<1>7. CASE ReadNothing
  BY <1>7, ReadNothingStep
<1>8. CASE Encode
  BY <1>8, EncodeStep
<1>9. CASE EncodeFails
  BY <1>9 DEF EncodeFails, AllFramesRecorded
<1>10. CASE NothingToEncode
  BY <1>10 DEF NothingToEncode, OneFrameHeld, AllFramesRecorded, ring, tape
<1>11. CASE NoKey \/ KeyRight \/ PauseWait
  BY <1>11 DEF NoKey, KeyRight, PauseWait, NoFrameHeld, ring, tape
<1>12. CASE KeyHome
  BY <1>12 DEF KeyHome, AllFramesRecorded
<1>13. CASE Finish
  BY <1>13 DEF Finish, AllFramesRecorded
<1>14. CASE UNCHANGED vars
  BY <1>14 DEF vars, ring, tape, NoFrameHeld, OneFrameHeld, AllFramesRecorded
<1> QED
  BY <1>1, <1>2, <1>3, <1>4, <1>5, <1>6, <1>7, <1>8, <1>9, <1>10, <1>11, <1>12,
     <1>13, <1>14 DEF Next, Recorder, Round, Exited

LEMMA Inductive == Spec => [](TypeOK /\ RecordingInv)
<1>1. Init => TypeOK
  <2>1. Init => PCM \in [Slots -> Seq(Bytes)] /\ \A i \in Slots : Len(PCM[i]) <= BUFSIZE
    BY EmptySeq, RecorderAssumption DEF Init
  <2>2. Init => recorded \in Seq(Bytes)
    BY EmptySeq DEF Init
  <2> QED
    BY <2>1, <2>2, RecorderAssumption DEF Init, TypeOK, Slots, States
<1>2. Init => RecordingInv
  BY RecorderAssumption DEF Init, RecordingInv, RecordedInOrder, Recording, NoFrameHeld, Slots
<1>3. TypeOK /\ RecordingInv /\ [Next]_vars => TypeOK' /\ RecordingInv'
  BY TypeStep, RecordingStep
<1> QED
  BY <1>1, <1>2, <1>3, PTL DEF Spec

(* Every variable of the recorder keeps its type: no buffer is filled past   *)
(* its size, no index leaves the ring, and no byte is read past the input.   *)
THEOREM TypeCorrect == Spec => []TypeOK
  BY Inductive, PTL

(* What is in the file is always the beginning of the input, in order and    *)
(* without a gap, whatever key or fault ends the recording.                  *)
THEOREM InOrder == Spec => []RecordedInOrder
<1>1. RecordingInv => RecordedInOrder
  BY DEF RecordingInv
<1> QED
  BY <1>1, Inductive, PTL

(* A recording that no key and no fault ends holds every whole frame of the  *)
(* input: the limit on the number of blocks never comes first.               *)
THEOREM AllWholeFrames == Spec => []WholeFramesRecorded
<1>1. RecordingInv => WholeFramesRecorded
  BY DEF RecordingInv, WholeFramesRecorded, AllFramesRecorded
<1> QED
  BY <1>1, Inductive, PTL

(* A frame is only encoded from allocated buffers into an open file.         *)
THEOREM OpenFile == Spec => []EncodesIntoOpenFile
<1>1. TypeOK /\ RecordingInv => EncodesIntoOpenFile
  BY DEF TypeOK, RecordingInv, Recording, EncodesIntoOpenFile
<1> QED
  BY <1>1, Inductive, PTL

(* A pause does not end in any state: the wait of AACRecorder_Pause is for a *)
(* state that no part of the program ever sets.                              *)
THEOREM PauseNeverEnds == Spec => [][pc = "pause" => pc' = "pause"]_pc
<1>1. RecordingInv /\ [Next]_vars => [pc = "pause" => pc' = "pause"]_pc
  BY DEF RecordingInv, Next, Recorder, Round, Exited, vars, RecordFile, RecordFileFails,
     Setup, SetupFails, CheckCommand, Read, ReadNothing, Encode, EncodeFails,
     NothingToEncode, NoKey, KeyRight, PauseWait, KeyHome, Finish
<1> QED
  BY <1>1, Inductive, PTL DEF Spec
=============================================================================
