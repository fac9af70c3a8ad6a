-------------------------- MODULE FrameFeedProofs ---------------------------
(***************************************************************************)
(* Theorems about the decoded-frame ring, for every number of slots, every *)
(* size of a frame and every length of the file.  The order of the         *)
(* invariants is the order of the argument: types; the count's bounds,     *)
(* which need no exactness; and the exactness of the count until an update *)
(* is lost, from which the order of the samples heard, the room in the     *)
(* ring and the life of the block that is written from follow.             *)
(***************************************************************************)
EXTENDS FrameFeed, TLAPS

(* A sequence of numbers with another one behind it. *)
LEMMA Joined ==
  ASSUME NEW s \in Seq(Nat), NEW t \in Seq(Nat)
  PROVE  /\ s \o t \in Seq(Nat)
         /\ Len(s \o t) = Len(s) + Len(t)
         /\ \A i \in 1 .. Len(s) : (s \o t)[i] = s[i]
         /\ \A i \in Len(s) + 1 .. Len(s) + Len(t) : (s \o t)[i] = t[i - Len(s)]
  OBVIOUS

(* What PlayWrite does to the samples heard. *)
LEMMA PlayedGrows ==
  ASSUME TypeOK, PlayWrite
  PROVE  /\ played' \in Seq(Nat)
         /\ Len(played') = Len(played) + fill
         /\ \A i \in 1 .. Len(played) : played'[i] = played[i]
         /\ \A i \in Len(played) + 1 .. Len(played) + fill :
              played'[i] = UnitHeld(i - Len(played) - 1)
<1> DEFINE t == [i \in 1 .. fill |-> UnitHeld(i - 1)]
<1>1. /\ played \in Seq(Nat)
      /\ fill \in Nat
      /\ off \in Nat
      /\ ReadIdx \in Slots
      /\ first \in [Slots -> Nat]
      /\ last \in [Slots -> Nat]
  BY DEF TypeOK, RingTypeOK
<1>2. first[ReadIdx] \in Nat /\ last[ReadIdx] \in Nat
  BY <1>1
<1>3. \A i \in 1 .. fill : UnitHeld(i - 1) \in Nat
  BY <1>1, <1>2 DEF UnitHeld
<1>4. t \in [1 .. fill -> Nat]
  BY <1>3
<1>5. t \in Seq(Nat) /\ Len(t) = fill
  BY <1>1, <1>4
<1>6. \A i \in 1 .. fill : t[i] = UnitHeld(i - 1)
  OBVIOUS
<1>7. played' = played \o t
  BY DEF PlayWrite
<1> HIDE DEF t
<1>8. /\ played' \in Seq(Nat)
      /\ Len(played') = Len(played) + fill
      /\ \A i \in 1 .. Len(played) : played'[i] = played[i]
      /\ \A i \in Len(played) + 1 .. Len(played) + fill : played'[i] = t[i - Len(played)]
  BY <1>1, <1>5, <1>7, Joined
<1>9. ASSUME NEW i \in Len(played) + 1 .. Len(played) + fill
      PROVE  t[i - Len(played)] = UnitHeld(i - Len(played) - 1)
  <2>1. i - Len(played) \in 1 .. fill
    BY <1>1
  <2> QED
    BY <1>6, <2>1
<1> QED
  BY <1>8, <1>9

(* The shared variables and the program counters keep their types: no index *)
(* leaves the ring, whatever FullNum drifts to.                             *)
THEOREM TypeCorrect == Spec => []TypeOK
<1>1. Init => TypeOK
  BY RingAssumption, FeedAssumption
     DEF Init, RingInit, TypeOK, RingTypeOK, Slots, Blocks, DecPcs, PlayPcs
<1>2. TypeOK /\ [Next]_vars => TypeOK'
  <2> SUFFICES ASSUME TypeOK, [Next]_vars
               PROVE  TypeOK'
    OBVIOUS
  <2> USE RingAssumption, FeedAssumption
      DEF TypeOK, RingTypeOK, Slots, Sizes, Blocks, DecPcs, PlayPcs, ringVars, samples,
          decVars, playVars
  <2>1. CASE DecodeCheck
    BY <2>1 DEF DecodeCheck
  <2>2. CASE DecodeFrame
    <3>1. PICK n \in Sizes : dsize' = n /\ dpc' = IF BufSize[WriteIdx] < n THEN "grow" ELSE "copy"
      BY <2>2 DEF DecodeFrame
    <3>2. dsize' \in 0 .. MaxSize /\ dpc' \in {"grow", "copy"}
      BY <3>1
    <3> QED
      BY <2>2, <3>2 DEF DecodeFrame
  <2>3. CASE DecodeEnd
    BY <2>3 DEF DecodeEnd
  <2>4. CASE DecodeGrow
    BY <2>4 DEF DecodeGrow, FreeBlock
  <2>5. CASE DecodeGrown
    BY <2>5 DEF DecodeGrown, NewBlock
  <2>6. CASE DecodeNoMemory
    BY <2>6 DEF DecodeNoMemory, NoBlock
  <2>7. CASE DecodeCopy
    <3>1. decoded + dsize \in Nat /\ decoded + 1 \in Nat
      OBVIOUS
    <3>2. /\ first' \in [Slots -> Nat]
          /\ last' \in [Slots -> Nat]
          /\ decoded' \in Nat
          /\ dpc' = "size"
      BY <2>7, <3>1 DEF DecodeCopy
    <3> QED
      BY <2>7, <3>2 DEF DecodeCopy
  <2>8. CASE DecodeSize
    <3>1. dsize \in Int
      OBVIOUS
    <3>2. PCMSize' \in [Slots -> Int]
      BY <2>8, <3>1 DEF DecodeSize, SizeSlot
    <3> QED
      BY <2>8, <3>2 DEF DecodeSize, SizeSlot
  <2>9. CASE DecodeLoad
    BY <2>9 DEF DecodeLoad
  <2>10. CASE DecodeStore
    <3>1. PICK more \in BOOLEAN : dpc' = (IF more THEN "check" ELSE "done") /\ decAlive' = more
      BY <2>10, Zenon DEF DecodeStore
    <3>2. dpc' \in {"check", "done"} /\ decAlive' \in BOOLEAN
      BY <3>1, Zenon
    <3>3. raced' \in BOOLEAN
      BY <2>10, Zenon DEF DecodeStore, CommitSlot
    <3>4. WriteIdx' \in Slots /\ FullNum' \in Int /\ dsize' \in 0 .. MaxSize /\ dreg' \in Int
      BY <2>10 DEF DecodeStore, CommitSlot, NextIdx
    <3> QED
      BY <2>10, <3>2, <3>3, <3>4 DEF DecodeStore, CommitSlot
  <2>11. CASE Precharge
    BY <2>11 DEF Precharge
  <2>12. CASE PlayCheck
    BY <2>12 DEF PlayCheck
  <2>13. CASE PlayAlive
    BY <2>13 DEF PlayAlive
  <2>14. CASE PlayTake
    BY <2>14 DEF PlayTake
  <2>15. CASE PlaySize
    <3>1. PCMSize[ReadIdx] \in Int
      OBVIOUS
    <3>2. fill' \in Nat /\ ppc' \in {"write", "load"}
      BY <2>15, <3>1 DEF PlaySize
    <3> QED
      BY <2>15, <3>2 DEF PlaySize
  <2>16. CASE PlayWrite
    <3>1. off' \in Nat /\ ppc' = "sub"
      BY <2>16 DEF PlayWrite
    <3>2. played' \in Seq(Nat)
      BY <2>16, PlayedGrows
    <3> QED
      BY <2>16, <3>1, <3>2 DEF PlayWrite
  <2>17. CASE PlayNothing
    BY <2>17 DEF PlayNothing
  <2>18. CASE PlaySub
    BY <2>18 DEF PlaySub
  <2>19. CASE PlaySubst
    BY <2>19 DEF PlaySubst, CountDown
  <2>20. CASE PlayLoad
    BY <2>20 DEF PlayLoad
  <2>21. CASE PlayStore
    BY <2>21 DEF PlayStore, ReleaseSlot, NextIdx
  <2>22. CASE UNCHANGED vars
    BY <2>22 DEF vars
  <2> QED
    BY <2>1, <2>2, <2>3, <2>4, <2>5, <2>6, <2>7, <2>8, <2>9, <2>10, <2>11,
       <2>12, <2>13, <2>14, <2>15, <2>16, <2>17, <2>18, <2>19, <2>20, <2>21, <2>22
       DEF Next, Decoder, Player, Finished
<1> QED
  BY <1>1, <1>2, PTL DEF Spec
-----------------------------------------------------------------------------
(* The count never leaves 0..DECFRAME_BUFNUM although FullNum++ and         *)
(* FullNum-- race.  The decode thread's store can only undo releases and    *)
(* the playback thread's only undo commits, so what either thread has       *)
(* checked before its update stays true.                                    *)
THEOREM CountBounded == Spec => []CountInBounds
<1>1. Init => CountInBounds
  BY RingAssumption DEF Init, RingInit, CountInBounds, Filling, Emptying
<1>2. TypeOK /\ CountInBounds /\ [Next]_vars => CountInBounds'
  <2> SUFFICES ASSUME TypeOK, CountInBounds, [Next]_vars
               PROVE  CountInBounds'
    OBVIOUS
  <2> USE RingAssumption DEF CountInBounds, Filling, Emptying, ringVars, samples, decVars,
                             playVars
  <2>1. CASE DecodeCheck
    BY <2>1 DEF DecodeCheck
  <2>2. CASE DecodeFrame
    <3>1. dpc = "decode" /\ dpc' \in {"grow", "copy"}
      BY <2>2 DEF DecodeFrame
    <3> QED
      BY <2>2, <3>1 DEF DecodeFrame
  <2>3. CASE DecodeEnd
    BY <2>3 DEF DecodeEnd
  <2>4. CASE DecodeGrow
    BY <2>4 DEF DecodeGrow, FreeBlock
  <2>5. CASE DecodeGrown
    BY <2>5 DEF DecodeGrown, NewBlock
  <2>6. CASE DecodeNoMemory
    BY <2>6 DEF DecodeNoMemory, NoBlock
  <2>7. CASE DecodeCopy
    BY <2>7 DEF DecodeCopy
  <2>8. CASE DecodeSize
    BY <2>8 DEF DecodeSize, SizeSlot
  <2>9. CASE DecodeLoad
    BY <2>9 DEF DecodeLoad
  <2>10. CASE DecodeStore
    <3>1. dpc' \in {"check", "done"}
      BY <2>10 DEF DecodeStore
    <3> QED
      BY <2>10, <3>1 DEF DecodeStore, CommitSlot, TypeOK
  <2>11. CASE Precharge
    BY <2>11 DEF Precharge
  <2>12. CASE PlayCheck
    BY <2>12 DEF PlayCheck
  <2>13. CASE PlayAlive
    BY <2>13 DEF PlayAlive
  <2>14. CASE PlayTake
    BY <2>14 DEF PlayTake
  <2>15. CASE PlaySize
    <3>1. ppc = "size" /\ ppc' \in {"write", "load"}
      BY <2>15 DEF PlaySize
    <3> QED
      BY <2>15, <3>1 DEF PlaySize
  <2>16. CASE PlayWrite
    BY <2>16 DEF PlayWrite
  <2>17. CASE PlayNothing
    BY <2>17 DEF PlayNothing
  <2>18. CASE PlaySub
    BY <2>18 DEF PlaySub
  <2>19. CASE PlaySubst
    BY <2>19 DEF PlaySubst, CountDown
  <2>20. CASE PlayLoad
    BY <2>20 DEF PlayLoad
  <2>21. CASE PlayStore
    BY <2>21 DEF PlayStore, ReleaseSlot, TypeOK
  <2>22. CASE UNCHANGED vars
    BY <2>22 DEF vars
  <2> QED
    BY <2>1, <2>2, <2>3, <2>4, <2>5, <2>6, <2>7, <2>8, <2>9, <2>10, <2>11,
       <2>12, <2>13, <2>14, <2>15, <2>16, <2>17, <2>18, <2>19, <2>20, <2>21, <2>22
       DEF Next, Decoder, Player, Finished
<1> QED
  BY <1>1, <1>2, TypeCorrect, PTL DEF Spec
-----------------------------------------------------------------------------
(* A slot that is noted to have a size has its block, but while realloc()   *)
(* moves it and after it failed; and a frame has samples.                   *)
BlockInv ==
  /\ dpc \in {"grow", "grown", "copy", "size", "load", "store"} => dsize \in Sizes
  /\ \A i \in Slots :
       BufSize[i] > 0 => Buf[i] = "live" \/ (i = WriteIdx /\ dpc \in {"grown", "done"})

LEMMA BlockInvAlways == Spec => []BlockInv
<1>1. Init => BlockInv
  BY DEF Init, RingInit, BlockInv
<1>2. TypeOK /\ BlockInv /\ [Next]_vars => BlockInv'
  <2> SUFFICES ASSUME TypeOK, BlockInv, [Next]_vars
               PROVE  BlockInv'
    OBVIOUS
  <2> USE RingAssumption DEF BlockInv, ringVars, decVars, playVars
  <2>0. WriteIdx \in Slots /\ Buf \in [Slots -> Blocks] /\ BufSize \in [Slots -> 0 .. MaxSize]
    BY DEF TypeOK, RingTypeOK
  <2>1. CASE DecodeFrame
    <3>1. PICK n \in Sizes : dsize' = n /\ dpc' = IF BufSize[WriteIdx] < n THEN "grow" ELSE "copy"
      BY <2>1 DEF DecodeFrame
    <3> QED
      BY <2>1, <3>1 DEF DecodeFrame
  <2>2. CASE DecodeGrow
    BY <2>0, <2>2 DEF DecodeGrow, FreeBlock
  <2>3. CASE DecodeGrown
    <3>1. /\ dpc = "grown" /\ dpc' = "copy"
          /\ UNCHANGED <<WriteIdx, dsize>>
          /\ Buf' = [Buf EXCEPT ![WriteIdx] = "live"]
          /\ BufSize' = [BufSize EXCEPT ![WriteIdx] = dsize]
      BY <2>3 DEF DecodeGrown, NewBlock
    <3>2. ASSUME NEW i \in Slots, i # WriteIdx
          PROVE  Buf'[i] = Buf[i] /\ BufSize'[i] = BufSize[i]
      BY <2>0, <3>1, <3>2
    <3>3. Buf'[WriteIdx] = "live"
      BY <2>0, <3>1
    <3>4. ASSUME NEW i \in Slots, BufSize'[i] > 0
          PROVE  Buf'[i] = "live"
      <4>1. CASE i = WriteIdx
        BY <3>3, <4>1
      <4>2. CASE i # WriteIdx
        BY <3>1, <3>2, <3>4, <4>2
      <4> QED
        BY <4>1, <4>2
    <3>5. dsize' \in Sizes
      BY <3>1
    <3> QED
      BY <3>4, <3>5
  <2>4. CASE DecodeNoMemory
    <3>1. /\ dpc = "grow" /\ dpc' = "done"
          /\ UNCHANGED <<WriteIdx, BufSize, dsize>>
          /\ Buf' = [Buf EXCEPT ![WriteIdx] = "null"]
      BY <2>4 DEF DecodeNoMemory, NoBlock
    <3> QED
      BY <2>0, <3>1
  <2>5. CASE DecodeStore
    <3>1. dpc' \in {"check", "done"} /\ UNCHANGED <<Buf, BufSize>> /\ dpc = "store"
      BY <2>5 DEF DecodeStore, CommitSlot
    <3> QED
      BY <3>1
  <2>6. CASE DecodeCheck \/ DecodeEnd \/ DecodeCopy \/ DecodeSize \/ DecodeLoad
    BY <2>6 DEF DecodeCheck, DecodeEnd, DecodeCopy, DecodeSize, SizeSlot, DecodeLoad
  <2>7. CASE Player
    BY <2>7 DEF Player, Precharge, PlayCheck, PlayAlive, PlayTake, PlaySize, PlayWrite,
                PlayNothing, PlaySub, PlaySubst, CountDown, PlayLoad, PlayStore, ReleaseSlot
  <2>8. CASE UNCHANGED vars
    BY <2>8 DEF vars
  <2> QED
    BY <2>1, <2>2, <2>3, <2>4, <2>5, <2>6, <2>7, <2>8 DEF Next, Decoder, Finished
<1> QED
  BY <1>1, <1>2, TypeCorrect, PTL DEF Spec
-----------------------------------------------------------------------------
(* What is decoded after a full slot fits into the slots after it.          *)
RoomKept ==
  \A k \in 0 .. FullNum - 1 :
    Committed - last[SlotAt(k)] \in 0 .. (FullNum - 1 - k) * MaxSize

(* The exactness of the count with the strengthening that bounds the        *)
(* samples waiting.                                                         *)
Exact ==
  /\ WriteIdx = SlotAt(FullNum)
  /\ FilledInSteps
  /\ EmptiedInSteps
  /\ FullSlotsInOrder
  /\ RoomKept

ExactInv == ~raced => Exact

Invs == TypeOK /\ CountInBounds /\ BlockInv

(* What the steps of the proof use of the two type invariants. *)
LEMMA RingTypes ==
  ASSUME TypeOK, CountInBounds
  PROVE  /\ BUFNUM \in Nat \ {0}
         /\ MaxSize \in Nat \ {0}
         /\ ReadIdx \in 0 .. BUFNUM - 1
         /\ WriteIdx \in 0 .. BUFNUM - 1
         /\ FullNum \in 0 .. BUFNUM
         /\ PCMSize \in [0 .. BUFNUM - 1 -> Int]
         /\ Buf \in [0 .. BUFNUM - 1 -> Blocks]
         /\ BufSize \in [0 .. BUFNUM - 1 -> 0 .. MaxSize]
         /\ first \in [0 .. BUFNUM - 1 -> Nat]
         /\ last \in [0 .. BUFNUM - 1 -> Nat]
         /\ decoded \in Nat
         /\ dsize \in 0 .. MaxSize
         /\ off \in Nat
         /\ fill \in Nat
         /\ preg \in Int
         /\ Len(played) \in Nat
         /\ Committed \in Int
<1>1. /\ decoded \in Nat
      /\ dsize \in 0 .. MaxSize
      /\ MaxSize \in Nat \ {0}
  BY RingAssumption DEF TypeOK
<1>2. Committed \in Int
  BY <1>1 DEF Committed
<1>3. FullNum \in 0 .. BUFNUM
  BY DEF CountInBounds
<1>4. Len(played) \in Nat
  BY DEF TypeOK
<1> QED
  BY <1>1, <1>2, <1>3, <1>4, RingAssumption DEF TypeOK, RingTypeOK, Slots

(* The part of it that index arithmetic needs. *)
LEMMA IndexTypes ==
  ASSUME TypeOK, CountInBounds
  PROVE  /\ BUFNUM \in Nat \ {0}
         /\ ReadIdx \in 0 .. BUFNUM - 1
         /\ FullNum \in 0 .. BUFNUM
  BY RingTypes

(* The full slots are apart, and with room left none of them is the one of *)
(* the write index.                                                         *)
LEMMA SlotsApart ==
  ASSUME TypeOK, CountInBounds, WriteIdx = SlotAt(FullNum)
  PROVE  /\ SlotAt(0) = ReadIdx
         /\ \A k \in 0 .. FullNum - 1 :
              /\ SlotAt(k) \in 0 .. BUFNUM - 1
              /\ k > 0 => SlotAt(k) # ReadIdx /\ k - 1 \in 0 .. FullNum - 1
              /\ FullNum < BUFNUM => SlotAt(k) # WriteIdx
         /\ FullNum \in 1 .. BUFNUM - 1 => WriteIdx # ReadIdx
  BY IndexTypes DEF SlotAt

(* A step of the decode thread that stays at the slot of the write index,  *)
(* with room left, does not touch what the full slots hold nor where the   *)
(* playback thread is in the oldest of them.                               *)
LEMMA DecoderSide ==
  ASSUME TypeOK, CountInBounds, Exact, FullNum < BUFNUM,
         UNCHANGED <<ReadIdx, WriteIdx, FullNum, played, ppc, preg, off, fill>>,
         held' = held \/ ReadIdx = WriteIdx,
         Committed' = Committed,
         \A i \in 0 .. BUFNUM - 1 :
           i # WriteIdx =>
             /\ Buf'[i] = Buf[i] /\ BufSize'[i] = BufSize[i] /\ PCMSize'[i] = PCMSize[i]
             /\ first'[i] = first[i] /\ last'[i] = last[i]
  PROVE  /\ (WriteIdx = SlotAt(FullNum))'
         /\ EmptiedInSteps'
         /\ FullSlotsInOrder'
         /\ RoomKept'
<1>1. WriteIdx = SlotAt(FullNum)
  BY DEF Exact
<1>2. /\ SlotAt(0) = ReadIdx
      /\ \A k \in 0 .. FullNum - 1 :
           /\ SlotAt(k) \in 0 .. BUFNUM - 1
           /\ k > 0 => SlotAt(k) # ReadIdx /\ k - 1 \in 0 .. FullNum - 1
           /\ SlotAt(k) # WriteIdx
      /\ FullNum > 0 => WriteIdx # ReadIdx
  BY <1>1, SlotsApart, RingTypes
<1>3. \A k : SlotAt(k)' = SlotAt(k)
  BY DEF SlotAt
<1>4. (WriteIdx = SlotAt(FullNum))'
  BY <1>1, <1>3
<1>5. \A k \in 0 .. FullNum - 1 :
        /\ Buf'[SlotAt(k)] = Buf[SlotAt(k)]
        /\ BufSize'[SlotAt(k)] = BufSize[SlotAt(k)]
        /\ PCMSize'[SlotAt(k)] = PCMSize[SlotAt(k)]
        /\ first'[SlotAt(k)] = first[SlotAt(k)]
        /\ last'[SlotAt(k)] = last[SlotAt(k)]
  BY <1>2
<1>6. EmptiedInSteps'
  <2>1. CASE FullNum = 0
    BY <2>1, RingTypes DEF Exact, EmptiedInSteps, Emptying
  <2>2. CASE FullNum > 0
    <3>1. /\ ReadIdx' = ReadIdx /\ FullNum' = FullNum /\ held' = held
          /\ PCMSize'[ReadIdx] = PCMSize[ReadIdx]
          /\ first'[ReadIdx] = first[ReadIdx] /\ last'[ReadIdx] = last[ReadIdx]
      BY <1>2, <2>2, RingTypes
    <3>2. FrameLen(ReadIdx)' = FrameLen(ReadIdx)
      BY <3>1 DEF FrameLen
    <3> QED
      BY <2>2, <3>1, <3>2 DEF Exact, EmptiedInSteps, Emptying
  <2> QED
    BY <2>1, <2>2, RingTypes
<1>7. FullSlotsInOrder'
  <2>1. ASSUME NEW k \in 0 .. FullNum - 1
        PROVE  /\ Buf'[SlotAt(k)] = "live"
               /\ last'[SlotAt(k)] - first'[SlotAt(k)] + 1 \in 1 .. BufSize'[SlotAt(k)]
               /\ k > 0 => /\ PCMSize'[SlotAt(k)] = last'[SlotAt(k)] - first'[SlotAt(k)] + 1
                           /\ first'[SlotAt(k)] = last'[SlotAt(k - 1)] + 1
               /\ k = FullNum - 1 => last'[SlotAt(k)] = Committed
    BY <1>2, <1>5 DEF Exact, FullSlotsInOrder, FrameLen
  <2>2. FullNum = 0 => Committed = Len(played)
    BY DEF Exact, FullSlotsInOrder
  <2> QED
    BY <1>3, <2>1, <2>2 DEF FullSlotsInOrder, FrameLen
<1>8. RoomKept'
  BY <1>3, <1>5 DEF Exact, RoomKept
<1> QED
  BY <1>4, <1>6, <1>7, <1>8

(* A step of the playback thread that stays at the slot of the read index  *)
(* changes no more of the ring than the size of that slot, and nothing of  *)
(* the slot the decode thread is filling.                                  *)
LEMMA PlaybackSide ==
  ASSUME TypeOK, CountInBounds, Exact,
         UNCHANGED <<ReadIdx, WriteIdx, FullNum, Buf, BufSize, first, last, decoded, decVars>>,
         FullNum > 0 \/ UNCHANGED <<played, PCMSize>>,
         \A i \in 0 .. BUFNUM - 1 : i # ReadIdx => PCMSize'[i] = PCMSize[i]
  PROVE  /\ (WriteIdx = SlotAt(FullNum))'
         /\ FilledInSteps'
         /\ FullSlotsInOrder'
         /\ RoomKept'
<1>1. WriteIdx = SlotAt(FullNum)
  BY DEF Exact
<1>2. /\ \A k \in 0 .. FullNum - 1 :
           /\ SlotAt(k) \in 0 .. BUFNUM - 1
           /\ k > 0 => SlotAt(k) # ReadIdx
      /\ FullNum \in 1 .. BUFNUM - 1 => WriteIdx # ReadIdx
  BY <1>1, SlotsApart
<1>3. \A k : SlotAt(k)' = SlotAt(k)
  BY DEF SlotAt
<1>4. Committed' = Committed
  BY DEF Committed, decVars
<1>5. \A i : FrameLen(i)' = FrameLen(i)
  BY DEF FrameLen
<1>6. (WriteIdx = SlotAt(FullNum))'
  BY <1>1, <1>3
<1>7. FilledInSteps'
  <2>1. ASSUME Filling
        PROVE  PCMSize'[WriteIdx] = PCMSize[WriteIdx]
    <3>1. FullNum < BUFNUM
      BY <2>1 DEF Exact, FilledInSteps
    <3>2. CASE FullNum > 0
      <4>1. WriteIdx # ReadIdx /\ WriteIdx \in 0 .. BUFNUM - 1
        BY <1>2, <3>1, <3>2, RingTypes
      <4> QED
        BY <4>1
    <3> QED
      BY <3>2
  <2> QED
    BY <2>1 DEF Exact, FilledInSteps, Filling, decVars
<1>8. FullSlotsInOrder'
  <2>1. ASSUME NEW k \in 0 .. FullNum - 1, k > 0
        PROVE  PCMSize'[SlotAt(k)] = PCMSize[SlotAt(k)]
    BY <1>2, <2>1
  <2>2. ASSUME FullNum = 0
        PROVE  UNCHANGED played
    BY <2>2
  <2> QED
    BY <1>3, <1>4, <1>5, <2>1, <2>2 DEF Exact, FullSlotsInOrder
<1>9. RoomKept'
  BY <1>3, <1>4 DEF Exact, RoomKept
<1> QED
  BY <1>6, <1>7, <1>8, <1>9

LEMMA FillingKeepsExact ==
  ASSUME Invs, Exact,
         \/ DecodeCheck \/ DecodeFrame \/ DecodeEnd \/ DecodeGrow \/ DecodeGrown
         \/ DecodeNoMemory \/ DecodeCopy \/ DecodeSize \/ DecodeLoad
  PROVE  Exact'
<1> USE DEF Invs, ringVars, samples, playVars
<1>1. FullNum < BUFNUM
  <2>1. Filling => FullNum < BUFNUM
    BY DEF Exact, FilledInSteps
  <2> QED
    BY <2>1 DEF Filling, DecodeCheck, DecodeFrame, DecodeEnd, DecodeGrow, DecodeGrown,
                DecodeNoMemory, DecodeCopy, DecodeSize, DecodeLoad
<1>2. /\ BUFNUM \in Nat \ {0}
      /\ WriteIdx \in 0 .. BUFNUM - 1
      /\ FullNum \in 0 .. BUFNUM
      /\ PCMSize \in [0 .. BUFNUM - 1 -> Int]
      /\ Buf \in [0 .. BUFNUM - 1 -> Blocks]
      /\ BufSize \in [0 .. BUFNUM - 1 -> 0 .. MaxSize]
      /\ first \in [0 .. BUFNUM - 1 -> Nat]
      /\ last \in [0 .. BUFNUM - 1 -> Nat]
      /\ decoded \in Nat
      /\ dsize \in 0 .. MaxSize
      /\ MaxSize \in Nat
  BY RingTypes
<1>3. /\ UNCHANGED <<ReadIdx, WriteIdx, FullNum, played, ppc, preg, off, fill>>
      /\ held' = held \/ ReadIdx = WriteIdx
  BY DEF DecodeCheck, DecodeFrame, DecodeEnd, DecodeGrow, DecodeGrown, DecodeNoMemory,
         DecodeCopy, DecodeSize, DecodeLoad, FreeBlock, NewBlock, NoBlock, SizeSlot
<1>4. \A i \in 0 .. BUFNUM - 1 :
        i # WriteIdx =>
          /\ Buf'[i] = Buf[i] /\ BufSize'[i] = BufSize[i] /\ PCMSize'[i] = PCMSize[i]
          /\ first'[i] = first[i] /\ last'[i] = last[i]
  BY <1>2 DEF DecodeCheck, DecodeFrame, DecodeEnd, DecodeGrow, DecodeGrown, DecodeNoMemory,
              DecodeCopy, DecodeSize, DecodeLoad, FreeBlock, NewBlock, NoBlock, SizeSlot
<1>5. Committed' = Committed /\ FilledInSteps'
  <2> USE <1>1, <1>2 DEF Committed, FilledInSteps, Filling
  <2>1. CASE DecodeCheck
    BY <2>1 DEF DecodeCheck
  <2>2. CASE DecodeFrame
    <3>1. PICK n \in Sizes : dsize' = n /\ dpc' = IF BufSize[WriteIdx] < n THEN "grow" ELSE "copy"
      BY <2>2 DEF DecodeFrame
    <3>2. /\ dpc = "decode"
          /\ UNCHANGED <<FullNum, WriteIdx, Buf, BufSize, decoded>>
      BY <2>2 DEF DecodeFrame
    <3>3. ASSUME dpc' = "copy"
          PROVE  Buf[WriteIdx] = "live" /\ BufSize[WriteIdx] >= n
      <4>1. BufSize[WriteIdx] >= n /\ BufSize[WriteIdx] > 0
        BY <3>1, <3>3 DEF Sizes
      <4> QED
        BY <3>2, <4>1 DEF BlockInv, Slots
    <3> QED
      BY <3>1, <3>2, <3>3
  <2>3. CASE DecodeEnd
    BY <2>3 DEF DecodeEnd
  <2>4. CASE DecodeGrow
    BY <2>4 DEF DecodeGrow, FreeBlock
  <2>5. CASE DecodeGrown
    BY <2>5 DEF DecodeGrown, NewBlock
  <2>6. CASE DecodeNoMemory
    BY <2>6 DEF DecodeNoMemory, NoBlock
  <2>7. CASE DecodeCopy
    BY <2>7 DEF DecodeCopy, Exact
  <2>8. CASE DecodeSize
    BY <2>8 DEF DecodeSize, SizeSlot, Exact
  <2>9. CASE DecodeLoad
    BY <2>9 DEF DecodeLoad, Exact
  <2> QED
    BY <2>1, <2>2, <2>3, <2>4, <2>5, <2>6, <2>7, <2>8, <2>9
<1> QED
  BY <1>1, <1>3, <1>4, <1>5, DecoderSide DEF Exact

LEMMA CommitKeepsExact ==
  ASSUME Invs, Exact, DecodeStore, dreg = FullNum
  PROVE  Exact'
<1>1. dpc' \in {"check", "done"}
  BY DEF DecodeStore
<1>2. /\ dpc = "store"
      /\ FullNum' = FullNum + 1
      /\ WriteIdx' = NextIdx(WriteIdx)
      /\ dsize' = 0
      /\ UNCHANGED <<ReadIdx, PCMSize, Buf, BufSize, first, last, decoded, played,
                     ppc, preg, held, off, fill>>
  BY DEF DecodeStore, CommitSlot, samples, playVars
<1>3. /\ FullNum \in 0 .. BUFNUM - 1
      /\ WriteIdx = SlotAt(FullNum)
      /\ Buf[WriteIdx] = "live"
      /\ BufSize[WriteIdx] >= dsize
      /\ first[WriteIdx] = decoded - dsize + 1
      /\ last[WriteIdx] = decoded
      /\ PCMSize[WriteIdx] = dsize
  <2>1. Filling
    BY <1>2 DEF Filling
  <2>2. FullNum < BUFNUM /\ WriteIdx = SlotAt(FullNum)
    BY <2>1 DEF Exact, FilledInSteps
  <2> QED
    BY <1>2, <2>2, RingTypes DEF Exact, FilledInSteps, Invs
<1>4. dsize \in 1 .. MaxSize /\ MaxSize \in Nat
  BY <1>2, RingAssumption DEF Invs, BlockInv, Sizes
<1>5. /\ BUFNUM \in Nat \ {0}
      /\ ReadIdx \in 0 .. BUFNUM - 1
      /\ decoded \in Nat
      /\ last \in [0 .. BUFNUM - 1 -> Nat]
      /\ Len(played) \in Nat
      /\ off \in Nat
  BY RingTypes DEF Invs
<1>6. Committed = decoded - dsize /\ Committed' = decoded
  BY <1>1, <1>2, <1>5 DEF Committed
<1>7. \A k : SlotAt(k)' = SlotAt(k)
  BY <1>2 DEF SlotAt
<1>8. /\ SlotAt(0) = ReadIdx
      /\ \A k \in 0 .. FullNum - 1 : SlotAt(k) \in 0 .. BUFNUM - 1
  BY <1>3, SlotsApart DEF Invs
<1>9. WriteIdx' = SlotAt(FullNum)'
  <2>1. WriteIdx' = SlotAt(FullNum + 1)
    BY <1>2, <1>3, <1>5 DEF SlotAt, NextIdx
  <2> QED
    BY <1>2, <2>1 DEF SlotAt
<1>10. FilledInSteps'
  BY <1>1 DEF FilledInSteps, Filling
<1>11. EmptiedInSteps'
  <2>1. CASE FullNum = 0
    <3>1. /\ WriteIdx = ReadIdx
          /\ Committed = Len(played)
          /\ ~Emptying /\ off = 0
      BY <1>3, <1>8, <2>1 DEF Exact, FullSlotsInOrder, EmptiedInSteps
    <3>2. /\ first[ReadIdx] + off = Len(played) + 1
          /\ PCMSize[ReadIdx] = FrameLen(ReadIdx) - off + 0
      BY <1>3, <1>4, <1>5, <1>6, <3>1 DEF FrameLen
    <3>3. ~Emptying' /\ off' = 0 /\ ppc' \notin {"sub", "subst"}
      BY <1>2, <3>1 DEF Emptying
    <3>4. FrameLen(ReadIdx)' = FrameLen(ReadIdx)
      BY <1>2 DEF FrameLen
    <3> QED
      BY <1>2, <3>2, <3>3, <3>4 DEF EmptiedInSteps, Emptying
  <2>2. CASE FullNum > 0
    <3>1. FullNum' > 0
      BY <1>2, <1>3
    <3> QED
      BY <1>2, <2>2, <3>1 DEF Exact, EmptiedInSteps, Emptying, FrameLen
  <2> QED
    BY <1>3, <2>1, <2>2
<1>12. FullSlotsInOrder'
  <2>1. ASSUME NEW k \in 0 .. FullNum - 1
        PROVE  /\ Buf[SlotAt(k)] = "live"
               /\ FrameLen(SlotAt(k)) \in 1 .. BufSize[SlotAt(k)]
               /\ k > 0 => /\ PCMSize[SlotAt(k)] = FrameLen(SlotAt(k))
                           /\ first[SlotAt(k)] = last[SlotAt(k - 1)] + 1
    BY DEF Exact, FullSlotsInOrder
  <2>2. /\ Buf[SlotAt(FullNum)] = "live"
        /\ FrameLen(SlotAt(FullNum)) = dsize
        /\ dsize \in 1 .. BufSize[SlotAt(FullNum)]
        /\ PCMSize[SlotAt(FullNum)] = dsize
        /\ last[SlotAt(FullNum)] = decoded
    <3>1. BufSize[WriteIdx] \in Nat
      BY RingTypes DEF Invs
    <3> QED
      BY <1>3, <1>4, <1>5, <3>1 DEF FrameLen
  <2>3. ASSUME FullNum > 0
        PROVE  first[SlotAt(FullNum)] = last[SlotAt(FullNum - 1)] + 1
    <3>1. last[SlotAt(FullNum - 1)] = Committed
      BY <1>3, <2>3 DEF Exact, FullSlotsInOrder
    <3> QED
      BY <1>3, <1>4, <1>5, <1>6, <3>1
  <2>4. ASSUME NEW k \in 0 .. FullNum
        PROVE  /\ Buf[SlotAt(k)] = "live"
               /\ FrameLen(SlotAt(k)) \in 1 .. BufSize[SlotAt(k)]
               /\ k > 0 => /\ PCMSize[SlotAt(k)] = FrameLen(SlotAt(k))
                           /\ first[SlotAt(k)] = last[SlotAt(k - 1)] + 1
               /\ k = FullNum => last[SlotAt(k)] = Committed'
    <3>1. CASE k = FullNum
      BY <1>3, <1>6, <2>2, <2>3, <3>1
    <3>2. CASE k # FullNum
      <4>1. k \in 0 .. FullNum - 1
        BY <1>3, <3>2
      <4> QED
        BY <2>1, <3>2, <4>1
    <3> QED
      BY <3>1, <3>2
  <2>5. FullNum' - 1 = FullNum /\ FullNum' # 0
    BY <1>2, <1>3
  <2> QED
    BY <1>2, <1>7, <2>4, <2>5 DEF FullSlotsInOrder, FrameLen
<1>13. RoomKept'
  <2>1. ASSUME NEW k \in 0 .. FullNum
        PROVE  Committed' - last[SlotAt(k)] \in 0 .. (FullNum - k) * MaxSize
    <3>1. CASE k = FullNum
      BY <1>3, <1>4, <1>5, <1>6, <3>1
    <3>2. CASE k # FullNum
      <4>1. k \in 0 .. FullNum - 1
        BY <1>3, <3>2
      <4>2. Committed - last[SlotAt(k)] \in 0 .. (FullNum - 1 - k) * MaxSize
        BY <4>1 DEF Exact, RoomKept
      <4>3. (FullNum - k) * MaxSize = (FullNum - 1 - k) * MaxSize + MaxSize
        BY <1>3, <1>4, <4>1
      <4>4. last[SlotAt(k)] \in Nat /\ (FullNum - 1 - k) * MaxSize \in Int
        BY <1>3, <1>4, <1>5, <1>8, <4>1
      <4> QED
        BY <1>4, <1>5, <1>6, <4>2, <4>3, <4>4
    <3> QED
      BY <3>1, <3>2
  <2>2. FullNum' - 1 = FullNum
    BY <1>2, <1>3
  <2> QED
    BY <1>2, <1>7, <2>1, <2>2 DEF RoomKept
<1> QED
  BY <1>9, <1>10, <1>11, <1>12, <1>13 DEF Exact

LEMMA EmptyingKeepsExact ==
  ASSUME Invs, Exact,
         \/ Precharge \/ PlayCheck \/ PlayAlive \/ PlayTake \/ PlaySize \/ PlayWrite
         \/ PlayNothing \/ PlaySub \/ PlaySubst \/ PlayLoad
  PROVE  Exact'
<1> USE DEF Invs, ringVars, samples, decVars
<1>1. /\ BUFNUM \in Nat \ {0}
      /\ ReadIdx \in 0 .. BUFNUM - 1
      /\ FullNum \in 0 .. BUFNUM
      /\ PCMSize \in [0 .. BUFNUM - 1 -> Int]
      /\ first \in [0 .. BUFNUM - 1 -> Nat]
      /\ last \in [0 .. BUFNUM - 1 -> Nat]
      /\ off \in Nat
      /\ fill \in Nat
      /\ preg \in Int
      /\ Len(played) \in Nat
  BY RingTypes
<1>2. UNCHANGED <<ReadIdx, WriteIdx, FullNum, Buf, BufSize, first, last, decoded, decVars>>
  BY DEF Precharge, PlayCheck, PlayAlive, PlayTake, PlaySize, PlayWrite, PlayNothing,
         PlaySub, PlaySubst, CountDown, PlayLoad
<1>3. \A i \in 0 .. BUFNUM - 1 : i # ReadIdx => PCMSize'[i] = PCMSize[i]
  BY <1>1 DEF Precharge, PlayCheck, PlayAlive, PlayTake, PlaySize, PlayWrite, PlayNothing,
              PlaySub, PlaySubst, CountDown, PlayLoad
<1>4. Emptying => FullNum > 0
  BY DEF Exact, EmptiedInSteps
<1>5. FullNum > 0 \/ UNCHANGED <<played, PCMSize>>
  BY <1>4 DEF Emptying, Precharge, PlayCheck, PlayAlive, PlayTake, PlaySize, PlayWrite,
              PlayNothing, PlaySub, PlaySubst, PlayLoad
<1>6. /\ FrameLen(ReadIdx) \in Int
      /\ FrameLen(ReadIdx)' = FrameLen(ReadIdx)
      /\ first[ReadIdx] \in Nat
      /\ PCMSize[ReadIdx] \in Int
  BY <1>1, <1>2 DEF FrameLen
<1>7. FullNum > 0 => Buf[ReadIdx] = "live" /\ FrameLen(ReadIdx) > 0
  <2>1. SlotAt(0) = ReadIdx
    BY <1>1 DEF SlotAt
  <2>2. FullNum > 0 => 0 \in 0 .. FullNum - 1
    BY <1>1
  <2>3. BufSize[ReadIdx] \in Nat
    BY RingTypes
  <2> QED
    BY <1>6, <2>1, <2>2, <2>3 DEF Exact, FullSlotsInOrder
<1>8. EmptiedInSteps'
  <2> HIDE DEF Invs, samples
  <2> DEFINE L == FrameLen(ReadIdx)
  <2>0. /\ EmptiedInSteps
        /\ L \in Int /\ L' = L
        /\ UNCHANGED <<ReadIdx, FullNum, first>>
        /\ FullNum \in Nat
        /\ first[ReadIdx] \in Nat /\ PCMSize[ReadIdx] \in Int
        /\ off \in Nat /\ fill \in Nat /\ preg \in Int /\ Len(played) \in Nat
    BY <1>1, <1>2, <1>6 DEF Exact
  <2>1. ASSUME Emptying
        PROVE  /\ FullNum > 0
               /\ first[ReadIdx] + off = Len(played) + 1
               /\ ppc \notin {"sub", "subst"} => PCMSize[ReadIdx] = L - off
               /\ ppc \in {"sub", "subst"} => PCMSize[ReadIdx] = L - off + fill
               /\ off <= L
               /\ ppc # "take" => held = "live"
    BY <2>0, <2>1 DEF EmptiedInSteps, Emptying
  <2>2. CASE Precharge \/ PlayAlive
    BY <2>0, <2>2 DEF Precharge, PlayAlive, EmptiedInSteps, Emptying, samples
  <2>3. CASE PlayCheck
    BY <1>7, <2>0, <2>3 DEF PlayCheck, EmptiedInSteps, Emptying, samples
  <2>4. CASE PlayTake
    <3>1. /\ ppc = "take" /\ ppc' = "size"
          /\ held' = Buf[ReadIdx] /\ off' = 0
          /\ UNCHANGED <<PCMSize, played>>
      BY <2>4 DEF PlayTake, samples
    <3>2. off = 0
      BY <2>0, <3>1 DEF EmptiedInSteps
    <3> QED
      BY <1>7, <2>0, <2>1, <3>1, <3>2 DEF EmptiedInSteps, Emptying
  <2>5. CASE PlaySize
    <3>1. /\ ppc = "size"
          /\ UNCHANGED <<PCMSize, played, held, off, preg>>
      BY <2>5 DEF PlaySize, samples
    <3>2. CASE ppc' = "write"
      <4>1. fill' \in 1 .. L - off
        BY <2>1, <2>5, <3>1, <3>2 DEF PlaySize, Emptying
      <4> QED
        BY <2>0, <2>1, <3>1, <3>2, <4>1 DEF EmptiedInSteps, Emptying
    <3>3. CASE ppc' = "load"
      <4>1. PCMSize[ReadIdx] <= 0
        BY <2>5, <3>3 DEF PlaySize
      <4>2. off = L
        BY <2>0, <2>1, <3>1, <4>1 DEF Emptying
      <4> QED
        BY <2>0, <2>1, <3>1, <3>3, <4>2 DEF EmptiedInSteps, Emptying
    <3> QED
      BY <2>5, <3>2, <3>3 DEF PlaySize
  <2>6. CASE PlayWrite
    <3>1. /\ ppc = "write" /\ ppc' = "sub"
          /\ off' = off + fill
          /\ UNCHANGED <<PCMSize, held, fill, preg>>
      BY <2>6 DEF PlayWrite
    <3>2. Len(played') = Len(played) + fill
      BY <2>6, PlayedGrows DEF Invs
    <3>3. fill \in 1 .. L - off
      BY <2>0, <3>1 DEF EmptiedInSteps
    <3>4. /\ first[ReadIdx] + (off + fill) = Len(played) + fill + 1
          /\ PCMSize[ReadIdx] = L - (off + fill) + fill
          /\ off + fill <= L
      BY <2>0, <2>1, <3>1, <3>3 DEF Emptying
    <3> QED
      BY <2>0, <2>1, <3>1, <3>2, <3>4 DEF EmptiedInSteps, Emptying
  <2>7. CASE PlayNothing
    BY <2>1, <2>7 DEF PlayNothing, Emptying
  <2>8. CASE PlaySub
    BY <2>0, <2>1, <2>8 DEF PlaySub, EmptiedInSteps, Emptying, samples
  <2>9. CASE PlaySubst
    <3>1. /\ ppc = "subst" /\ ppc' = "size"
          /\ PCMSize'[ReadIdx] = preg - fill
          /\ UNCHANGED <<played, held, off>>
      BY <1>1, <2>9 DEF PlaySubst, CountDown, samples
    <3>2. preg = PCMSize[ReadIdx]
      BY <2>0, <3>1 DEF EmptiedInSteps
    <3>3. PCMSize'[ReadIdx] = L - off
      BY <2>0, <2>1, <3>1, <3>2 DEF Emptying
    <3> QED
      BY <2>0, <2>1, <3>1, <3>3 DEF EmptiedInSteps, Emptying
  <2>10. CASE PlayLoad
    BY <2>0, <2>1, <2>10 DEF PlayLoad, EmptiedInSteps, Emptying, samples
  <2> QED
    BY <2>2, <2>3, <2>4, <2>5, <2>6, <2>7, <2>8, <2>9, <2>10
<1> QED
  BY <1>2, <1>3, <1>5, <1>8, PlaybackSide DEF Exact

LEMMA ReleaseKeepsExact ==
  ASSUME Invs, Exact, PlayStore, preg = FullNum
  PROVE  Exact'
<1>1. /\ ppc = "store" /\ ppc' = "check"
      /\ FullNum' = FullNum - 1
      /\ ReadIdx' = NextIdx(ReadIdx)
      /\ off' = 0
      /\ UNCHANGED <<WriteIdx, PCMSize, Buf, BufSize, first, last, decoded, played,
                     dpc, dsize>>
  BY DEF PlayStore, ReleaseSlot, samples, decVars
<1>2. /\ FullNum \in 1 .. BUFNUM
      /\ WriteIdx = SlotAt(FullNum)
      /\ off = FrameLen(ReadIdx)
      /\ first[ReadIdx] + off = Len(played) + 1
  <2>1. Emptying
    BY <1>1 DEF Emptying
  <2>2. FullNum > 0
    BY <2>1 DEF Exact, EmptiedInSteps
  <2> QED
    BY <1>1, <2>2, RingTypes DEF Exact, EmptiedInSteps, Invs
<1>3. /\ BUFNUM \in Nat \ {0}
      /\ ReadIdx \in 0 .. BUFNUM - 1
      /\ first \in [0 .. BUFNUM - 1 -> Nat]
      /\ last \in [0 .. BUFNUM - 1 -> Nat]
      /\ Len(played) \in Nat
  BY RingTypes DEF Invs
<1>4. Committed' = Committed
  BY <1>1 DEF Committed
<1>5. \A k \in 0 .. FullNum - 1 : SlotAt(k)' = SlotAt(k + 1)
  BY <1>1, <1>2, <1>3 DEF SlotAt, NextIdx
<1>6. \A i : FrameLen(i)' = FrameLen(i)
  BY <1>1 DEF FrameLen
<1>7. SlotAt(0) = ReadIdx
  BY <1>3 DEF SlotAt
<1>8. Len(played) = last[ReadIdx]
  BY <1>2, <1>3 DEF FrameLen
<1>9. WriteIdx' = SlotAt(FullNum)'
  BY <1>1, <1>2, <1>3 DEF SlotAt, NextIdx
<1>10. FilledInSteps'
  <2>1. FilledInSteps
    BY DEF Exact
  <2>2. FullNum' < BUFNUM
    BY <1>1, <1>2, <1>3
  <2> QED
    BY <1>1, <2>1, <2>2 DEF FilledInSteps, Filling
<1>11. ASSUME NEW k \in 0 .. FullNum - 2
       PROVE  /\ Buf[SlotAt(k + 1)] = "live"
              /\ FrameLen(SlotAt(k + 1)) \in 1 .. BufSize[SlotAt(k + 1)]
              /\ PCMSize[SlotAt(k + 1)] = FrameLen(SlotAt(k + 1))
              /\ first[SlotAt(k + 1)] = last[SlotAt(k)] + 1
              /\ k = FullNum - 2 => last[SlotAt(k + 1)] = Committed
              /\ Committed - last[SlotAt(k + 1)] \in 0 .. (FullNum - 2 - k) * MaxSize
  <2>1. k + 1 \in 0 .. FullNum - 1 /\ k + 1 > 0 /\ (k + 1) - 1 = k
    BY <1>2
  <2>2. FullNum - 1 - (k + 1) = FullNum - 2 - k
    BY <1>2
  <2>3. Committed - last[SlotAt(k + 1)] \in 0 .. (FullNum - 2 - k) * MaxSize
    BY <2>1, <2>2 DEF Exact, RoomKept
  <2>4. k = FullNum - 2 => k + 1 = FullNum - 1
    BY <1>2
  <2> QED
    BY <2>1, <2>3, <2>4 DEF Exact, FullSlotsInOrder
<1>12. ASSUME NEW k \in 0 .. FullNum' - 1
       PROVE  /\ k \in 0 .. FullNum - 2
              /\ SlotAt(k)' = SlotAt(k + 1)
              /\ k > 0 => SlotAt(k - 1)' = SlotAt(k)
              /\ FullNum' - 1 - k = FullNum - 2 - k
              /\ FullNum' - 1 = FullNum - 2
  <2>1. k \in 0 .. FullNum - 2 /\ k \in 0 .. FullNum - 1
    BY <1>1, <1>2
  <2>2. ASSUME k > 0
        PROVE  SlotAt(k - 1)' = SlotAt(k)
    <3>1. k - 1 \in 0 .. FullNum - 1 /\ (k - 1) + 1 = k
      BY <1>2, <2>1, <2>2
    <3> QED
      BY <1>5, <3>1
  <2> QED
    BY <1>1, <1>2, <1>5, <2>1, <2>2
<1>13. EmptiedInSteps'
  <2>1. ASSUME FullNum' > 0
        PROVE  /\ first[ReadIdx'] = Len(played) + 1
               /\ PCMSize[ReadIdx'] = FrameLen(ReadIdx')
               /\ FrameLen(ReadIdx') \in Int
    <3>1. 0 \in 0 .. FullNum - 2
      BY <1>1, <1>2, <2>1
    <3>2. ReadIdx' = SlotAt(0 + 1) /\ ReadIdx' \in 0 .. BUFNUM - 1
      <4>1. SlotAt(0)' = ReadIdx'
        BY <1>1, <1>3 DEF SlotAt, NextIdx
      <4>2. SlotAt(0)' = SlotAt(0 + 1)
        BY <1>12, <2>1, <3>1, <1>1, <1>2
      <4> QED
        BY <1>1, <1>3, <4>1, <4>2 DEF NextIdx
    <3>3. /\ PCMSize[SlotAt(0 + 1)] = FrameLen(SlotAt(0 + 1))
          /\ first[SlotAt(0 + 1)] = last[SlotAt(0)] + 1
      BY <1>11, <3>1
    <3>4. FrameLen(ReadIdx') \in Int
      BY <1>3, <3>2 DEF FrameLen
    <3> QED
      BY <1>7, <1>8, <3>2, <3>3, <3>4
  <2>2. ~Emptying' /\ off' = 0 /\ ppc' \notin {"sub", "subst"}
    BY <1>1 DEF Emptying
  <2>3. FrameLen(ReadIdx)' = FrameLen(ReadIdx')
    BY <1>1 DEF FrameLen
  <2>4. FullNum' > 0 =>
          /\ first'[ReadIdx'] + 0 = Len(played') + 1
          /\ PCMSize'[ReadIdx'] = FrameLen(ReadIdx)' - 0 + 0
    BY <1>1, <1>3, <2>1, <2>3
  <2> QED
    BY <1>1, <2>2, <2>4 DEF EmptiedInSteps, Emptying
<1>14. FullSlotsInOrder'
  <2>1. ASSUME NEW k \in 0 .. FullNum' - 1
        PROVE  /\ Buf'[SlotAt(k)'] = "live"
               /\ (FrameLen(SlotAt(k)) \in 1 .. BufSize[SlotAt(k)])'
               /\ k > 0 => /\ (PCMSize[SlotAt(k)] = FrameLen(SlotAt(k)))'
                           /\ (first[SlotAt(k)] = last[SlotAt(k - 1)] + 1)'
               /\ k = FullNum' - 1 => last'[SlotAt(k)'] = Committed'
    BY <1>1, <1>4, <1>6, <1>11, <1>12 DEF FrameLen
  <2>2. ASSUME FullNum' = 0
        PROVE  Committed' = Len(played')
    <3>1. FullNum = 1
      BY <1>1, <1>2, <2>2
    <3>2. last[SlotAt(0)] = Committed
      BY <3>1 DEF Exact, FullSlotsInOrder
    <3> QED
      BY <1>1, <1>4, <1>7, <1>8, <3>2
  <2> QED
    BY <2>1, <2>2 DEF FullSlotsInOrder
<1>15. RoomKept'
  BY <1>1, <1>4, <1>11, <1>12 DEF RoomKept
<1> QED
  BY <1>9, <1>10, <1>13, <1>14, <1>15 DEF Exact
-----------------------------------------------------------------------------
LEMMA ExactInvAlways == Spec => []ExactInv
<1>1. Init => ExactInv
  BY RingAssumption DEF Init, RingInit, ExactInv, Exact, FilledInSteps, Filling, EmptiedInSteps,
                        Emptying, FullSlotsInOrder, RoomKept, Committed, SlotAt
<1>2. Invs /\ ExactInv /\ [Next]_vars => ExactInv'
  <2> SUFFICES ASSUME Invs, ExactInv, [Next]_vars, ~raced'
               PROVE  Exact'
    BY DEF ExactInv
  <2>1. CASE DecodeStore
    <3>1. ~raced /\ dreg = FullNum
      BY <2>1, Zenon DEF DecodeStore, CommitSlot
    <3> QED
      BY <2>1, <3>1, CommitKeepsExact DEF ExactInv
  <2>2. CASE PlayStore
    <3>1. ~raced /\ preg = FullNum
      BY <2>2, Zenon DEF PlayStore, ReleaseSlot
    <3> QED
      BY <2>2, <3>1, ReleaseKeepsExact DEF ExactInv
  <2>3. CASE \/ DecodeCheck \/ DecodeFrame \/ DecodeEnd \/ DecodeGrow \/ DecodeGrown
             \/ DecodeNoMemory \/ DecodeCopy \/ DecodeSize \/ DecodeLoad
    <3>1. ~raced
      BY <2>3 DEF ringVars, DecodeCheck, DecodeFrame, DecodeEnd, DecodeGrow, FreeBlock,
                  DecodeGrown, NewBlock, DecodeNoMemory, NoBlock, DecodeCopy, DecodeSize,
                  SizeSlot, DecodeLoad
    <3> QED
      BY <2>3, <3>1, FillingKeepsExact DEF ExactInv
  <2>4. CASE \/ Precharge \/ PlayCheck \/ PlayAlive \/ PlayTake \/ PlaySize \/ PlayWrite
             \/ PlayNothing \/ PlaySub \/ PlaySubst \/ PlayLoad
    <3>1. ~raced
      BY <2>4 DEF ringVars, Precharge, PlayCheck, PlayAlive, PlayTake, PlaySize, PlayWrite,
                  PlayNothing, PlaySub, PlaySubst, CountDown, PlayLoad
    <3> QED
      BY <2>4, <3>1, EmptyingKeepsExact DEF ExactInv
  <2>5. CASE UNCHANGED vars
    BY <2>5 DEF vars, ringVars, samples, decVars, playVars, ExactInv, Exact, FilledInSteps,
                Filling, EmptiedInSteps, Emptying, FullSlotsInOrder, RoomKept, Committed,
                FrameLen, SlotAt
  <2> QED
    BY <2>1, <2>2, <2>3, <2>4, <2>5 DEF Next, Decoder, Player, Finished
<1> QED
  BY <1>1, <1>2, TypeCorrect, CountBounded, BlockInvAlways, PTL DEF Spec, Invs

(* Until an update of the count is lost, FullNum says how many slots are    *)
(* full, and which, and no thread works where it gives it no slot.          *)
THEOREM CountExact == Spec => []CountExactUnlessRaced
<1>1. ExactInv => CountExactUnlessRaced
  BY DEF ExactInv, Exact, CountExactUnlessRaced
<1> QED
  BY <1>1, ExactInvAlways, PTL

LEMMA FillInFrame ==
  ASSUME Invs, Exact, ppc = "write"
  PROVE  /\ held = "live"
         /\ off + fill <= BufSize[ReadIdx]
         /\ fill <= MaxSize
         /\ Filling => WriteIdx # ReadIdx
<1>1. Emptying
  BY DEF Emptying
<1>2. /\ FullNum > 0 /\ FullNum \in 0 .. BUFNUM
      /\ held = "live"
      /\ fill \in 1 .. FrameLen(ReadIdx) - off
  BY <1>1, RingTypes DEF Exact, EmptiedInSteps, Invs
<1>3. SlotAt(0) = ReadIdx
  BY IndexTypes DEF SlotAt, Invs
<1>4. FrameLen(ReadIdx) \in 1 .. BufSize[ReadIdx]
  BY <1>2, <1>3 DEF Exact, FullSlotsInOrder
<1>5. off + fill <= BufSize[ReadIdx] /\ fill <= MaxSize
  <2>1. off \in Nat /\ fill \in Nat /\ BufSize[ReadIdx] \in 0 .. MaxSize /\ MaxSize \in Nat
    BY RingTypes DEF Invs
  <2> QED
    BY <1>2, <1>4, <2>1
<1>6. Filling => WriteIdx # ReadIdx
  <2>1. Filling => FullNum < BUFNUM
    BY DEF Exact, FilledInSteps
  <2>2. FullNum \in 1 .. BUFNUM - 1 => WriteIdx # ReadIdx
    BY SlotsApart DEF Exact, Invs
  <2> QED
    BY <1>2, <2>1, <2>2, RingAssumption
<1> QED
  BY <1>2, <1>5, <1>6

(* Until an update of the count is lost, a write() reads within a live      *)
(* block, of a slot the decode thread is not at work on.                    *)
THEOREM WriteReadsItsBlock == Spec => []WriteInBlock
<1>1. Invs /\ ExactInv => WriteInBlock
  BY FillInFrame DEF ExactInv, WriteInBlock
<1> QED
  BY <1>1, TypeCorrect, CountBounded, BlockInvAlways, ExactInvAlways, PTL DEF Invs

(* What a write() adds to the samples heard: the fill units that follow,    *)
(* which were decoded, and with what is waiting fit into the ring.          *)
LEMMA NextInTurn ==
  ASSUME Invs, Exact, PlayWrite
  PROVE  /\ fill \in Nat \ {0}
         /\ Len(played) + fill <= decoded
         /\ \A k \in 0 .. fill - 1 : UnitHeld(k) = Len(played) + 1 + k
<1>1. ppc = "write"
  BY DEF PlayWrite
<1>2. /\ BUFNUM \in Nat \ {0} /\ MaxSize \in Nat \ {0}
      /\ ReadIdx \in 0 .. BUFNUM - 1
      /\ FullNum \in 0 .. BUFNUM
      /\ first[ReadIdx] \in Nat /\ last[ReadIdx] \in Nat
      /\ off \in Nat /\ fill \in Nat /\ decoded \in Nat /\ dsize \in Nat
      /\ Len(played) \in Nat
      /\ Committed \in Int
  BY RingTypes DEF Invs
<1>3. Emptying
  BY <1>1 DEF Emptying
<1>4. /\ FullNum > 0
      /\ held = "live"
      /\ first[ReadIdx] + off = Len(played) + 1
      /\ fill \in 1 .. FrameLen(ReadIdx) - off
  BY <1>1, <1>3 DEF Exact, EmptiedInSteps
<1>5. last[ReadIdx] <= Committed
  <2>1. SlotAt(0) = ReadIdx /\ 0 \in 0 .. FullNum - 1
    BY <1>2, <1>4 DEF SlotAt
  <2>2. Committed - last[ReadIdx] >= 0
    BY <2>1 DEF Exact, RoomKept
  <2> QED
    BY <1>2, <2>2
<1>6. Committed <= decoded
  BY <1>2 DEF Committed
<1>7. ASSUME NEW k \in 0 .. fill - 1
      PROVE  UnitHeld(k) = Len(played) + 1 + k
  <2>1. /\ first[ReadIdx] + off + k <= last[ReadIdx]
        /\ first[ReadIdx] + off + k = Len(played) + 1 + k
    BY <1>2, <1>4 DEF FrameLen
  <2> QED
    BY <1>4, <2>1 DEF UnitHeld
<1>8. Len(played) + fill <= decoded
  BY <1>2, <1>4, <1>5, <1>6 DEF FrameLen
<1> QED
  BY <1>2, <1>4, <1>7, <1>8

(* How many units are waiting when a frame is copied: as many as the full   *)
(* slots may hold.                                                          *)
LEMMA RoomForFrame ==
  ASSUME Invs, Exact, DecodeCopy
  PROVE  /\ dsize \in 1 .. MaxSize
         /\ decoded + dsize - Len(played) <= BUFNUM * MaxSize
<1>1. dpc = "copy"
  BY DEF DecodeCopy
<1>2. dsize \in 1 .. MaxSize /\ MaxSize \in Nat
  BY <1>1, RingAssumption DEF Invs, BlockInv, Sizes
<1>3. /\ BUFNUM \in Nat
      /\ ReadIdx \in 0 .. BUFNUM - 1
      /\ first[ReadIdx] \in Nat /\ last[ReadIdx] \in Nat
      /\ off \in Nat /\ decoded \in Nat
      /\ Len(played) \in Nat
      /\ BufSize[ReadIdx] \in 0 .. MaxSize
  BY RingTypes DEF Invs
<1>4. FullNum \in 0 .. BUFNUM - 1
  <2>1. Filling
    BY <1>1 DEF Filling
  <2>2. FullNum < BUFNUM
    BY <2>1 DEF Exact, FilledInSteps
  <2> QED
    BY <2>2, RingTypes DEF Invs
<1>5. Committed = decoded
  BY <1>1 DEF Committed
<1>6. decoded - Len(played) <= FullNum * MaxSize
  <2>1. CASE FullNum = 0
    BY <1>2, <1>3, <1>5, <2>1 DEF Exact, FullSlotsInOrder
  <2>2. CASE FullNum > 0
    <3>1. SlotAt(0) = ReadIdx /\ 0 \in 0 .. FullNum - 1
      BY <1>3, <1>4, <2>2 DEF SlotAt
    <3>2. decoded - last[ReadIdx] <= (FullNum - 1 - 0) * MaxSize
      BY <1>5, <3>1 DEF Exact, RoomKept
    <3>3. FrameLen(ReadIdx) \in 1 .. BufSize[ReadIdx]
      BY <3>1 DEF Exact, FullSlotsInOrder
    <3>4. first[ReadIdx] + off = Len(played) + 1
      BY <2>2 DEF Exact, EmptiedInSteps
    <3>5. last[ReadIdx] - Len(played) <= MaxSize
      BY <1>2, <1>3, <3>3, <3>4 DEF FrameLen
    <3>6. (FullNum - 1 - 0) * MaxSize + MaxSize = FullNum * MaxSize
      BY <1>2, <1>4
    <3>7. (FullNum - 1 - 0) * MaxSize \in Int /\ FullNum * MaxSize \in Int
      BY <1>2, <1>4
    <3> QED
      BY <1>2, <1>3, <3>2, <3>5, <3>6, <3>7
  <2> QED
    BY <1>4, <2>1, <2>2
<1>7. FullNum * MaxSize + MaxSize <= BUFNUM * MaxSize
  BY <1>2, <1>3, <1>4
<1>8. FullNum * MaxSize \in Int /\ BUFNUM * MaxSize \in Int
  BY <1>2, <1>3, <1>4
<1> QED
  BY <1>2, <1>3, <1>6, <1>7, <1>8

(* Until an update of the count is lost, the samples are heard in order and *)
(* without a gap, for every ring size and every length of file.             *)
THEOREM SamplesInOrder == Spec => []InOrderUnlessRaced
<1>1. Init => InOrderUnlessRaced
  BY DEF Init, InOrderUnlessRaced
<1>2. Invs /\ ExactInv /\ ExactInv' /\ InOrderUnlessRaced /\ [Next]_vars => InOrderUnlessRaced'
  <2> SUFFICES ASSUME Invs, ExactInv, InOrderUnlessRaced, [Next]_vars, ~raced'
               PROVE  \A i \in DOMAIN played' : played'[i] = i
    BY DEF InOrderUnlessRaced
  <2>1. ~raced
    BY Zenon DEF Next, Decoder, Player, Finished, vars, ringVars, DecodeCheck, DecodeFrame,
           DecodeEnd, DecodeGrow, FreeBlock, DecodeGrown, NewBlock, DecodeNoMemory, NoBlock,
           DecodeCopy, DecodeSize, SizeSlot, DecodeLoad, DecodeStore, CommitSlot, Precharge,
           PlayCheck, PlayAlive, PlayTake, PlaySize, PlayWrite, PlayNothing, PlaySub,
           PlaySubst, CountDown, PlayLoad, PlayStore, ReleaseSlot
  <2>2. Exact /\ \A i \in DOMAIN played : played[i] = i
    BY <2>1 DEF ExactInv, InOrderUnlessRaced
  <2>3. CASE PlayWrite
    <3>1. /\ played' \in Seq(Nat)
          /\ Len(played') = Len(played) + fill
          /\ \A i \in 1 .. Len(played) : played'[i] = played[i]
          /\ \A i \in Len(played) + 1 .. Len(played) + fill :
               played'[i] = UnitHeld(i - Len(played) - 1)
      BY <2>3, PlayedGrows DEF Invs
    <3>2. \A k \in 0 .. fill - 1 : UnitHeld(k) = Len(played) + 1 + k
      BY <2>2, <2>3, NextInTurn
    <3>3. fill \in Nat /\ Len(played) \in Nat /\ played \in Seq(Nat)
      BY DEF Invs, TypeOK
    <3>4. ASSUME NEW i \in DOMAIN played'
          PROVE  played'[i] = i
      <4>1. i \in 1 .. Len(played) + fill
        <5>1. DOMAIN played' = 1 .. Len(played')
          BY <3>1
        <5> QED
          BY <3>1, <3>4, <5>1
      <4>2. CASE i \in 1 .. Len(played)
        <5>1. i \in DOMAIN played /\ played'[i] = played[i]
          BY <3>1, <3>3, <4>2
        <5> QED
          BY <2>2, <5>1
      <4>3. CASE i \in Len(played) + 1 .. Len(played) + fill
        <5>1. i - Len(played) - 1 \in 0 .. fill - 1
          BY <3>3, <4>3
        <5>2. played'[i] = UnitHeld(i - Len(played) - 1)
          BY <3>1, <4>3
        <5>3. UnitHeld(i - Len(played) - 1) = Len(played) + 1 + (i - Len(played) - 1)
          BY <3>2, <5>1
        <5>4. Len(played) + 1 + (i - Len(played) - 1) = i
          BY <3>3, <4>1
        <5> QED
          BY <5>2, <5>3, <5>4
      <4> QED
        BY <3>3, <4>1, <4>2, <4>3
    <3> QED
      BY <3>4
  <2>4. CASE UNCHANGED played
    BY <2>2, <2>4
  <2> QED
    BY <2>3, <2>4
       DEF Next, Decoder, Player, Finished, vars, samples, DecodeCheck, DecodeFrame,
           DecodeEnd, DecodeGrow, DecodeGrown, DecodeNoMemory, DecodeCopy, DecodeSize,
           DecodeLoad, DecodeStore, Precharge, PlayCheck, PlayAlive, PlayTake, PlaySize,
           PlayNothing, PlaySub, PlaySubst, PlayLoad, PlayStore
<1> QED
  BY <1>1, <1>2, TypeCorrect, CountBounded, BlockInvAlways, ExactInvAlways, PTL DEF Spec, Invs

(* Until an update of the count is lost, the two threads implement the      *)
(* abstract stream: each of their steps copies a frame for which there is   *)
(* room, plays the oldest samples waiting, or changes neither end.          *)
THEOREM ImplementsStream == Spec => Stream!Init /\ StreamUnlessRaced
<1>1. Init => Stream!Init
  BY DEF Init, Stream!Init
<1>2. Invs /\ ExactInv /\ [Next]_vars => [~raced => Stream!Next]_<<decoded, played>>
  <2> SUFFICES ASSUME Invs, Exact, [Next]_vars
               PROVE  Stream!Next \/ UNCHANGED <<decoded, played>>
    BY DEF ExactInv
  <2>1. CASE DecodeCopy
    <3>1. /\ dsize \in 1 .. MaxSize
          /\ decoded + dsize - Len(played) <= BUFNUM * MaxSize
      BY <2>1, RoomForFrame
    <3>2. dsize \in 1 .. BUFNUM * MaxSize
      <4>1. MaxSize <= BUFNUM * MaxSize /\ BUFNUM * MaxSize \in Nat
        BY RingAssumption
      <4> QED
        BY <3>1, <4>1, RingAssumption
    <3>3. Stream!Decode(dsize)
      BY <2>1, <3>1 DEF DecodeCopy, Stream!Decode
    <3> QED
      BY <3>2, <3>3 DEF Stream!Next
  <2>2. CASE PlayWrite
    <3>1. /\ fill \in Nat \ {0}
          /\ Len(played) + fill <= decoded
          /\ \A k \in 0 .. fill - 1 : UnitHeld(k) = Len(played) + 1 + k
      BY <2>2, NextInTurn
    <3>2. fill \in 1 .. BUFNUM * MaxSize
      <4>1. fill <= MaxSize
        BY <2>2, FillInFrame DEF PlayWrite
      <4>2. MaxSize <= BUFNUM * MaxSize /\ BUFNUM * MaxSize \in Nat
        BY RingAssumption
      <4> QED
        BY <3>1, <4>1, <4>2, RingAssumption
    <3>3. [i \in 1 .. fill |-> UnitHeld(i - 1)] = Stream!Following(played, fill)
      <4>1. ASSUME NEW i \in 1 .. fill
            PROVE  UnitHeld(i - 1) = Len(played) + i
        <5>1. i - 1 \in 0 .. fill - 1 /\ Len(played) \in Nat
          BY <3>1 DEF Invs, TypeOK
        <5>2. UnitHeld(i - 1) = Len(played) + 1 + (i - 1)
          BY <3>1, <5>1
        <5> QED
          BY <5>1, <5>2
      <4> QED
        BY <4>1 DEF Stream!Following
    <3>4. Stream!Play(fill)
      BY <2>2, <3>1, <3>3 DEF PlayWrite, Stream!Play
    <3> QED
      BY <3>2, <3>4 DEF Stream!Next
  <2>3. CASE UNCHANGED <<decoded, played>>
    BY <2>3
  <2> QED
    BY <2>1, <2>2, <2>3
       DEF Next, Decoder, Player, Finished, vars, samples, DecodeCheck, DecodeFrame,
           DecodeEnd, DecodeGrow, DecodeGrown, DecodeNoMemory, DecodeSize,
           DecodeLoad, DecodeStore, Precharge, PlayCheck, PlayAlive, PlayTake, PlaySize,
           PlayNothing, PlaySub, PlaySubst, PlayLoad, PlayStore
<1> QED
  BY <1>1, <1>2, TypeCorrect, CountBounded, BlockInvAlways, ExactInvAlways, PTL
     DEF Spec, StreamUnlessRaced, Invs
=============================================================================
