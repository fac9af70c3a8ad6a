---------------------------- MODULE DecFrameRing ----------------------------
(***************************************************************************)
(* The decoded-frame ring of the AAC player (aacdec/src/AACPlayer_Agent.c, *)
(* lines 69-75): the data the decode thread and the playback thread share, *)
(* and each access either of them makes that changes it.  This module has  *)
(* no behaviour of its own: FrameFeed puts the two threads around the ring *)
(* and follows the samples through it, AACPlayer is the whole player.      *)
(*                                                                         *)
(* Sizes count units of samples; a unit is the least that one write() to   *)
(* the device takes.  A buffer is the block its pointer points to: none, a *)
(* live one, or one that realloc() or AACPlayer_Stop has freed.            *)
(***************************************************************************)
EXTENDS Integers

CONSTANTS
  BUFNUM,     (* DECFRAME_BUFNUM, the number of slots (256 in the code)    *)
  MaxSize     (* the units of samples of the longest frame                 *)

ASSUME RingAssumption ==
  /\ BUFNUM \in Nat \ {0}
  /\ MaxSize \in Nat \ {0}

VARIABLES
  ReadIdx,    (* s_i32DecFrame_ReadIdx                                     *)
  WriteIdx,   (* s_i32DecFrame_WriteIdx                                    *)
  FullNum,    (* s_i32DecFrame_FullNum, "number of full ... buffer"        *)
  PCMSize,    (* s_ai32DecFrame_PCMSize                                    *)
  Buf,        (* s_apcDecFrame_Buf                                         *)
  BufSize,    (* s_ai32DecFrame_BufSize                                    *)
  raced       (* history: a store of FullNum has overwritten the other's   *)
              (* since the file was begun                                  *)

ringVars == <<ReadIdx, WriteIdx, FullNum, PCMSize, Buf, BufSize, raced>>

Slots == 0 .. BUFNUM - 1

Sizes == 1 .. MaxSize

Blocks == {"null", "live", "freed"}

RingTypeOK ==
  /\ ReadIdx \in Slots
  /\ WriteIdx \in Slots
  /\ FullNum \in Int
  /\ PCMSize \in [Slots -> Int]
  /\ Buf \in [Slots -> Blocks]
  /\ BufSize \in [Slots -> 0 .. MaxSize]
  /\ raced \in BOOLEAN

RingInit ==
  /\ ReadIdx = 0
  /\ WriteIdx = 0
  /\ FullNum = 0
  /\ PCMSize = [i \in Slots |-> 0]
  /\ Buf = [i \in Slots |-> "null"]
  /\ BufSize = [i \in Slots |-> 0]
  /\ raced = FALSE

(* An index moves on by one and wraps at DECFRAME_BUFNUM. *)
NextIdx(i) == IF i + 1 = BUFNUM THEN 0 ELSE i + 1

(* AACPlayer_PlayFile clears all but the PCM sizes. *)
ResetRing ==
  /\ ReadIdx' = 0
  /\ WriteIdx' = 0
  /\ FullNum' = 0
  /\ Buf' = [i \in Slots |-> "null"]
  /\ BufSize' = [i \in Slots |-> 0]
  /\ raced' = FALSE
  /\ UNCHANGED PCMSize
-----------------------------------------------------------------------------
(* The decode thread, at the slot of the write index.                      *)

(* Inside realloc(): the block of the slot is given back, the pointer to it *)
(* is still in the table.                                                   *)
FreeBlock ==
  /\ Buf[WriteIdx] = "live"
  /\ Buf' = [Buf EXCEPT ![WriteIdx] = "freed"]
  /\ UNCHANGED <<ReadIdx, WriteIdx, FullNum, PCMSize, BufSize, raced>>

(* What realloc() returned and the new size are stored. *)
NewBlock(n) ==
  /\ Buf' = [Buf EXCEPT ![WriteIdx] = "live"]
  /\ BufSize' = [BufSize EXCEPT ![WriteIdx] = n]
  /\ UNCHANGED <<ReadIdx, WriteIdx, FullNum, PCMSize, raced>>

(* realloc() returned NULL, and the old block is left as it is. *)
NoBlock ==
  /\ Buf' = [Buf EXCEPT ![WriteIdx] = "null"]
  /\ UNCHANGED <<ReadIdx, WriteIdx, FullNum, PCMSize, BufSize, raced>>

(* The size of the samples that were just copied. *)
SizeSlot(n) ==
  /\ PCMSize' = [PCMSize EXCEPT ![WriteIdx] = n]
  /\ UNCHANGED <<ReadIdx, WriteIdx, FullNum, Buf, BufSize, raced>>

(* Mutated form of CommitSlot: the write index is not wrapped. *)
CommitSlotUnwrapped(n) ==
  /\ FullNum' = n + 1
  /\ WriteIdx' = WriteIdx + 1
  /\ raced' = (raced \/ FullNum # n)
  /\ UNCHANGED <<ReadIdx, PCMSize, Buf, BufSize>>

(* The store of FullNum++, whose load returned n, and the write index,      *)
(* which no other thread looks at, moving on.                               *)
CommitSlot(n) ==
  /\ FullNum' = n + 1
  /\ WriteIdx' = NextIdx(WriteIdx)
  /\ raced' = (raced \/ FullNum # n)
  /\ UNCHANGED <<ReadIdx, PCMSize, Buf, BufSize>>
-----------------------------------------------------------------------------
(* The playback thread, at the slot of the read index.                     *)

(* The store of "PCMSize -= i32FillBytes", whose load returned n. *)
CountDown(n, fill) ==
  /\ PCMSize' = [PCMSize EXCEPT ![ReadIdx] = n - fill]
  /\ UNCHANGED <<ReadIdx, WriteIdx, FullNum, Buf, BufSize, raced>>

(* Mutated form of ReleaseSlot: the read index stays. *)
ReleaseSlotInPlace(n) ==
  /\ FullNum' = n - 1
  /\ raced' = (raced \/ FullNum # n)
  /\ UNCHANGED <<ReadIdx, WriteIdx, PCMSize, Buf, BufSize>>

(* The store of FullNum--, whose load returned n, and the read index, which *)
(* no other thread looks at, moving on.                                     *)
ReleaseSlot(n) ==
  /\ FullNum' = n - 1
  /\ ReadIdx' = NextIdx(ReadIdx)
  /\ raced' = (raced \/ FullNum # n)
  /\ UNCHANGED <<WriteIdx, PCMSize, Buf, BufSize>>
-----------------------------------------------------------------------------
(* The slot k places after the read index. *)
SlotAt(k) == IF ReadIdx + k >= BUFNUM THEN ReadIdx + k - BUFNUM ELSE ReadIdx + k
=============================================================================
