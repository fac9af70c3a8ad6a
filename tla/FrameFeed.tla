----------------------------- MODULE FrameFeed ------------------------------
(***************************************************************************)
(* One decode thread and one playback thread around the decoded-frame      *)
(* ring, in state PLAYING and with no command given: the loops of          *)
(* s_DecodeThread (lines 494-549) and s_PlaybackThread (634-704), from the *)
(* moment AACPlayer_PlayFile starts to precharge the ring.                 *)
(*                                                                         *)
(* Neither thread holds the mutex when it touches the ring, so a step is   *)
(* one access to it.  "FullNum++", "FullNum--" and "PCMSize -= ..." on     *)
(* volatile ints are a load, an addition and a store: two steps, with the  *)
(* loaded value in dreg or preg.  realloc(), memcpy() and write() are      *)
(* calls of which each has one moment at which it uses the slot.           *)
(***************************************************************************)
EXTENDS DecFrameRing, Sequences

CONSTANT
  MaxSamples  (* bound: the units of samples of the file                   *)

ASSUME FeedAssumption == MaxSamples \in Nat

VARIABLES
  first,      (* per slot: the units in its buffer are numbered ...        *)
  last,       (* ... from first to last, none when last < first            *)
  decoded,    (* history: how many units were copied to the ring           *)
  played,     (* history: the units given to the device, 0 for a unit of   *)
              (* which nobody can say what it was                          *)
  dpc,        (* where the decode thread is                                *)
  dreg,       (* what the decode thread loaded from FullNum                *)
  dsize,      (* i32DecodedSize                                            *)
  decAlive,   (* s_bDecodeThread_Alive                                     *)
  ppc,        (* where the playback thread is                              *)
  preg,       (* what the playback thread loaded                           *)
  held,       (* the block pcDecodedPCM points to                          *)
  off,        (* how far pcDecodedPCM has moved on in it                   *)
  fill        (* i32FillBytes                                              *)

samples  == <<first, last, decoded, played>>
decVars  == <<dpc, dreg, dsize, decAlive>>
playVars == <<ppc, preg, held, off, fill>>

vars == <<ringVars, samples, decVars, playVars>>

DecPcs == {"check", "decode", "grow", "grown", "copy", "size", "load", "store", "done"}

PlayPcs == {"start", "check", "alive", "take", "size", "write", "sub", "subst",
            "load", "store", "done"}

TypeOK ==
  /\ RingTypeOK
  /\ first \in [Slots -> Nat]
  /\ last \in [Slots -> Nat]
  /\ decoded \in Nat
  /\ played \in Seq(Nat)
  /\ dpc \in DecPcs
  /\ dreg \in Int
  /\ dsize \in 0 .. MaxSize
  /\ decAlive \in BOOLEAN
  /\ ppc \in PlayPcs
  /\ preg \in Int
  /\ held \in Blocks
  /\ off \in Nat
  /\ fill \in Nat

Init ==
  /\ RingInit
  /\ first = [i \in Slots |-> 1]
  /\ last = [i \in Slots |-> 0]
  /\ decoded = 0
  /\ played = <<>>
  /\ dpc = "check"
  /\ dreg = 0
  /\ dsize = 0
  /\ decAlive = TRUE
  /\ ppc = "start"
  /\ preg = 0
  /\ held = "null"
  /\ off = 0
  /\ fill = 0
-----------------------------------------------------------------------------
(* The decode thread.                                                      *)

(* Mutated form of DecodeCheck: the bound is off by one. *)
DecodeCheckOffByOne ==
  /\ dpc = "check"
  /\ FullNum <= BUFNUM
  /\ dpc' = "decode"
  /\ UNCHANGED <<ringVars, samples, dreg, dsize, decAlive, playVars>>

(* "if (FullNum < DECFRAME_BUFNUM)": with the ring full it sleeps and looks *)
(* again.                                                                   *)
DecodeCheck ==
  /\ dpc = "check"
  /\ FullNum < BUFNUM
  /\ dpc' = "decode"
  /\ UNCHANGED <<ringVars, samples, dreg, dsize, decAlive, playVars>>

(* A frame of n units is decoded; the buffer of the slot is grown when it   *)
(* is noted to be smaller.                                                  *)
DecodeFrame ==
  /\ dpc = "decode"
  /\ \E n \in Sizes :
       /\ decoded + n <= MaxSamples
       /\ dsize' = n
       /\ dpc' = IF BufSize[WriteIdx] < n THEN "grow" ELSE "copy"
  /\ UNCHANGED <<ringVars, samples, dreg, decAlive, playVars>>

(* Mutated form of DecodeEnd: the thread leaves without clearing its flag. *)
DecodeEndStillAlive ==
  /\ dpc = "decode"
  /\ dpc' = "done"
  /\ UNCHANGED <<ringVars, samples, dreg, dsize, decAlive, playVars>>

(* The decoder library reports the end of the file or an error, and the    *)
(* thread ends.                                                            *)
DecodeEnd ==
  /\ dpc = "decode"
  /\ dpc' = "done"
  /\ decAlive' = FALSE
  /\ UNCHANGED <<ringVars, samples, dreg, dsize, playVars>>

(* realloc() moves the block of the slot, which frees the old one, or finds *)
(* room behind it or no block at all.  The playback thread may hold the old *)
(* one.                                                                     *)
DecodeGrow ==
  /\ dpc = "grow"
  /\ \/ FreeBlock /\ held' = IF held = "live" /\ ReadIdx = WriteIdx THEN "freed" ELSE held
     \/ UNCHANGED <<ringVars, held>>
  /\ dpc' = "grown"
  /\ UNCHANGED <<samples, dreg, dsize, decAlive, ppc, preg, off, fill>>

DecodeGrown ==
  /\ dpc = "grown"
  /\ NewBlock(dsize)
  /\ dpc' = "copy"
  /\ UNCHANGED <<samples, dreg, dsize, decAlive, playVars>>

(* realloc() fails, which ends the thread. *)
DecodeNoMemory ==
  /\ dpc = "grow"
  /\ NoBlock
  /\ dpc' = "done"
  /\ decAlive' = FALSE
  /\ UNCHANGED <<samples, dreg, dsize, playVars>>

(* The memcpy(). *)
DecodeCopy ==
  /\ dpc = "copy"
  /\ first' = [first EXCEPT ![WriteIdx] = decoded + 1]
  /\ last' = [last EXCEPT ![WriteIdx] = decoded + dsize]
  /\ decoded' = decoded + dsize
  /\ dpc' = "size"
  /\ UNCHANGED <<ringVars, played, dreg, dsize, decAlive, playVars>>

DecodeSize ==
  /\ dpc = "size"
  /\ SizeSlot(dsize)
  /\ dpc' = "load"
  /\ UNCHANGED <<samples, dreg, dsize, decAlive, playVars>>

DecodeLoad ==
  /\ dpc = "load"
  /\ dreg' = FullNum
  /\ dpc' = "store"
  /\ UNCHANGED <<ringVars, samples, dsize, decAlive, playVars>>

(* The thread ends after a frame the library said was the last one. *)
DecodeStore ==
  /\ dpc = "store"
  /\ CommitSlot(dreg)
  /\ \E more \in BOOLEAN :
       /\ dpc' = IF more THEN "check" ELSE "done"
       /\ decAlive' = more
  /\ dreg' = 0
  /\ dsize' = 0
  /\ UNCHANGED <<samples, playVars>>
-----------------------------------------------------------------------------
(* The playback thread.  What it loaded is forgotten when it is used up.   *)

(* AACPlayer_PlayFile creates it when the ring has been charged to the brim *)
(* or the decode thread is gone, and not at all when nothing was decoded.   *)
Precharge ==
  /\ ppc = "start"
  /\ ~decAlive \/ FullNum >= BUFNUM
  /\ ppc' = IF FullNum > 0 THEN "check" ELSE "done"
  /\ UNCHANGED <<ringVars, samples, decVars, preg, held, off, fill>>

PlayCheck ==
  /\ ppc = "check"
  /\ ppc' = IF FullNum > 0 THEN "take" ELSE "alive"
  /\ UNCHANGED <<ringVars, samples, decVars, preg, held, off, fill>>

(* The ring was empty: go on while the decode thread lives, else end.  The  *)
(* count and the flag are two reads, in this order.                         *)
PlayAlive ==
  /\ ppc = "alive"
  /\ ppc' = IF decAlive THEN "check" ELSE "done"
  /\ UNCHANGED <<ringVars, samples, decVars, preg, held, off, fill>>

(* pcDecodedPCM is taken from the table. *)
PlayTake ==
  /\ ppc = "take"
  /\ held' = Buf[ReadIdx]
  /\ off' = 0
  /\ ppc' = "size"
  /\ UNCHANGED <<ringVars, samples, decVars, preg, fill>>

(* The loop's look at the size, and the next one, which the free space of   *)
(* the device and its block size cut down; only a frame's positive size can *)
(* have been stored between the two.  Without a size the slot is done.      *)
PlaySize ==
  /\ ppc = "size"
  /\ \/ /\ PCMSize[ReadIdx] > 0
        /\ fill' \in 1 .. PCMSize[ReadIdx]
        /\ ppc' = "write"
     \/ /\ PCMSize[ReadIdx] <= 0
        /\ ppc' = "load"
        /\ UNCHANGED fill
  /\ UNCHANGED <<ringVars, samples, decVars, preg, held, off>>

(* The unit k places after the pointer. *)
UnitHeld(k) ==
  IF held = "live" /\ first[ReadIdx] + off + k <= last[ReadIdx]
  THEN first[ReadIdx] + off + k
  ELSE 0

(* The write() to the device, and the pointer moving on. *)
PlayWrite ==
  /\ ppc = "write"
  /\ held # "null"
  /\ played' = played \o [i \in 1 .. fill |-> UnitHeld(i - 1)]
  /\ off' = off + fill
  /\ ppc' = "sub"
  /\ UNCHANGED <<ringVars, first, last, decoded, decVars, preg, held, fill>>

(* A write() from NULL fails, which ends the thread. *)
PlayNothing ==
  /\ ppc = "write"
  /\ held = "null"
  /\ off' = 0
  /\ fill' = 0
  /\ ppc' = "done"
  /\ UNCHANGED <<ringVars, samples, decVars, preg, held>>

PlaySub ==
  /\ ppc = "sub"
  /\ preg' = PCMSize[ReadIdx]
  /\ ppc' = "subst"
  /\ UNCHANGED <<ringVars, samples, decVars, held, off, fill>>

PlaySubst ==
  /\ ppc = "subst"
  /\ CountDown(preg, fill)
  /\ preg' = 0
  /\ fill' = 0
  /\ ppc' = "size"
  /\ UNCHANGED <<samples, decVars, held, off>>

PlayLoad ==
  /\ ppc = "load"
  /\ preg' = FullNum
  /\ ppc' = "store"
  /\ UNCHANGED <<ringVars, samples, decVars, held, off, fill>>

PlayStore ==
  /\ ppc = "store"
  /\ ReleaseSlot(preg)
  /\ preg' = 0
  /\ held' = "null"
  /\ off' = 0
  /\ ppc' = "check"
  /\ UNCHANGED <<samples, decVars, fill>>
-----------------------------------------------------------------------------
Decoder ==
  DecodeCheck \/ DecodeFrame \/ DecodeEnd \/ DecodeGrow \/ DecodeGrown \/ DecodeNoMemory
    \/ DecodeCopy \/ DecodeSize \/ DecodeLoad \/ DecodeStore

Player ==
  Precharge \/ PlayCheck \/ PlayAlive \/ PlayTake \/ PlaySize \/ PlayWrite \/ PlayNothing
    \/ PlaySub \/ PlaySubst \/ PlayLoad \/ PlayStore

Finished == dpc = "done" /\ ppc = "done" /\ UNCHANGED vars

Next == Decoder \/ Player \/ Finished

Spec == Init /\ [][Next]_vars

(* Each thread is scheduled again and again: the kernel preempts, and every *)
(* wait in the two loops is a nanosleep.                                    *)
Fairness == WF_vars(Decoder) /\ WF_vars(Player)

FairSpec == Spec /\ Fairness
-----------------------------------------------------------------------------
(* Where the decode thread has seen room, and the playback thread a slot.  *)
Filling == dpc \in {"decode", "grow", "grown", "copy", "size", "load", "store"}

Emptying == ppc \in {"take", "size", "write", "sub", "subst", "load", "store"}

(* Whatever the interleaving of the unprotected FullNum++ and FullNum--,    *)
(* the count stays within 0..DECFRAME_BUFNUM, and when a thread has seen    *)
(* room (a full slot) the count it will update still leaves room (a slot):  *)
(* the race shifts the count but can never make it negative or overflow.    *)
CountInBounds ==
  /\ FullNum \in 0 .. BUFNUM
  /\ Filling /\ dpc # "store" => FullNum < BUFNUM
  /\ dpc = "store" => dreg \in 0 .. BUFNUM - 1
  /\ Emptying /\ ppc # "store" => FullNum > 0
  /\ ppc = "store" => preg \in 1 .. BUFNUM

(* How many units the decode thread has counted in. *)
Committed == IF dpc \in {"size", "load", "store"} THEN decoded - dsize ELSE decoded

(* The units in the buffer of a slot. *)
FrameLen(i) == last[i] - first[i] + 1

(* The slot of the write index is filled step by step: at "size" it has its *)
(* block and its samples, and from "load" on its size.                      *)
FilledInSteps ==
  /\ Filling => FullNum < BUFNUM
  /\ dpc \in {"copy", "size", "load", "store"} =>
       Buf[WriteIdx] = "live" /\ BufSize[WriteIdx] >= dsize
  /\ dpc \in {"size", "load", "store"} =>
       first[WriteIdx] = decoded - dsize + 1 /\ last[WriteIdx] = decoded
  /\ dpc \in {"load", "store"} => PCMSize[WriteIdx] = dsize

(* The slot of the read index is emptied step by step: what its size says,  *)
(* but for the fill just written, is what was not heard of it.              *)
EmptiedInSteps ==
  /\ Emptying => FullNum > 0
  /\ ~Emptying => off = 0
  /\ FullNum > 0 =>
       /\ first[ReadIdx] + off = Len(played) + 1
       /\ PCMSize[ReadIdx] = FrameLen(ReadIdx) - off
                               + IF ppc \in {"sub", "subst"} THEN fill ELSE 0
  /\ ppc = "take" => off = 0
  /\ Emptying /\ ppc # "take" => held = "live"
  /\ ppc = "write" => fill \in 1 .. FrameLen(ReadIdx) - off
  /\ Emptying => off <= FrameLen(ReadIdx)
  /\ ppc = "subst" => preg = PCMSize[ReadIdx]
  /\ ppc \in {"load", "store"} => off = FrameLen(ReadIdx)

(* The full slots hold, oldest first, the frames committed and not released *)
(* one after the other.                                                     *)
FullSlotsInOrder ==
  /\ \A k \in 0 .. FullNum - 1 :
       /\ Buf[SlotAt(k)] = "live"
       /\ FrameLen(SlotAt(k)) \in 1 .. BufSize[SlotAt(k)]
       /\ k > 0 => /\ PCMSize[SlotAt(k)] = FrameLen(SlotAt(k))
                   /\ first[SlotAt(k)] = last[SlotAt(k - 1)] + 1
       /\ k = FullNum - 1 => last[SlotAt(k)] = Committed
  /\ FullNum = 0 => Committed = Len(played)

(* Until the first lost update the count is exact: the write index is       *)
(* FullNum slots after the read index, those slots hold what was decoded    *)
(* and not heard, and no thread is at work where the count gives it no      *)
(* slot.                                                                    *)
CountExactUnlessRaced ==
  ~raced =>
    /\ WriteIdx = SlotAt(FullNum)
    /\ FilledInSteps
    /\ EmptiedInSteps
    /\ FullSlotsInOrder

(* Until the first lost update a write() to the device reads within a block *)
(* that is still the slot's, and the decode thread is not filling that slot *)
(* nor growing its buffer under the pointer.                                *)
WriteInBlock ==
  ppc = "write" /\ ~raced =>
    /\ held = "live"
    /\ off + fill <= BufSize[ReadIdx]
    /\ Filling => WriteIdx # ReadIdx

(* Until the first lost update of FullNum the samples are heard in the      *)
(* order of decoding with none missing between them.                        *)
InOrderUnlessRaced ==
  ~raced => \A i \in DOMAIN played : played[i] = i

Stream == INSTANCE FrameStream WITH Capacity <- BUFNUM * MaxSize

(* Until the first lost update, every step of the two threads is a step of  *)
(* the abstract stream: a decoded frame finds room, and what is played are  *)
(* the oldest samples waiting.                                              *)
StreamUnlessRaced == [][~raced => Stream!Next]_<<decoded, played>>

(* The ring never holds the two threads up for good: the decode thread ends *)
(* and so does the playback thread, however far the count has drifted.      *)
BothEnd == <>(dpc = "done" /\ ppc = "done")
=============================================================================
