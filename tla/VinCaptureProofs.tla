-------------------------- MODULE VinCaptureProofs --------------------------
(***************************************************************************)
(* Theorems about the camera demo, for all days, every limit of the        *)
(* numbers and any number of pictures.                                     *)
(***************************************************************************)
EXTENDS VinCapture, TLAPS

(* The name a new picture gets is a name, and not that of another one.      *)
LEMMA NewName ==
  ASSUME TypeOK, NEW i \in {index, NoIndex}, NEW n \in FreeNumbers(FirstNumber(i))
  PROVE  /\ n \in Nat
         /\ <<today, n>> \in Names
         /\ <<today, n>> \notin Named
<1>1. i \in Names \cup {NoIndex}
  BY DEF TypeOK
<1>2. FirstNumber(i) \in Nat
  BY <1>1, CaptureAssumption DEF FirstNumber, Names, NoIndex
<1>3. n \in Nat /\ <<today, n>> \notin Named
  BY <1>2, CaptureAssumption DEF FreeNumbers
<1>4. today \in Days
  BY DEF TypeOK
<1> QED
  BY <1>3, <1>4 DEF Names

(* The picture NewCapFile adds to the folder: its name is the first free    *)
(* one after the number the index gives, and the others stay as they were.  *)
LEMMA NewPicture ==
  ASSUME TypeOK, PictureAtHand, NewCapFile
  PROVE  /\ \E i \in {index, NoIndex} : \E n \in FreeNumbers(FirstNumber(i)) :
              /\ \A m \in FreeNumbers(FirstNumber(i)) : n <= m
              /\ cur' = <<today, n>>
         /\ cur' \in Names \ Named
         /\ DOMAIN pics' = Named \cup {cur'}
         /\ pics' \in [Named \cup {cur'} -> [at : 1 .. MaxPics, whole : BOOLEAN]]
         /\ pics'[cur'].at = taken + 1
         /\ \A k \in Named : pics'[k] = pics[k]
         /\ dirty' = dirty \cup {cur'}
<1>1. PICK i \in {index, NoIndex} : \E n \in FreeNumbers(FirstNumber(i)) :
        /\ \A m \in FreeNumbers(FirstNumber(i)) : n <= m
        /\ cur' = <<today, n>>
        /\ pics' = [k \in Named \cup {cur'} |->
                      IF k = cur' THEN [at |-> taken + 1, whole |-> FALSE] ELSE pics[k]]
        /\ dirty' = dirty \cup {cur'}
  BY DEF NewCapFile
<1>2. PICK n \in FreeNumbers(FirstNumber(i)) :
        /\ \A m \in FreeNumbers(FirstNumber(i)) : n <= m
        /\ cur' = <<today, n>>
        /\ pics' = [k \in Named \cup {cur'} |->
                      IF k = cur' THEN [at |-> taken + 1, whole |-> FALSE] ELSE pics[k]]
        /\ dirty' = dirty \cup {cur'}
  BY <1>1
<1>3. cur' \in Names \ Named
  BY <1>2, NewName
<1>4. taken + 1 \in 1 .. MaxPics
  BY CaptureAssumption DEF NewCapFile, PictureAtHand, At, TypeOK
<1>5. \A k \in Named : pics[k] \in [at : 1 .. MaxPics, whole : BOOLEAN]
  BY DEF TypeOK
<1> QED
  BY <1>1, <1>2, <1>3, <1>4, <1>5

(* What a power failure leaves of a set of pictures is a set of pictures.   *)
LEMMA PicsLeft ==
  ASSUME TypeOK, NEW gone \in SUBSET dirty, NEW cut \in SUBSET dirty,
         pics' = [k \in Named \ gone |->
                    IF k \in cut THEN [pics[k] EXCEPT !.whole = FALSE] ELSE pics[k]]
  PROVE  /\ DOMAIN pics' = Named \ gone
         /\ pics' \in [Named \ gone -> [at : 1 .. MaxPics, whole : BOOLEAN]]
         /\ \A k \in Named \ gone : pics'[k].at = pics[k].at
<1>1. \A k \in Named \ gone : pics[k] \in [at : 1 .. MaxPics, whole : BOOLEAN]
  BY DEF TypeOK
<1> QED
  BY <1>1
-----------------------------------------------------------------------------
LEMMA TypeStep ==
  ASSUME TypeOK, PictureAtHand, [Next]_vars
  PROVE  TypeOK'
<1> USE DEF TypeOK, Pcs, At, Goto, Named
<1> USE CaptureAssumption
<1>1. CASE Launch
  <2>1. /\ preview' \in BOOLEAN /\ streaming' \in BOOLEAN /\ unreachable' \in BOOLEAN
        /\ refused' \subseteq {"preview", "capture"}
    BY <1>1, Zenon DEF Launch
  <2> QED
    BY <1>1, <2>1 DEF Launch, folder
<1>2. CASE CameraUnreachable
  <2>1. preview' \in BOOLEAN /\ unreachable' \in BOOLEAN
    BY <1>2, Zenon DEF CameraUnreachable, Stopped
  <2> QED
    BY <1>2, <2>1 DEF CameraUnreachable, program, folder
<1>3. CASE CameraKey
  <2>1. preview' \in BOOLEAN /\ streaming' \in BOOLEAN
    BY <1>3, Zenon DEF CameraKey, Starts, Stopped
  <2>2. refused' \subseteq {"preview", "capture"}
    BY <1>3 DEF CameraKey, Starts
  <2> QED
    BY <1>3, <2>1, <2>2 DEF CameraKey, folder
<1>4. CASE RightKey
  BY <1>4 DEF RightKey, camera, folder, history
<1>5. CASE NewCapFile
  BY <1>5, NewPicture DEF NewCapFile, PictureAtHand, camera
<1>6. CASE NewCapFileFails
  BY <1>6 DEF NewCapFileFails, camera, folder, history
<1>7. CASE Write
  <2>1. PICK whole \in BOOLEAN : pics' = [pics EXCEPT ![cur].whole = whole]
    BY <1>7 DEF Write
  <2>2. /\ DOMAIN pics' = Named
        /\ pics' \in [Named -> [at : 1 .. MaxPics, whole : BOOLEAN]]
    BY <2>1
  <2> QED
    BY <1>7, <2>2 DEF Write, camera, history
<1>8. CASE Fsync
  BY <1>8 DEF Fsync, camera, PictureAtHand
<1>9. CASE TruncateIndex
  BY <1>9 DEF TruncateIndex, SetIndex, camera, history
<1>10. CASE WriteIndex
  BY <1>10 DEF WriteIndex, SetIndex, camera, history
<1>11. CASE Sync
  BY <1>11 DEF Sync, camera
<1>12. CASE Resume
  <2>1. streaming' \in BOOLEAN
    BY <1>12, Zenon DEF Resume, Starts
  <2>2. refused' \subseteq {"preview", "capture"}
    BY <1>12 DEF Resume, Starts
  <2> QED
    BY <1>12, <2>1, <2>2 DEF Resume, folder
<1>13. CASE Quit
  BY <1>13 DEF Quit, CameraOff, folder
<1>14. CASE PowerFails
  <2>1. PICK gone \in SUBSET dirty, cut \in SUBSET dirty :
          /\ pics' = [k \in Named \ gone |->
                        IF k \in cut THEN [pics[k] EXCEPT !.whole = FALSE] ELSE pics[k]]
          /\ lost' = lost \cup gone
          /\ unsynced' = unsynced \ (dirty \ gone)
    BY <1>14 DEF PowerFails
  <2>2. /\ DOMAIN pics' = Named \ gone
        /\ pics' \in [Named \ gone -> [at : 1 .. MaxPics, whole : BOOLEAN]]
    BY <2>1, PicsLeft
  <2> QED
    BY <1>14, <2>1, <2>2 DEF PowerFails, CameraOff
<1>15. CASE DayChanges
  BY <1>15 DEF DayChanges, program, camera, folder, history
<1>16. CASE UNCHANGED vars
  BY <1>16 DEF vars, program, camera, folder, history
<1> QED
  BY <1>1, <1>2, <1>3, <1>4, <1>5, <1>6, <1>7, <1>8, <1>9, <1>10, <1>11, <1>12,
     <1>13, <1>14, <1>15, <1>16 DEF Next, Program
-----------------------------------------------------------------------------
(* What else NewCapFile and PowerFails leave true, and then every step.     *)

(* The index that is read names a picture or one that was lost, so that the *)
(* numbers below the one the search begins with were used, and so were      *)
(* those it passes.                                                         *)
LEMMA NumbersBelow ==
  ASSUME TypeOK, IndexNamesPicture, NoGaps,
         NEW i \in {index, NoIndex}, NEW n \in FreeNumbers(FirstNumber(i)),
         \A m \in FreeNumbers(FirstNumber(i)) : n <= m,
         NEW j \in 1 .. n - 1
  PROVE  <<today, j>> \in Named \cup lost
<1>1. n \in Nat /\ j \in Nat
  <2>1. n \in Nat
    BY NewName
  <2> QED
    BY <2>1
<1>2. FirstNumber(i) \in Nat
  BY CaptureAssumption DEF FirstNumber, TypeOK, Names, NoIndex
<1>3. CASE FirstNumber(i) <= j
  BY <1>1, <1>2, <1>3, CaptureAssumption DEF FreeNumbers
<1>4. CASE j < FirstNumber(i)
  <2>1. i # NoIndex /\ i[1] = today /\ j <= i[2]
    BY <1>1, <1>4 DEF FirstNumber, TypeOK, Names, NoIndex
  <2>2. i \in Named \cup lost /\ i = <<today, i[2]>> /\ i[2] \in Nat
    BY <2>1 DEF IndexNamesPicture, TypeOK, Names
  <2> QED
    BY <1>1, <2>1, <2>2 DEF NoGaps
<1> QED
  BY <1>1, <1>2, <1>3, <1>4

LEMMA AtHandStep ==
  ASSUME TypeOK, PictureAtHand, [Next]_vars
  PROVE  PictureAtHand'
<1> USE DEF PictureAtHand, At, Goto, Named
<1>1. CASE Launch \/ CameraUnreachable \/ CameraKey \/ RightKey
  BY <1>1 DEF Launch, CameraUnreachable, CameraKey, RightKey, program, history
<1>2. CASE NewCapFile
  BY <1>2, NewPicture DEF NewCapFile
<1>3. CASE NewCapFileFails \/ Resume \/ Sync \/ Quit \/ PowerFails
  BY <1>3 DEF NewCapFileFails, Resume, Sync, Quit, PowerFails
<1>4. CASE Write
  BY <1>4 DEF Write
<1>5. CASE Fsync
  BY <1>5 DEF Fsync, TypeOK
<1>6. CASE TruncateIndex \/ WriteIndex
  BY <1>6 DEF TruncateIndex, WriteIndex, history
<1>7. CASE DayChanges \/ UNCHANGED vars
  BY <1>7 DEF DayChanges, vars, program, camera, folder, history
<1> QED
  BY <1>1, <1>2, <1>3, <1>4, <1>5, <1>6, <1>7 DEF Next, Program

LEMMA IndexStep ==
  ASSUME TypeOK, PictureAtHand, IndexNamesPicture, [Next]_vars
  PROVE  IndexNamesPicture'
<1> USE DEF IndexNamesPicture, Named
<1>1. CASE Launch \/ CameraUnreachable \/ CameraKey \/ RightKey
  BY <1>1 DEF Launch, CameraUnreachable, CameraKey, RightKey, folder, history
<1>2. CASE NewCapFile
  BY <1>2, NewPicture DEF NewCapFile
<1>3. CASE NewCapFileFails \/ Resume \/ Quit
  BY <1>3 DEF NewCapFileFails, Resume, Quit, folder, history
<1>4. CASE Write
  BY <1>4 DEF Write, history
<1>5. CASE Fsync
  BY <1>5 DEF Fsync, PictureAtHand, At, TypeOK
<1>6. CASE TruncateIndex
  BY <1>6 DEF TruncateIndex, SetIndex, history
<1>7. CASE WriteIndex
  BY <1>7 DEF WriteIndex, SetIndex, PictureAtHand, At, history
<1>8. CASE Sync
  BY <1>8 DEF Sync, TypeOK
<1>9. CASE PowerFails
  BY <1>9 DEF PowerFails, TypeOK
<1>10. CASE DayChanges \/ UNCHANGED vars
  BY <1>10 DEF DayChanges, vars, folder, history
<1> QED
  BY <1>1, <1>2, <1>3, <1>4, <1>5, <1>6, <1>7, <1>8, <1>9, <1>10 DEF Next, Program

LEMMA CameraStep ==
  ASSUME CameraKept, TypeOK, [Next]_vars
  PROVE  CameraKept'
<1> USE DEF CameraKept, At, Goto, camera
<1>1. CASE Launch \/ CameraUnreachable \/ CameraKey \/ RightKey
  BY <1>1 DEF Launch, CameraUnreachable, CameraKey, RightKey, Starts, Stopped, program, history
<1>2. CASE NewCapFile \/ NewCapFileFails \/ Write \/ Fsync \/ TruncateIndex \/ WriteIndex \/ Sync
  BY <1>2 DEF NewCapFile, NewCapFileFails, Write, Fsync, TruncateIndex, WriteIndex, Sync, history
<1>3. CASE Resume
  BY <1>3 DEF Resume, Starts, TypeOK
<1>4. CASE Quit \/ PowerFails
  BY <1>4 DEF Quit, PowerFails
<1>5. CASE DayChanges \/ UNCHANGED vars
  BY <1>5 DEF DayChanges, vars, program, history
<1> QED
  BY <1>1, <1>2, <1>3, <1>4, <1>5 DEF Next, Program

(* A new picture closes no gap and leaves none; one that a power failure    *)
(* takes goes over to lost.                                                 *)
LEMMA GapsStep ==
  ASSUME TypeOK, PictureAtHand, IndexNamesPicture, NoGaps, [Next]_vars
  PROVE  NoGaps'
<1>1. CASE NewCapFile
  <2>1. PICK i \in {index, NoIndex} : \E n \in FreeNumbers(FirstNumber(i)) :
          /\ \A m \in FreeNumbers(FirstNumber(i)) : n <= m
          /\ cur' = <<today, n>>
    BY <1>1, NewPicture
  <2>2. PICK n \in FreeNumbers(FirstNumber(i)) :
          /\ \A m \in FreeNumbers(FirstNumber(i)) : n <= m
          /\ cur' = <<today, n>>
    BY <2>1
  <2>3. \A j \in 1 .. n - 1 : <<today, j>> \in Named \cup lost
    BY <2>2, NumbersBelow
  <2>4. Named' = Named \cup {cur'} /\ lost' = lost
    BY <1>1, NewPicture DEF NewCapFile, Named
  <2>5. ASSUME NEW k \in Named' \cup lost', NEW j \in 1 .. k[2] - 1
        PROVE  <<k[1], j>> \in Named' \cup lost'
    <3>1. CASE k \in Named \cup lost
      BY <2>4, <2>5, <3>1 DEF NoGaps
    <3>2. CASE k = cur'
      <4>1. k[1] = today /\ k[2] = n
        BY <2>2, <3>2
      <4> QED
        BY <2>3, <2>4, <2>5, <4>1
    <3> QED
      BY <2>4, <3>1, <3>2
  <2> QED
    BY <2>5 DEF NoGaps
<1>2. CASE PowerFails
  <2>1. PICK gone \in SUBSET dirty : Named' = Named \ gone /\ lost' = lost \cup gone
    BY <1>2 DEF PowerFails, Named
  <2>2. Named' \cup lost' = Named \cup lost
    BY <2>1 DEF TypeOK
  <2> QED
    BY <2>2 DEF NoGaps
<1>3. CASE Write
  BY <1>3 DEF Write, NoGaps, Named, history
<1>4. ASSUME UNCHANGED <<pics, lost>>
      PROVE  NoGaps'
  BY <1>4 DEF NoGaps, Named
<1>5. CASE Launch \/ CameraUnreachable \/ CameraKey \/ RightKey \/ NewCapFileFails
            \/ Fsync \/ TruncateIndex \/ WriteIndex \/ Sync \/ Resume \/ Quit
            \/ DayChanges \/ UNCHANGED vars
  BY <1>4, <1>5 DEF Launch, CameraUnreachable, CameraKey, RightKey, NewCapFileFails,
     Fsync, TruncateIndex, WriteIndex, Sync, Resume, Quit, DayChanges, vars, folder, history
<1> QED
  BY <1>1, <1>2, <1>3, <1>5 DEF Next, Program

(* Nothing but NewCapFile and PowerFails changes which pictures there are,  *)
(* or when they were taken; the new one was taken last.                     *)
LEMMA OrderStep ==
  ASSUME TypeOK, PictureAtHand, NoGaps, TakenBefore, NumbersInOrder, [Next]_vars
  PROVE  TakenBefore' /\ NumbersInOrder'
<1> USE DEF Named
<1>1. CASE NewCapFile
  <2>1. /\ cur' \in Names \ Named
        /\ Named' = Named \cup {cur'}
        /\ pics'[cur'].at = taken + 1
        /\ \A k \in Named : pics'[k] = pics[k]
    BY <1>1, NewPicture
  <2>2. taken' = taken + 1 /\ lost' = lost /\ taken \in Nat
    BY <1>1 DEF NewCapFile, TypeOK
  <2>3. \A k \in Named : pics[k].at \in Nat /\ pics[k].at <= taken
    BY DEF TypeOK, TakenBefore
  <2>4. TakenBefore'
    BY <2>1, <2>2, <2>3 DEF TakenBefore
  <2>5. ASSUME NEW a \in Named', NEW b \in Named',
               a[1] = b[1], 0 < a[2], a[2] < b[2], a \notin lost
        PROVE  pics'[a].at < pics'[b].at
    <3>1. CASE a \in Named /\ b \in Named
      BY <2>1, <2>5, <3>1 DEF NumbersInOrder
    <3>2. CASE a \in Named /\ b = cur'
      BY <2>1, <2>2, <2>3, <3>2
    <3>3. CASE a = cur' /\ b \in Named
      <4>1. a[2] \in 1 .. b[2] - 1 /\ a = <<b[1], a[2]>>
        BY <2>1, <2>5, <3>3 DEF Names, TypeOK
      <4>2. a \in Named
        BY <2>5, <3>3, <4>1 DEF NoGaps
      <4> QED
        BY <2>1, <3>3, <4>2
    <3>4. CASE a = cur' /\ b = cur'
      BY <2>1, <2>5, <3>4 DEF Names
    <3> QED
      BY <2>1, <3>1, <3>2, <3>3, <3>4
  <2> QED
    BY <2>2, <2>4, <2>5 DEF NumbersInOrder
<1>2. CASE PowerFails
  <2>1. PICK gone \in SUBSET dirty, cut \in SUBSET dirty :
          /\ pics' = [k \in Named \ gone |->
                        IF k \in cut THEN [pics[k] EXCEPT !.whole = FALSE] ELSE pics[k]]
          /\ lost' = lost \cup gone
    BY <1>2 DEF PowerFails
  <2>2. Named' = Named \ gone /\ \A k \in Named \ gone : pics'[k].at = pics[k].at
    BY <2>1, PicsLeft
  <2>3. taken' = taken
    BY <1>2 DEF PowerFails
  <2> QED
    BY <2>1, <2>2, <2>3 DEF TakenBefore, NumbersInOrder
<1>3. CASE Write
  <2>1. PICK whole \in BOOLEAN : pics' = [pics EXCEPT ![cur].whole = whole]
    BY <1>3 DEF Write
  <2>2. Named' = Named /\ \A k \in Named : pics'[k].at = pics[k].at
    <3>1. \A k \in Named : pics[k] \in [at : 1 .. MaxPics, whole : BOOLEAN]
      BY DEF TypeOK
    <3> QED
      BY <2>1, <3>1
  <2>3. taken' = taken /\ lost' = lost
    BY <1>3 DEF Write, history
  <2> QED
    BY <2>2, <2>3 DEF TakenBefore, NumbersInOrder
<1>4. ASSUME UNCHANGED <<pics, lost, taken>>
      PROVE  TakenBefore' /\ NumbersInOrder'
  BY <1>4 DEF TakenBefore, NumbersInOrder
<1>5. CASE Launch \/ CameraUnreachable \/ CameraKey \/ RightKey \/ NewCapFileFails
            \/ Fsync \/ TruncateIndex \/ WriteIndex \/ Sync \/ Resume \/ Quit
            \/ DayChanges \/ UNCHANGED vars
  BY <1>4, <1>5 DEF Launch, CameraUnreachable, CameraKey, RightKey, NewCapFileFails,
     Fsync, TruncateIndex, WriteIndex, Sync, Resume, Quit, DayChanges, vars, folder, history
<1> QED
  BY <1>1, <1>2, <1>3, <1>5 DEF Next, Program

(* The invariant is inductive.                                              *)
LEMMA CaptureInvariant == Spec => []CaptureInv
<1>1. Init => CaptureInv
  <2> SUFFICES ASSUME Init PROVE CaptureInv
    OBVIOUS
  <2>1. Named = {}
    BY DEF Init, Named
  <2>2. TypeOK
    <3>1. pics \in [Named -> [at : 1 .. MaxPics, whole : BOOLEAN]]
      BY <2>1, Zenon DEF Init
    <3>2. /\ preview \in BOOLEAN /\ streaming \in BOOLEAN /\ unreachable \in BOOLEAN
          /\ pc \in Pcs /\ key \in {"none", "camera", "right"} /\ today \in Days
      BY DEF Init, Pcs
    <3>3. /\ dirty = {} /\ lost = {} /\ unsynced = {} /\ refused = {} /\ index = NoIndex /\ stored = {NoIndex}
          /\ cur = NoIndex /\ taken \in 0 .. MaxPics
      BY CaptureAssumption DEF Init
    <3> QED
      BY <2>1, <3>1, <3>2, <3>3 DEF TypeOK
  <2>3. PictureAtHand /\ CameraKept /\ IndexNamesPicture
    BY DEF Init, PictureAtHand, CameraKept, IndexNamesPicture, At
  <2>4. lost = {}
    BY DEF Init
  <2> QED
    BY <2>1, <2>2, <2>3, <2>4 DEF CaptureInv, NoGaps, TakenBefore, NumbersInOrder
<1>2. CaptureInv /\ [Next]_vars => CaptureInv'
  BY TypeStep, AtHandStep, IndexStep, GapsStep, OrderStep, CameraStep DEF CaptureInv
<1> QED
  BY <1>1, <1>2, PTL DEF Spec
-----------------------------------------------------------------------------
(* Types of the program, the camera and the folder, after any crash.        *)
THEOREM CaptureTypeCorrect == Spec => []TypeOK
<1>1. CaptureInv => TypeOK
  BY DEF CaptureInv
<1> QED
  BY <1>1, CaptureInvariant, PTL

(* Whenever the power fails, the index that is found names a picture that   *)
(* is there for good, as DSC_CloseCapFile syncs the picture first, or one   *)
(* whose fsync() failed.                                                    *)
THEOREM IndexAlwaysNamesPicture == Spec => []IndexNamesPicture
<1>1. CaptureInv => IndexNamesPicture
  BY DEF CaptureInv
<1> QED
  BY <1>1, CaptureInvariant, PTL

(* The numbers of a day follow the order of its pictures, whatever becomes  *)
(* of the index and the clock: they leave no gaps but lost pictures.        *)
THEOREM NumbersAlwaysInOrder == Spec => []NumbersInOrder
<1>1. CaptureInv => NumbersInOrder
  BY DEF CaptureInv
<1> QED
  BY <1>1, CaptureInvariant, PTL

(* No way a picture can fail leaves the capture stopped: it is only when    *)
(* the driver refused to start it.                                          *)
THEOREM CameraAlwaysGoesOn == Spec => []CameraGoesOn
<1>1. CaptureInv => CameraGoesOn
  BY DEF CaptureInv, CameraKept, CameraGoesOn, At
<1> QED
  BY <1>1, CaptureInvariant, PTL

(* No picture is overwritten or goes away but by a power failure before it  *)
(* was synced: the stat() loop of DSC_NewCapFile takes a free name.         *)
THEOREM PicturesAreKept == Spec => PicturesKept
<1> DEFINE Kept ==
      \A k \in Named :
        \/ k \in DOMAIN pics' /\ pics'[k] = pics[k]
        \/ k \in dirty /\ pc' = "off"
        \/ k = cur /\ pc = "write"
<1>1. CaptureInv /\ [Next]_vars => [Kept]_vars
  <2> SUFFICES ASSUME TypeOK, PictureAtHand, [Next]_vars
               PROVE  Kept
    BY DEF CaptureInv
  <2> USE DEF Named
  <2>1. CASE NewCapFile
    BY <2>1, NewPicture
  <2>2. CASE PowerFails
    BY <2>2 DEF PowerFails, Goto
  <2>3. CASE Write
    BY <2>3 DEF Write, At
  <2>4. ASSUME UNCHANGED pics
        PROVE  Kept
    BY <2>4
  <2>5. CASE Launch \/ CameraUnreachable \/ CameraKey \/ RightKey \/ NewCapFileFails
              \/ Fsync \/ TruncateIndex \/ WriteIndex \/ Sync \/ Resume \/ Quit
              \/ DayChanges \/ UNCHANGED vars
    BY <2>4, <2>5 DEF Launch, CameraUnreachable, CameraKey, RightKey, NewCapFileFails,
       Fsync, TruncateIndex, WriteIndex, Sync, Resume, Quit, DayChanges, vars, folder
  <2> QED
    BY <2>1, <2>2, <2>3, <2>5 DEF Next, Program
<1> QED
  BY <1>1, CaptureInvariant, PTL DEF Spec, PicturesKept
=============================================================================
