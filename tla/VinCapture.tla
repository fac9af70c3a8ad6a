----------------------------- MODULE VinCapture -----------------------------
(* The camera demo (vin_demo.c with dsc.c): a key takes a picture, which    *)
(* becomes the file KRV<month><day><number>.jpg of the save folder, and the *)
(* number is kept in the index file .dsc.idx for the next picture.  Around  *)
(* it: a clock that may be set to any day, a storage that keeps what was    *)
(* written only once it was synced, power failures at any step, and a       *)
(* process that may be ended at any step and started again.  Every call     *)
(* that starts or stops the camera, writes or syncs may fail; where the     *)
(* code does not look at the result, the program goes on all the same.      *)
(*                                                                         *)
(* A day is what a file name tells of it (month and day, no year); a file   *)
(* is named <<day, number>>.  Of a picture only when it was taken and       *)
(* whether it is whole are kept.                                            *)
(***************************************************************************)
EXTENDS Integers, FiniteSets

CONSTANTS
  Days,       (* the days the clock may show                               *)
  Last,       (* 999: the search for a free number ends here               *)
  MaxPics     (* bounds the model: pictures taken                          *)

ASSUME CaptureAssumption ==
  /\ Days \subseteq Nat \ {0} /\ Days # {}
  /\ Last \in Nat \ {0}
  /\ MaxPics \in Nat \ {0}

VARIABLES
  pc,         (* where the program is; "off" when it does not run          *)
  key,        (* CAMERA or RIGHT_KEY while its picture is taken            *)
  cur,        (* s_sCurIdxElem, as a name, while its picture is taken: the *)
              (* next DSC_NewCapFile sets it anew                          *)
  preview,    (* the camera's picture is shown (VIDIOCSPREVIEW)            *)
  streaming,  (* the camera captures (VIDIOCCAPTURE)                       *)
  (* The save folder. *)
  pics,       (* the pictures in it, by name                               *)
  index,      (* the index file; NoIndex if there is none, or no full one  *)
  dirty,      (* pictures a power failure may take                         *)
  stored,     (* the index files a power failure may leave                 *)
  today,      (* localtime()                                               *)
  (* History. *)
  taken,      (* how many pictures were begun                              *)
  lost,       (* names of pictures a power failure took                    *)
  unsynced,   (* names of pictures whose fsync() failed, until they are    *)
              (* known to be on the storage                                *)
  unreachable,(* the preview is off because there was no save folder       *)
  refused     (* what is off because the driver did not start it           *)

program == <<pc, key, cur>>
camera  == <<preview, streaming>>
folder  == <<pics, index, dirty, stored>>
history == <<taken, lost, unsynced, unreachable, refused>>

vars == <<program, camera, folder, today, history>>

NoIndex == <<0, 0>>

Names == Days \X Nat

Named == DOMAIN pics

Pcs == {"off", "idle", "new", "write", "fsync", "trunc", "index", "sync", "exit"}

TypeOK ==
  /\ pc \in Pcs
  /\ key \in {"none", "camera", "right"}
  /\ cur \in Names \cup {NoIndex}
  /\ preview \in BOOLEAN /\ streaming \in BOOLEAN
  /\ Named \subseteq Names
  /\ pics \in [Named -> [at : 1 .. MaxPics, whole : BOOLEAN]]
  /\ index \in Names \cup {NoIndex}
  /\ dirty \subseteq Named
  /\ index \in stored /\ stored \subseteq Names \cup {NoIndex}
  /\ today \in Days
  /\ taken \in 0 .. MaxPics
  /\ lost \subseteq Names /\ unsynced \subseteq dirty \cup lost
  /\ unreachable \in BOOLEAN
  /\ refused \subseteq {"preview", "capture"}

Init ==
  /\ pc = "off" /\ key = "none" /\ cur = NoIndex
  /\ preview = FALSE /\ streaming = FALSE
  /\ pics = [k \in {} |-> [at |-> 1, whole |-> TRUE]]
  /\ index = NoIndex /\ dirty = {} /\ stored = {NoIndex}
  /\ today \in Days
  /\ taken = 0 /\ lost = {} /\ unsynced = {}
  /\ unreachable = FALSE /\ refused = {}

At(l) == pc = l

Goto(l) == pc' = l
-----------------------------------------------------------------------------
(* main, CaptureImage and CaptureImage_Planar                              *)

(* StartPreview or StartV4LCapture (what) for a switch: what it does may    *)
(* fail, and nobody looks at the result.                                    *)
Starts(what, switch, before) ==
  /\ switch' \in {before, TRUE}
  /\ refused' = IF switch' THEN refused \ {what} ELSE refused \cup {what}

(* StopPreview or StopV4LCapture, which may fail just as well. *)
Stopped(switch) == {FALSE, switch}

(* main up to its loop: the preview and the capture are started. *)
Launch ==
  /\ At("off") /\ Goto("idle")
  /\ \E r \in SUBSET {"preview", "capture"} :
       /\ preview' = ("preview" \notin r)
       /\ streaming' = ("capture" \notin r)
       /\ refused' = r
  /\ unreachable' = FALSE
  /\ UNCHANGED <<key, cur, folder, today, taken, lost, unsynced>>

(* CAMERA, statfs() fails: CaptureImage returns with the preview it has     *)
(* just stopped.                                                            *)
CameraUnreachable ==
  /\ At("idle")
  /\ preview' \in Stopped(preview)
  /\ unreachable' = ~preview'
  /\ refused' = refused \ {"preview"}
  /\ UNCHANGED <<program, streaming, folder, today, taken, lost, unsynced>>

(* CAMERA: the preview is stopped and started again.  When the picture      *)
(* cannot be encoded the capture was not stopped; it was when the picture   *)
(* does not fit on the disk.                                                *)
CameraKey ==
  /\ At("idle") /\ taken < MaxPics
  /\ key' = "camera"
  /\ \E p \in Stopped(preview) : Starts("preview", preview, p)
  /\ unreachable' = FALSE
  /\ \/ Goto("exit") /\ UNCHANGED streaming
     \/ pc' \in {"exit", "new"} /\ streaming' \in Stopped(streaming)
  /\ UNCHANGED <<cur, folder, today, taken, lost, unsynced>>

(* RIGHT_KEY: the planar picture is taken without stopping anything; what   *)
(* fails leaves everything as it is.                                        *)
RightKey ==
  /\ At("idle") /\ taken < MaxPics
  /\ key' = "right"
  /\ Goto("new")
  /\ UNCHANGED <<cur, camera, folder, today, history>>

(* Mutated form of Resume: the capture is not started, as for RIGHT_KEY. *)
ResumeStopped ==
  /\ At("exit") /\ Goto("idle")
  /\ key' = "none" /\ cur' = NoIndex
  /\ UNCHANGED <<camera, folder, today, history>>

(* exit_capture_image: CaptureImage starts the capture again. *)
Resume ==
  /\ At("exit") /\ Goto("idle")
  /\ key' = "none" /\ cur' = NoIndex
  /\ \/ key = "camera" /\ Starts("capture", streaming, streaming)
     \/ key = "right" /\ UNCHANGED <<streaming, refused>>
  /\ UNCHANGED <<preview, folder, today, taken, lost, unsynced, unreachable>>
-----------------------------------------------------------------------------
(* DSC_NewCapFile                                                          *)

(* Mutated form of FirstNumber: the day of the index is not looked at. *)
FirstNumberAnyDay(i) == IF i = NoIndex THEN 1 ELSE i[2] + 1

(* Mutated form of FirstNumber: the number before the last one. *)
FirstNumberBefore(i) ==
  IF i = NoIndex THEN 1 ELSE IF i[1] = today THEN i[2] - 1 ELSE 0

(* The number to begin with, from the index that was read.  Without an      *)
(* index the day is taken to have had its number 0.                         *)
FirstNumber(i) ==
  IF i = NoIndex THEN 1 ELSE IF i[1] = today THEN i[2] + 1 ELSE 0

(* Mutated form of FreeNumbers: stat() is not asked. *)
FreeNumbersUnasked(first) == {first}

(* The numbers the loop around stat() can stop at: the limit is only looked *)
(* at when a number was found taken.  A stat() that fails although the file *)
(* is there ends the loop, too, and is not modelled.                        *)
FreeNumbers(first) ==
  {n \in first .. (IF first > Last THEN first ELSE Last) : <<today, n>> \notin Named}

(* GetDSCIndexElem may fail to open or to read an index that is there.      *)
NewCapFile ==
  /\ At("new")
  /\ \E i \in {index, NoIndex} :
       LET free == FreeNumbers(FirstNumber(i)) IN
       \E n \in free :
         /\ \A m \in free : n <= m
         /\ cur' = <<today, n>>
         /\ pics' = [k \in Named \cup {cur'} |->
                       IF k = cur' THEN [at |-> taken + 1, whole |-> FALSE] ELSE pics[k]]
         /\ dirty' = dirty \cup {cur'}
  /\ taken' = taken + 1
  /\ Goto("write")
  /\ UNCHANGED <<key, camera, index, stored, today, lost, unsynced, unreachable, refused>>

(* All numbers up to the limit are taken, or open() fails, or there is no   *)
(* memory for a path.                                                       *)
NewCapFileFails ==
  /\ At("new")
  /\ Goto("exit")
  /\ UNCHANGED <<key, cur, camera, folder, today, history>>
-----------------------------------------------------------------------------
(* write(), DSC_CloseCapFile, UpdateDSCIndexFile and sync()                *)

(* A short or failed write() is not noticed. *)
Write ==
  /\ At("write") /\ Goto("fsync")
  /\ \E whole \in BOOLEAN : pics' = [pics EXCEPT ![cur].whole = whole]
  /\ UNCHANGED <<key, cur, camera, index, dirty, stored, today, history>>

(* Mutated form of Fsync: the file is closed without it. *)
FsyncMissing ==
  /\ At("fsync") /\ Goto("trunc")
  /\ UNCHANGED <<key, cur, camera, folder, today, history>>

(* DSC_CloseCapFile does not look at what fsync() returns. *)
Fsync ==
  /\ At("fsync") /\ Goto("trunc")
  /\ \/ dirty' = dirty \ {cur} /\ unsynced' = unsynced \ {cur}
     \/ UNCHANGED dirty /\ unsynced' = unsynced \cup {cur}
  /\ UNCHANGED <<key, cur, camera, pics, index, stored, today, taken, lost, unreachable, refused>>

SetIndex(i) == index' = i /\ stored' = stored \cup {i}

(* O_TRUNC: the old index is gone before the new one is written.  An index  *)
(* that cannot be opened is left as it was.                                 *)
TruncateIndex ==
  /\ At("trunc")
  /\ \/ Goto("index") /\ SetIndex(NoIndex)
     \/ Goto("sync") /\ UNCHANGED <<index, stored>>
  /\ UNCHANGED <<key, cur, camera, pics, dirty, today, history>>

(* A failed write() leaves the index empty. *)
WriteIndex ==
  /\ At("index") /\ Goto("sync")
  /\ \/ SetIndex(cur)
     \/ UNCHANGED <<index, stored>>
  /\ UNCHANGED <<key, cur, camera, pics, dirty, today, history>>

(* sync() has no result: it may leave anything behind. *)
Sync ==
  /\ At("sync") /\ Goto("exit")
  /\ dirty' \in SUBSET dirty
  /\ stored' \in {{index}, stored}
  /\ unsynced' = unsynced \ (dirty \ dirty')
  /\ UNCHANGED <<key, cur, camera, pics, index, today, taken, lost, unreachable, refused>>
-----------------------------------------------------------------------------
(* What ends the program, and the world around it.                         *)

CameraOff ==
  /\ preview' = FALSE /\ streaming' = FALSE
  /\ unreachable' = FALSE /\ refused' = {}

(* HOME, and SIGINT or SIGTERM at any step (myExitHandler): the camera is   *)
(* stopped and the process ends; what it wrote stays in the folder.         *)
Quit ==
  /\ ~At("off") /\ Goto("off")
  /\ key' = "none" /\ cur' = NoIndex
  /\ CameraOff
  /\ UNCHANGED <<folder, today, taken, lost, unsynced>>

(* A power failure takes any of the pictures that were not synced, or cuts  *)
(* them short, and leaves one of the index files since the last sync().     *)
PowerFails ==
  /\ \E gone \in SUBSET dirty : \E cut \in SUBSET (dirty \ gone) :
       /\ pics' = [k \in Named \ gone |->
                     IF k \in cut THEN [pics[k] EXCEPT !.whole = FALSE] ELSE pics[k]]
       /\ lost' = lost \cup gone
       /\ unsynced' = unsynced \ (dirty \ gone)
  /\ index' \in stored /\ stored' = {index'}
  /\ dirty' = {}
  /\ Goto("off") /\ key' = "none" /\ cur' = NoIndex
  /\ CameraOff
  /\ UNCHANGED <<today, taken>>

(* A day passes, or the clock is set, forward or back. *)
DayChanges ==
  /\ today' \in Days \ {today}
  /\ UNCHANGED <<program, camera, folder, history>>

Program ==
  Launch \/ CameraUnreachable \/ CameraKey \/ RightKey \/ NewCapFile
    \/ NewCapFileFails \/ Write \/ Fsync \/ TruncateIndex \/ WriteIndex
    \/ Sync \/ Resume \/ Quit

Next == Program \/ PowerFails \/ DayChanges

Spec == Init /\ [][Next]_vars
-----------------------------------------------------------------------------
(* A picture in the folder is never overwritten and never goes away: only   *)
(* the one being written changes, and a power failure takes or cuts only    *)
(* pictures that were not synced.  So whatever the index says after a crash *)
(* or a change of the clock, no new picture gets the name of an old one.    *)
PicturesKept ==
  [][\A k \in Named :
       \/ k \in DOMAIN pics' /\ pics'[k] = pics[k]
       \/ k \in dirty /\ pc' = "off"
       \/ k = cur /\ pc = "write"]_vars

(* At no moment can a power failure leave an index that names a picture     *)
(* which is not in the folder, or not there for good: the picture is synced *)
(* before the index is touched.  Only a picture whose fsync() failed is     *)
(* excepted: DSC_CloseCapFile writes its name into the index all the same.  *)
IndexNamesPicture ==
  \A i \in stored \ {NoIndex} : i \in (Named \ dirty) \cup unsynced

(* The numbers of a day follow the order in which its pictures were taken,  *)
(* however often the index was lost or out of date.  Two numbers are        *)
(* excepted: 0, which a day that began without an index leaves free, and    *)
(* that of a picture taken away by a power failure.                         *)
NumbersInOrder ==
  \A a, b \in Named :
    a[1] = b[1] /\ 0 < a[2] /\ a[2] < b[2] /\ a \notin lost =>
      pics[a].at < pics[b].at

(* Between two keys the camera captures, and it is shown unless the last    *)
(* CAMERA key did not find the save folder: by whichever way a picture      *)
(* failed, what was stopped for it was started again.  Only a start that    *)
(* the driver refused, which nobody notices, leaves the camera stopped.     *)
CameraGoesOn ==
  At("idle") =>
    /\ streaming \/ "capture" \in refused
    /\ preview \/ unreachable \/ "preview" \in refused
-----------------------------------------------------------------------------
(* What the invariants rest on, for every step between two keys.           *)

(* The picture being taken is in the folder, and there for good once the    *)
(* index is about to name it, unless its fsync() failed.                    *)
PictureAtHand ==
  /\ At("new") => taken < MaxPics
  /\ pc \in {"write", "fsync"} => cur \in dirty
  /\ pc \in {"trunc", "index"} => cur \in (Named \ dirty) \cup unsynced

(* The numbers below one that was ever used have been used.                 *)
NoGaps ==
  \A k \in Named \cup lost : \A n \in 1 .. k[2] - 1 : <<k[1], n>> \in Named \cup lost

TakenBefore == \A k \in Named : pics[k].at <= taken

(* RIGHT_KEY finds the capture running, or refused, and leaves it so.       *)
CameraKept ==
  ~At("off") =>
    /\ At("idle") \/ key = "right" => streaming \/ "capture" \in refused
    /\ preview \/ unreachable \/ "preview" \in refused

CaptureInv ==
  /\ TypeOK
  /\ PictureAtHand /\ IndexNamesPicture
  /\ NoGaps /\ TakenBefore /\ NumbersInOrder
  /\ CameraKept
=============================================================================
