----------------------------- MODULE NandWriter -----------------------------
(* mn_writer: lays out the images named in NANDWRITER.ini one behind the    *)
(* other, erases the flash and burns four copies of the system block and    *)
(* then the images, each with a tool of mtd-utils run by system().  Around  *)
(* it: blocks that are bad, tools that do only part of their work, power    *)
(* failures at any step, and another run, with any ini file, after each.    *)
(*                                                                         *)
(* An image is a number of pieces of a block each; a block holds a piece,   *)
(* Erased, or Junk: what was there before, half written, or written twice.  *)
(***************************************************************************)
EXTENDS Integers, Sequences, FiniteSets

CONSTANTS
  BlockLen,     (* g_u32BlockSize, in the unit file lengths are given in    *)
  AreaBlocks,   (* the blocks of /dev/mtd1                                  *)
  AddressBlocks,(* 2^32 bytes in blocks, of which there is a whole number   *)
  Inis,         (* the ini files: [logo, exec : a length, num : Int]        *)
  MaxBad,       (* bounds the model: bad blocks in each of the two areas    *)
  MaxRuns,      (* bounds the model: runs of mn_writer                      *)
  MaxFaults     (* bounds the model: commands that do not do all their work *)

uIBRAreaSize == 4

MAX_FWInfo == 16

NoName  == -2   (* in the place of a length: the ini file names no file     *)
Missing == -1   (* in the place of a length: stat() fails                   *)

ASSUME NandAssumption ==
  /\ BlockLen \in Nat \ {0} /\ AddressBlocks \in Nat \ {0}
  /\ AreaBlocks \in Nat /\ MaxBad \in Nat
  /\ MaxRuns \in Nat /\ MaxFaults \in Nat
  /\ \A ini \in Inis :
       /\ ini.logo \in Nat \cup {NoName, Missing}
       /\ ini.exec \in Nat \cup {NoName, Missing}
       /\ ini.num \in Int

VARIABLES
  pc,         (* the next command; "off" when mn_writer does not run        *)
  ini,        (* Ini_Writer                                                 *)
  i,          (* the loop variable of burn_images                           *)
  sys, area,  (* the blocks of /dev/mtd0 and /dev/mtd1                      *)
  badSys, badArea,
  run,        (* how many runs were begun                                   *)
  failed,     (* a tool of this run did not do all its work                 *)
  faults      (* how many commands did not, in all runs                     *)

chips == <<badSys, badArea>>

vars == <<pc, ini, i, sys, area, chips, run, failed, faults>>

Erased == <<"erased">>
Junk   == <<"junk">>

SysBlocks == 0 .. uIBRAreaSize - 1
Blocks    == 0 .. AreaBlocks - 1
-----------------------------------------------------------------------------
(* The table FWInfo that main fills from the ini file.                     *)

(* How often main's loop puts the program into the table. *)
Copies(f) == IF f.exec = NoName \/ f.num < 0 THEN 0 ELSE f.num

(* The entries in the order main makes them, of which it does not count how *)
(* many there are.                                                          *)
Files(f) ==
  <<[flag |-> "system", len |-> BlockLen]>>
    \o (IF f.logo = NoName THEN <<>> ELSE <<[flag |-> "logo", len |-> f.logo]>>)
    \o [k \in 1 .. Copies(f) |-> [flag |-> "exec", len |-> f.exec]]

UINT16Values == 65536   (* how many there are *)

UINT16(n) == n % UINT16Values

(* Mutated form of EndBlock: as if the block count were rounded up. *)
EndBlockTight(start, len) == UINT16(start + len \div BlockLen - 1)

EndBlock(start, len) == UINT16(start + len \div BlockLen)

(* An entry whose stat() failed stays as memset() left it. *)
EndBlocks(files) ==
  LET end[k \in 1 .. Len(files)] ==
        IF k = 1 THEN 3
        ELSE IF files[k].len = Missing THEN UINT16Values - 1
        ELSE EndBlock(UINT16(end[k - 1] + 1), files[k].len)
  IN end

Entries == Files(ini)

(* FWInfo has room for all of them.  Nothing in the code looks at this.     *)
TableHolds == Len(Entries) <= MAX_FWInfo

(* Where the table has the k-th entry, which is not the first, begin: in    *)
(* /dev/mtd1, which comes after the blocks of /dev/mtd0.                    *)
Start(k) == UINT16(EndBlocks(Entries)[k - 1] + 1) - uIBRAreaSize

(* Where it is burnt: the offset is a UINT32 number of bytes. *)
Offset(k) == Start(k) % AddressBlocks

Pieces(len) == (len + BlockLen - 1) \div BlockLen
-----------------------------------------------------------------------------
(* The tools.                                                              *)

(* How many pieces of an image that begins at block start lie below b. *)
Below(b, start, bad) == Cardinality((start .. b - 1) \ bad)

(* Where the pieces of an image are put: bad blocks are skipped. *)
Place(flash, bad, start, n) ==
  {b \in DOMAIN flash \ bad : start <= b /\ Below(b, start, bad) < n}

(* nandwrite, which puts done pieces of an image and may leave another half *)
(* written.                                                                 *)
Written(flash, bad, start, image, done, torn) ==
  [b \in DOMAIN flash |->
     IF b \in Place(flash, bad, start, done)
     THEN IF flash[b] = Erased THEN <<image, Below(b, start, bad), run>> ELSE Junk
     ELSE IF torn /\ b \in Place(flash, bad, start, done + 1) THEN Junk
     ELSE flash[b]]

(* nandwrite writes nothing if the image is longer than what comes after    *)
(* start, bad blocks not counted.                                           *)
Fits(flash, start, n) == start + n <= Cardinality(DOMAIN flash)

(* flash_erase, which goes through the blocks up to the one it stops at. *)
ErasedTo(flash, bad, stop) ==
  [b \in DOMAIN flash |-> IF b \in bad \/ stop <= b THEN flash[b] ELSE Erased]
-----------------------------------------------------------------------------
TypeOK ==
  LET Contents == {Erased, Junk}
        \cup {"system", "logo", "exec"} \X (0 .. AreaBlocks) \X (1 .. MaxRuns)
  IN
  /\ pc \in {"off", "erasesys", "sys", "erasearea", "entry", "done"}
  /\ ini \in Inis
  /\ i \in 0 .. MAX_FWInfo
  /\ pc = "sys" => i < uIBRAreaSize
  /\ pc = "entry" => i <= Len(Entries)
  /\ pc \notin {"off", "done"} => TableHolds
  /\ sys \in [SysBlocks -> Contents] /\ area \in [Blocks -> Contents]
  /\ badSys \subseteq SysBlocks /\ badArea \subseteq Blocks
  /\ run \in 0 .. MaxRuns
  /\ failed \in BOOLEAN /\ faults \in 0 .. MaxFaults

Init ==
  /\ pc = "off" /\ ini \in Inis /\ i = 0
  /\ sys = [b \in SysBlocks |-> Junk] /\ area = [b \in Blocks |-> Junk]
  /\ badSys \in {b \in SUBSET SysBlocks : Cardinality(b) <= MaxBad}
  /\ badArea \in {b \in SUBSET Blocks : Cardinality(b) <= MaxBad}
  /\ run = 0 /\ failed = FALSE /\ faults = 0

At(l) == pc = l

(* What system() can come to.  Only a call that could not be made is        *)
(* noticed, and ends the program: a tool that did not do all it should,     *)
(* and says so by its exit status, is taken for done.  Power may fail.      *)
Then(all, l, n) ==
  /\ all \/ faults < MaxFaults
  /\ faults' = IF all THEN faults ELSE faults + 1
  /\ \/ pc' = l /\ i' = n /\ failed' = (failed \/ ~all)
     \/ pc' = "off" /\ UNCHANGED <<i, failed>>

(* A run begins, which may be one with another ini file. *)
Run ==
  /\ At("off") \/ At("done")
  /\ run < MaxRuns /\ run' = run + 1
  /\ pc' = "erasesys" /\ i' = 0 /\ failed' = FALSE
  /\ ini' \in Inis /\ TableHolds'
  /\ UNCHANGED <<sys, area, chips, faults>>

(* A run whose ini file names more images than FWInfo holds: main writes    *)
(* past its end, over the block buffer's address and the rest of the        *)
(* program's data.  The behaviour is undefined; here it ends somewhere or   *)
(* says "Done.", and leaves the flash as it was, or nothing of use on it.   *)
Overrun ==
  /\ At("off") \/ At("done")
  /\ run < MaxRuns /\ run' = run + 1
  /\ ini' \in Inis /\ ~TableHolds'
  /\ pc' \in {"off", "done"} /\ i' = 0 /\ failed' = FALSE
  /\ \/ UNCHANGED <<sys, area>>
     \/ sys' = [b \in SysBlocks |-> Junk] /\ area' = [b \in Blocks |-> Junk]
  /\ UNCHANGED <<chips, faults>>

EraseSystem ==
  /\ At("erasesys")
  /\ \E stop \in 0 .. uIBRAreaSize :
       /\ sys' = ErasedTo(sys, badSys, stop)
       /\ Then(stop = uIBRAreaSize, "sys", 0)
  /\ UNCHANGED <<ini, area, chips, run>>

(* Mutated form of MoreCopies: the loop runs once more. *)
MoreCopiesByOne(n) == n <= uIBRAreaSize

(* The loop over the copies of the system block goes on with copy n. *)
MoreCopies(n) == n < uIBRAreaSize

(* The copies of the system block, one in each block of /dev/mtd0. *)
BurnSystem ==
  /\ At("sys")
  /\ \E done \in 0 .. 1, torn \in BOOLEAN :
       /\ sys' = Written(sys, badSys, i, "system", done, torn /\ done = 0)
       /\ IF MoreCopies(i + 1) THEN Then(done = 1, "sys", i + 1)
                               ELSE Then(done = 1, "erasearea", 0)
  /\ UNCHANGED <<ini, area, chips, run>>

(* flash_erase of /dev/mtd1, and then the command of the n-th entry. *)
EraseThen(n) ==
  \E stop \in 0 .. AreaBlocks :
    /\ area' = ErasedTo(area, badArea, stop)
    /\ Then(stop = AreaBlocks, "entry", n)

EraseArea ==
  /\ At("erasearea")
  /\ EraseThen(0)
  /\ UNCHANGED <<ini, sys, chips, run>>

(* The system entry, and one never filled in: szCmd still holds the last    *)
(* command, which for the first entry erases /dev/mtd1 once more and for    *)
(* another one dumps a page.                                                *)
RunLastCommand ==
  /\ At("entry") /\ i < Len(Entries)
  /\ Entries[i + 1].flag = "system" \/ Entries[i + 1].len = Missing
  /\ IF i = 0
     THEN EraseThen(i + 1)
     ELSE Then(TRUE, "entry", i + 1) /\ UNCHANGED area
  /\ UNCHANGED <<ini, sys, chips, run>>

(* The logo and the copies of the program. *)
BurnImage ==
  /\ At("entry") /\ i \in 1 .. Len(Entries) - 1
  /\ Entries[i + 1].len # Missing
  /\ LET start == Offset(i + 1)
         pieces == Pieces(Entries[i + 1].len)
         n == IF Fits(area, start, pieces) THEN pieces ELSE 0
     IN \E done \in 0 .. n, torn \in BOOLEAN :
          /\ area' = Written(area, badArea, start, Entries[i + 1].flag, done, torn /\ done < n)
          /\ Then(done = n, "entry", i + 1)
  /\ UNCHANGED <<ini, sys, chips, run>>

Done ==
  /\ At("entry") /\ i = Len(Entries)
  /\ pc' = "done"
  /\ UNCHANGED <<ini, i, sys, area, chips, run, failed, faults>>

Next ==
  Run \/ Overrun \/ EraseSystem \/ BurnSystem \/ EraseArea \/ RunLastCommand \/ BurnImage \/ Done

Spec == Init /\ [][Next]_vars
-----------------------------------------------------------------------------
(* All the files are there, each image ends before the area does, the table *)
(* can hold the number of every block and a UINT32 its address.             *)
LaidOut ==
  /\ UINT16(uIBRAreaSize + AreaBlocks) = uIBRAreaSize + AreaBlocks
  /\ AreaBlocks <= AddressBlocks
  /\ \A k \in 2 .. Len(Entries) :
       /\ Entries[k].len # Missing
       /\ Start(k) + Entries[k].len \div BlockLen < AreaBlocks

SystemCopies == {b \in SysBlocks \ badSys : sys[b] = <<"system", 0, run>>}

(* The k-th image can be read, skipping the bad blocks, from where the      *)
(* table says it begins.                                                    *)
Readable(k) ==
  LET n == Pieces(Entries[k].len)
      blocks == Place(area, badArea, Offset(k), n)
  IN /\ Cardinality(blocks) = n
     /\ \A b \in blocks :
          area[b] = <<Entries[k].flag, Below(b, Offset(k), badArea), run>>

ProgramCopies == {k \in 1 .. Len(Entries) : Entries[k].flag = "exec" /\ Readable(k)}

(* When mn_writer says "Done." and all its tools did their work, a bad      *)
(* block has cost at most two copies, the one it lies in and the one that   *)
(* is pushed into, of the system block and of the program: whatever runs    *)
(* were broken off before, and with which images.  The images lie wall to   *)
(* wall, so that this is all the copies are good for.  It takes an ini file *)
(* with no more images than FWInfo holds, and for the program images that   *)
(* are laid out within the flash, neither of which the code checks.         *)
SystemSurvives ==
  At("done") /\ ~failed /\ TableHolds =>
    Cardinality(SystemCopies) >= uIBRAreaSize - 2 * Cardinality(badSys)

ProgramSurvives ==
  At("done") /\ ~failed /\ TableHolds /\ LaidOut /\ ini.exec # NoName =>
    Cardinality(ProgramCopies) >= ini.num - 2 * Cardinality(badArea)

CopiesSurvive == SystemSurvives /\ ProgramSurvives
=============================================================================
