# N32926 Linux applications: models, checks and proofs

This directory holds TLA+ models of the demonstration applications for the
Nuvoton N32926 (the tree under `src/`), the TLC configurations that check them
on small instances, and theorems that TLAPS checks for every instance.
`PROJECT.json` maps every definition to the lines it models and lists runs,
properties, hazards, findings and theorems.

The tree is a collection of independent programs, not one system. Most of them
open a device, set it and read it; what is worth modelling are the programs
with threads, with a protocol, or with a state that outlives a call. They are
modelled in that order: the AAC player first, because it is the only
multi-threaded program and the one whose behaviour is hardest to test.

- [Inventory](#inventory)
- [Plan](#plan)
- [The AAC player](#the-aac-player)
- [The AAC recorder](#the-aac-recorder)
- [The power manager](#the-power-manager)
- [The serial transfer](#the-serial-transfer)
- [The UVC gadget](#the-uvc-gadget)
- [The camera demo](#the-camera-demo)
- [The NAND writer](#the-nand-writer)
- [Runs and bounds](#runs-and-bounds)
- [What is proved](#what-is-proved)
- [Findings](#findings)
- [What is not modelled](#what-is-not-modelled)

To check: `tlc -config MCFrameFeed.cfg MCFrameFeed` and so on for the runs of
`PROJECT.json`; `tlapm FrameFeedProofs.tla` and so on for the eight modules
whose names end in `Proofs`, one for each component.

## Inventory

### AAC player (`aacdec/src`) - modelled

Three threads in one process. *State*: the player state with its mutex; a ring
of 256 decoded-frame buffers with a read index, a write index and a count; the
two "alive" flags; the open file; the sound device. *Operations*: PlayFile,
Pause, Resume, Seek and Stop, called by main's keypad loop; the decode thread,
which fills the ring; the playback thread, which drains it into `/dev/dsp` and
stops the player when the file is over. *Interaction*: shared variables,
most of them touched without the mutex, and polling with `nanosleep()`.
*Hard*: `FullNum++` against `FullNum--`; Stop run by two threads; a flag that
is false before its thread has run; waits for states nobody may ever set.
*Correct when*: samples are heard in order and without a gap; a file is begun
only when the threads of the last are gone; no buffer is used after it was
freed; a paused player is silent; every operation returns.

### AAC recorder (`aacenc/src`) - modelled

Named like the player, but one thread: main calls `s_EncodeThread`, which
reads blocks, cuts them into frames, encodes and writes them, and calls
CheckKey in every round. *State*: a recorder state, 8 frame buffers with fill
sizes, two indices and a count, the file. *Hard*: Stop and Pause are called
from inside the loop they act on. *Correct when*: the file holds the beginning
of the input; nothing is encoded after a stop; keys do what the usage says.

### Power manager (`powerManager`) - modelled

A loop of 50 ms over the sysmgr driver. *State*: power state and its
predecessor, the power key's count. *Operations*: a change for each status;
counting readings of the key and asking for a power-off after 20.
*Interaction*: statuses from the driver, one command to it, files for the
display and the clock. *Hard*: a state that changes before the change is
known to work; failures that look like a pressed key; one command and no
second. *Correct when*: the state tells the truth about the display, and the
machine goes off when and only when asked.

### Serial transfer (`serial_transfer`) - modelled

Client and server on two machines. *State*: an offset in each of the four
loops. *Hard*: partial reads and writes, no flow control, failing writes whose
result is undefined. *Correct when*: every byte comes back in order, and a
difference means a bad line. `serial_loop` is the client with a loopback plug.

### UVC gadget (`uvc_gadget_demo`) - modelled

One `select()` loop over the gadget driver, which hands on what the USB host
does as events and gives back the video buffers it has sent. *State*: the
controls probe and commit, the control whose DATA stage is awaited, the
format, the mapped buffers. *Operations*: SETUP, DATA, STREAMON and STREAMOFF;
refilling a buffer. *Hard*: a host that may do anything in any order; a
decision of `select()` that is old when it is used; failures nobody looks at.
*Correct when*: host and device agree on the format; DATA goes to the control
whose SETUP asked; frames are as committed; no buffer is lost.

### Camera demo (`videoin_HW`: vin_demo.c, dsc.c) - modelled but for the keys that only set the driver

One loop over the camera and the keypad. *State*: preview and capture of the
driver, the save folder with the pictures and the index file `.dsc.idx`.
*Operations*: two keys take a picture, which gets the day and the next number
as its name; HOME and signals end the program. *Interaction*: the file system,
which keeps for sure what was synced; the clock. *Hard*: the index is truncated
and written anew after every picture, at any step of which the power may
fail or the process be killed; a clock that was set back; five ways out of
CaptureImage. *Correct when*: no picture is overwritten; the index names a
picture that is there for good; numbers follow the order of the pictures; the
camera goes on after a picture failed.

### NAND writer (`mtdnand/mn_writer`) - the table and the burning modelled

One program that erases the flash and burns images with the tools of
mtd-utils. *State*: the table of images, the blocks of two MTD partitions.
*Hard*: bad blocks, which the tools skip and the table does not know of; tools
whose exit status is not looked at; power failures, after which it is run
again. *Correct when*: at its end enough copies can be read.

### Printer gadget (`printer_gadget`) - not modelled

Two loops over `/dev/g_printer`, to and from the host, and a status word.
*Hard*: partial transfers; the status is read, changed and written back.
*Correct when*: every byte goes out once; a status bit is what was last set.

### HID vendor gadget (`hid_gadget_vendor`) - not modelled

A command block with signature and checksum, then pages of 256 bytes in reports
of 512, in either direction. *Hard*: a length that counts down unsigned by 512
and never ends for an odd number of pages; a page lost between two reports.
*Correct when*: host and gadget agree on how many pages follow.

### Other programs - not planned, or arithmetic only

| Component | Why it is left out |
|---|---|
| AAC decoder and encoder libraries | binaries; the models take their outcomes as choices |
| HID gadget test | poll between stdin and a descriptor; its substance is key names |
| H.264 codec, webcam, JPEG demos, the V4L calls of video-in | one thread of driver calls; the drivers keep the state |
| audio OSS/ALSA demo | a menu around blocking loops |
| other NAND tools | ini files, image layout and parity tables |
| lcm, osd, vpe, rot, bitblt | one driver call after another on a frame buffer |
| gpio, watchdog, rtc, keypad, backlight, lvd, spidev | open a device, set it, read it |
| AES demo | a cipher against the hardware: data, not control |
| usb_plug, gen_lib | hotplug script and build helpers |
| BusyBox, tslib, alsa_demo | third-party code |

## Plan

Modules in the order of importance; all are done.

| Module | Composes | Runs | Theorems |
|---|---|---|---|
| `DecFrameRing` (data and its updates) | - | through its users | through its users |
| `FrameFeed` (two threads around the ring) | `DecFrameRing`; implements `FrameStream` | `frame_feed` | types, bounds of the count, exact count, whole blocks, order, refinement: done |
| `AACPlayer` (whole player) | `DecFrameRing` | `player_pause`, `player_stop`, and two findings | types; while no key stops the player BeginsAlone, PausedIsSilent, PauseHolds, ResourcesValid: done |
| `AACRecorder` | - | `recorder`, `recorder_pause` | types, RecordedInOrder, WholeFramesRecorded, EncodesIntoOpenFile, and that a pause never ends: done |
| `PowerManager` | - | `power_manager` | types, OffHasReason, DisplayAgrees: done |
| `SerialEcho` | - | `serial_echo` | types, BytesConserved, NothingLost, NeverMismatch: done |
| `UVCGadget` (events, controls, buffers) | - | `uvc_gadget` | types, BuffersAccounted, HostAndDeviceAgree, FramesAsCommitted: done |
| `VinCapture` (pictures and their index) | - | `vin_capture` | types, IndexNamesPicture, NumbersInOrder, CameraGoesOn, PicturesKept: done |
| `NandWriter` (table, tools, flash) | - | `nand_writer` | types, CopiesSurvive, nothing left of earlier runs: done |

Abstract specifications: `FrameStream` (a bounded FIFO) for the ring; for the
serial line "echo what was sent" is stated as the invariant BytesConserved.
RECURSIVE operators are kept out of all of them, so that each can be proved
about; the one recursive definition, the table of `NandWriter`, is a function.

## The AAC player

### Correspondence

| Module | Code |
|---|---|
| `DecFrameRing` | `AACPlayer_Agent.c` 69-75 and the statements that update these variables |
| `FrameStream` | what the ring promises: a FIFO with `Capacity` places |
| `FrameFeed` | the loops of `s_DecodeThread` (494-549) and `s_PlaybackThread` (634-704) while no command is given |
| `AACPlayer` | `AACPlayer.c` main, `AACPlayer_Agent.c` PlayFile, Pause, Resume, Stop, Seek and both threads |

`FrameFeed` is the fine-grained view of the ring: it follows which samples are
in which slot through every interleaving of the accesses of the two threads.
`AACPlayer` uses the same ring operators with all else around them. The two
are separate because the questions are: whether the ring is right under the
race, and whether starts, pauses and stops are right.

Modelling choices:

- Every access to the ring is a step of its own. `FullNum++`, `FullNum--` and
  `PCMSize -= fill` are a load and a store each (`dreg`, `preg`, in `AACPlayer`
  `reg`). The history variable `raced` becomes true when a store overwrites an
  update of the count made since the load.
- The decode thread fills a slot in five steps: `realloc()` takes the old
  block away, the new pointer is stored, `memcpy()` (528), the size (529), the
  count (530). `realloc()` may move the block or not, or fail.
- The playback thread takes the pointer once per slot (`held`, 636) and then
  goes through the inner loop round by round: look at the size, `write()` (666)
  of any part of it, pointer and size moved on (682, 683). The old block may be
  taken away, and the slot be filled again, between any two of these steps.
- A frame is one or more units of samples, up to `MaxSize`. In `FrameFeed` the
  units are numbered through the file; `played` holds the numbers given to the
  device, 0 for one that nobody can name because it was read from a freed block
  or past what was copied. In `AACPlayer` only sizes matter.
- In `AACPlayer` a step is one access to shared state or one locked section.
  The mutex is a variable `owner`. Code that unlocks without holding the lock
  (main's loop, Resume, Stop) sets it free all the same: that is what the
  default mutex does, and the properties hold regardless.
- A thread is an element of `DecThreads` or `PlayThreads`; a new thread takes
  one that is "off". A file's threads may still be on their way out when the
  next file begins, which is why there are two of each.
- `file` and `buf` distinguish NULL, live and already closed or freed, so that
  a use after a free is a state, not an abstraction.
- What may fail is a set: opening the file, creating a thread, initialising
  the decoder, decoding, `realloc()`, opening the device, its block size,
  writing to it.
- After a failed reopening on resume the playback thread polls a closed
  descriptor without an end (`PlaybackWrite` needs `dev /\ blk`), as in the
  code, whose inner loop looks at no command.
- Keys: right (pause, resume), previous, next, home, and long presses that
  seek. A seek either stays in the file and changes the decoder's position,
  which is the library's business, or passes the end and stops the player.

### Properties

*The ring* (`frame_feed`): the count stays in bounds whatever the race does
(CountInBounds): each thread's lost update can only undo what the other did
after it looked, so a drifted count still leaves room where room was seen. Until
an update is lost the count is exact (CountExactUnlessRaced), `write()` reads
within a live block (WriteInBlock), the samples come in order and without a gap
(InOrderUnlessRaced), and the two threads implement the FIFO
(StreamUnlessRaced). Both always end (BothEnd), drifted count or not.

After a lost update the two threads may be at the same slot. Then a frame can
be heard twice (played between the `memcpy()` and the store of its size, and
again a lap later), and `write()` can read a block that `realloc()` has freed.
The models contain these behaviours; no property speaks of them but the bounds
of the count and the end of both threads.

*The player* (`player_pause`, `player_stop`): BeginsAlone, ResourcesValid,
PausedIsSilent, PauseHolds as invariants and an action property; FileEnds and
StopReturns under fairness. ResourcesValid says of the decode thread and of
AACPlayer_Stop that they use no freed buffer and no closed file, raced or not;
of `write()` it says so until an update of the count is lost, for the reason
above.

What these are checked *without* matters:

- `player_pause` presses no key that stops the player from main, and no
  `pthread_create()` fails. With either of them two threads run
  AACPlayer_Stop at once, and BeginsAlone and ResourcesValid are
  false: that is the finding of `player_stop_frees`.
- `player_pause` does not check for deadlock: Pause and Resume do hang
  (finding `player_pause_hang`). For the same reason `player_stop` leaves out
  the RIGHT key; there deadlock is checked, and every other key and fault
  allowed.

### Fairness

`WF` of main and of every decode and playback thread: each wait in the code is
a `nanosleep()` or a `select()` with a timeout, and the kernel preempts. `SF`
of two choices of the environment: a file runs out of frames
(`DecRunsOut`), and a `pthread_create()` that main tries again
for ever succeeds at last. No key has to be pressed. In `FrameFeed`
one `WF` per thread is enough, since `MaxSamples` bounds the file.

## The AAC recorder

`AACRecorder` follows the one thread through RecordFile, the loop and
CheckKey. A byte is its place in the input, so that order and gaps show. The
input is a regular file (the code takes its size with `stat()`): only the last
block can be short. `BlockSize = BUFSIZE` is an assumption because both are
2048 in the code.

RecordedInOrder: the output is the beginning of the input whatever ends the
recording. WholeFramesRecorded: undisturbed, all whole frames and nothing of
the rest - the bytes after the last whole frame are silently dropped, since a
frame filled in part leaves FullNum at 0. EncodesIntoOpenFile: HOME stops the
recorder in the middle of the loop, and the loop must not go on.
RecorderEnds: without a pause it comes to an end, under `WF` of its one
thread.

The wait of AACRecorder_Pause is a step that looks at the state and stays
where it is (`PauseWait`); see Findings.

## The power manager

`PowerManager` has one action for the reading of a status, with
one definition per branch of ProcessPowerState, and one per case of
PowerOff_Check. `ENABLE_POWER_MODE` is not defined in the source as it stands,
so that the timeouts after line 305 are unreachable and left out. The driver
is outside the repository: it keeps statuses in order and answers the command
RTC_POWER_OFF with the status of the same value. The two idle statuses stand
in `#if 0` and are ignored.

DisplayAgrees: as long as the files of the display and of the clock can be
opened, `power_state` says whether the display is on, with one exception that
the property names: a machine put to sleep in the dark wakes up NORMAL and dark,
and NORMAL is then "not changed". OffHasReason: it goes off only if the key
moved, a status said so, or readings of the key failed. HeldKeyPowersOff: unless
the command or the clock fails, a key held for good gets the machine off,
although readings of it and the display may fail, under `WF` of the loop, whose
only wait is `usleep()`. So the dark wake-up (line 109) and the failed readings
(276) are stated as exceptions, and what a failed clock (95) or a failed command
(289) leads to is left open: no doc says what should happen then.

## The serial transfer

`SerialEcho` has the client, the server and a line with a
buffer at each end. A write takes as many bytes as there is room for, at
least one; a read gives what has come. A failed write returns through a
function without a return statement: the number the caller sees is any. A byte
that meets a full receive buffer is lost.

NothingLost says that this never happens though nothing controls the flow:
a pattern is at most as large as a receive buffer, and the client
sends the next only when the last is back. BytesConserved says where
the bytes of a loop are, in order, so that loops do not mix either,
NeverMismatch that skipped bytes make the client wait and never compare
wrong, and LoopsGoOn that the test goes on while no failed write is taken for
a good one. Deadlock is not checked: after a skipped byte the client waits
for ever, and the model stops after `MaxLoops` loops. Fairness: both programs
poll, and the line moves.

## The UVC gadget

`UVCGadget` has the select loop, one action per kind of event, and refilling.
A format is its pair of indices; a frame is the format it was made in. Driver
and host are actions beside the program: the host asks (SETUP), sends the data
of a request that was accepted, gives up a request by asking anew, streams, and
is unplugged. The driver keeps events in order and loses none; with that the
default of line 785, data that no request asked for, cannot be reached (theorem
DataAwaited) and has no action. An answer
(UVCIOC_SEND_RESPONSE) belongs to whatever transfer the host is in when it is
given. What may fail is in `Faults`; `odd` remembers what has failed, and that
a host committed while it streamed or was unplugged.

HostAndDeviceAgree: with every event processed, probe and commit are what the
host sent last, given-up transfers or not; it rests on process_setup forgetting
the control it waited for. FramesAsCommitted: frames have the committed format
and fit their buffers, under the conditions it names - the code does not look
at the result of VIDIOC_S_FMT nor at whether it streams. A
STREAMON gets as many buffers as asked for, fewer, or none (VIDIOC_REQBUFS,
QUERYBUF or mmap failing), and the stream itself may fail to start, none of
which the program looks at. BuffersAccounted: no
buffer is in two places, and none is lost while queueing works; it holds through
all of these. What a failing VIDIOC_QBUF (450) or a failed fill does is excepted
from it and from FramesAsCommitted. SentIsRefilled:
a buffer that was sent is turned to, however many events come, unless new
buffers were refused; in that case the loop may write through the NULL in
`dev->mem` and end (`FillUnmapped`, state "dead"). Fairness: `WF` of the loop,
whose only wait is `select()`.

## The camera demo

`VinCapture` follows the CAMERA key (CaptureImage), the RIGHT key
(CaptureImage_Planar) and what they call in dsc.c. A day is what a file name
tells of it, a picture is when it was taken and whether it is whole. Every
call that changes the folder is a step: open, write, fsync, truncate, write of
the index, sync. Beside the program are

- the file system: `dirty` holds the pictures that were not synced, of which a
  power failure takes or cuts any; `stored` the index files that may be found
  after it, that is all since the last `sync()`;
- the clock, which shows any day at any time;
- an end of the process at any step, by HOME, a signal or the power, and a new
  start, since the index is there for nothing else.

Any of the calls may fail: those on the camera, `statfs()`, open, write,
`fsync()` and `sync()`. What the code does not look at it goes on after: a
picture whose `fsync()` failed is in `unsynced`, and what the driver refused to
start is in `refused`.

PicturesKept: a picture is never overwritten, whatever the index says; it
rests on the `stat()` loop alone. IndexNamesPicture: any index that a power
failure can leave names a picture that is in the folder for good, but for one
whose `fsync()` failed: its name goes into the index all the same
(dsc.c:184-186). NumbersInOrder: the numbers of a day go up with time, failed
syncs or not; excepted are the number 0, which only a day begun over the index
of another one uses, and which stays free after an index that could not be read,
and the number of a picture that a power failure took. CameraGoesOn: by
whichever of its five ways CaptureImage ends, the capture that it stopped is
started again, and the preview too unless `statfs()` failed. The exceptions are
those of the code: a start that the driver refuses is not noticed
(vin_demo.c:303, 330), and leaves the camera stopped until it is asked again.

`stat()` is exact in the model: it fails for a free name only. In the code any
failure ends the search for a number (dsc.c:159), and the file of that name
would be truncated; PicturesKept says nothing of that. The zoom, volume and
resolution keys pass values to the driver and have no action.

## The NAND writer

`NandWriter` makes the table of images from the ini file as main does, 16-bit
block numbers included, and has one action per command that burn_images hands to
`system()`. The number of copies is any integer, as `atoi()` gives it; main does
not compare it with the 16 entries of `FWInfo`. A run whose entries the table
does not hold (`TableHolds`) writes behind it, which is undefined: `Overrun`
lets it break off or say "Done.", with the flash as it was or with junk in every
block. The byte offset of an image is a UINT32 (142, 146) and wraps: `Offset` is
the block number modulo `AddressBlocks`, the blocks a UINT32 can address (blocks
are powers of two, so that this is a whole number). A block holds a piece of an
image of a run, nothing, or junk. The tools are external: `flash_erase` goes
upwards, `nandwrite` skips bad blocks and refuses an image longer than the rest
of the partition; writing on a block that was not erased makes junk of it, the
worst a chip may do. Any command may stop early, taken for done by the program,
or because the power fails. The erases that the `default` branch repeats for the
system entry and the dumps are in RunLastCommand.

CopiesSurvive: at "Done.", if the table held the entries of this run and all
tools did their work, each bad block has cost two copies at most, of the system
block (SystemSurvives) and, if the images fit and all files were there, of the
program (ProgramSurvives). The table has no block to spare, so that a bad block
pushes the end of an image onto the next; that earlier, broken-off runs with
other images do not matter is what the two erases are for. "The images fit"
(LaidOut) asks it of each image, that a UINT32 can address the flash, and that
every block has a number the table can hold: the end of the last image alone
would not do, since the 16 bits of an entry may wrap before it.

## Runs and bounds

| Run | Shows | Bounds, and why they are enough |
|---|---|---|
| `frame_feed` | the ring under the race | 3 slots, 8 units of samples in frames of 1 or 2: both indices wrap, the ring fills, blocks are grown, frames are written in parts, and updates are lost in both directions |
| `player_pause` | files, pauses, seeks and faults | 2 slots, frames of 1 or 2 units, 2 files of any length, 2 + 2 threads: a ring that fills and wraps, blocks that grow, leftovers of the last file in the ring, old threads beside new ones |
| `player_stop` | all stops return | one file, frames of 1 unit, all other keys and faults |
| `player_pause_hang`, `player_stop_frees` | findings | the smallest instances with the shortest traces |
| `recorder` | order, whole frames, stops | inputs of 0 to 17 bytes, frames of 3, 3 buffers: all remainders, indices that wrap |
| `recorder_pause` | finding | 6 bytes |
| `power_manager` | display, power-off | hold of 3, 2 statuses in the driver, all faults |
| `serial_echo` | bytes and loops | pattern of 4, sender's buffer 2, receiver's 4, 3 loops: no write and no read need be whole |
| `uvc_gadget` | controls, formats, buffers | 2 buffers (as in the code), 2 events, a format below the range and one above it whose frames are large, all faults, one kind of odd thing in a behaviour (MaxOdd) but any number of times; a refusal of new buffers may come on top |
| `vin_capture` | pictures, index, camera | 2 days, 3 pictures, numbers up to 2: a day is full, the limit is passed, days come back, and there is room for a crash before, in and after every picture |
| `nand_writer` | copies after bad blocks and broken-off runs | 7 blocks for the images, 2 units each; images that fill their blocks and that do not, 2 to 5 copies, more than the table holds, a missing file; an address that wraps behind the flash; 2 bad blocks per area, one command cut short in 2 runs |

`MaxSamples`, `MaxInput`, `MaxPending`, `MaxLoops`, `MaxEvents`, `MaxOdd`,
`MaxPics`, `MaxBad`, `MaxRuns` and `MaxFaults` bound the models and are
guards of the step that would exceed them; the code has no such limits.
Everything else is a size of the code, made small. `player_pause`, which checks
no liveness, is symmetric in the decode and in the playback threads
(`ThreadSymmetry`); no other run uses symmetry.

## What is proved

`FrameFeedProofs` proves for every `BUFNUM > 0`, `MaxSize > 0` and every
`MaxSamples` (assumptions RingAssumption and FeedAssumption, nothing else):

- TypeCorrect, by induction over the steps: no index leaves the ring.
- CountBounded. CountInBounds is inductive with TypeOK: what a thread has seen
  of the count is part of it, since its store writes what it loaded.
- CountExact, WriteReadsItsBlock and SamplesInOrder, from the invariant
  ExactInv: CountExactUnlessRaced, where each of the two threads is in its slot
  (FilledInSteps, EmptiedInSteps), and what the full slots hold. The exact count
  alone is not inductive: it needs the contents of the slots between the
  indices, and the order needs the count to know which slot is oldest. BlockInv
  adds, raced or not, that a slot with a size has its block. Each ring operator
  has a lemma.
- ImplementsStream: initial states map to initial states of `FrameStream`, and
  until the first lost update every step is a step of it or a stutter.

`AACPlayerProofs` proves PlayerTypeCorrect: the types of the whole player for
any sets of threads, any number of slots and files, all keys and all faults
(PlayerAssumption and RingAssumption). One lemma for each kind of thread says
where its steps lead, one what they do to the data. It holds with the stray
unlocks and with two threads in Stop.

The other four theorems assume Undisturbed, which is what `player_pause`
checks: no key that makes main stop the player, no `pthread_create()` that
fails. Without it they are false (finding `player_stop_frees`). Neither the
mutex nor fairness is used.

- AlwaysBeginsAlone, from AloneInv. Its parts: there is at most one thread of
  each kind, the two alive flags tell of them, and a playback thread that
  leaves has seen the decode thread gone (ThreadsInv); what main has seen to be
  over is over (MainInv); while there is no playback thread, and main waits for
  the ring to fill, no update of the count is lost, so that main goes on only
  with a frame in the ring or without a decode thread (ChargeInv). BeginsAlone
  by itself speaks of one moment of main; what keeps the old threads from that
  moment is spread over both of their programs.
- AlwaysPausedSilent and PausesHold, from PauseInv, which says what each state
  of a pause (to pause, paused, to resume) tells of where main and the playback
  thread are, and of the device.
- AlwaysResourcesValid, from HeapInv and SlotInv. HeapInv: a block is gone only
  inside one AACPlayer_Stop, or in the slot of the write index inside
  `realloc()`; the file is closed only inside a Stop; a decode thread has a
  file. SlotInv: until an update of the count is lost the indices are FullNum
  slots apart, so that the decode thread is at none of the slots the playback
  thread may hold a pointer of.

`AACRecorderProofs` proves all four safety properties of the recorder for every
size and number of buffers and every input (RecorderAssumption). The inductive
invariant RecordingInv says what is held at each place: between two rounds no
frame, so that the next block is cut where the file ends, and before the encoder
either one whole frame, which follows on what is in the file, or nothing at the
end of the input. RecordedInOrder alone is not inductive: what a step appends
comes from a buffer of which it says nothing. FullNum never exceeds 1, however
many buffers there are.
PauseNeverEnds is the finding of `recorder_pause` as a theorem: no step of the
recorder leaves the wait, for any values of the constants.

`PowerManagerProofs` proves OffHasReason and DisplayAgrees from TypeOK for
every hold count, any queue of statuses and all faults (PowerAssumption).

`SerialEchoProofs` proves BytesConserved, NothingLost and NeverMismatch for
every size of pattern and buffers. EchoAssumption has one condition, that the
driver keeps at least one pattern (1024 bytes) for read(): the driver is not in
the repository, and without flow control a smaller one would drop bytes. EchoInv
counts: never more bytes are underway than the client counts as sent; where they
are equal the bytes underway are the pattern; a loop in which a failed write was
taken for bytes has fewer, and never completes.

`UVCGadgetProofs` (GadgetAssumption) proves

- BuffersKept, from BufferInv: no buffer is in two places of the two queues,
  and a driver that does not stream has sent none.
- Negotiated and DataAwaited, from NegotiationInv. The device acts on events
  long after the host caused them, so that nothing can be said of the present
  alone: the invariant says for each place of the event queue which control
  the device will wait for when it gets there, and that the last values of
  probe and commit will be the host's.
- FramesFit, from FrameInv: all queued frames have one format, and the host's
  commits lie where the driver holds no buffer.

`NandWriterProofs` (NandAssumption) proves TypeOK and CopiesSurvive for every
flash, every ini file, whatever number of copies it asks for, and every number of
bad blocks, runs and failures, and NothingLeftBehind. That the table holds the
entries of a run is a hypothesis of the property (TableHolds), not an assumption
on the ini file: earlier runs may have overrun it.

- The table is a recursive function; EndsAre shows that it exists, and EndsType,
  OneBehindAnother and Behind what it contains. The library's induction
  theorems cannot be used (see below), but its theorem that a well-founded
  relation has minimal elements can: lemma Least, every set of naturals has a
  least element, takes their place.
- SystemCopiesSurvive: a block that is good and not behind a bad one gets its
  own copy and no other (SystemInv); the others are at most two for each bad
  block.
- ProgramCopiesSurvive: an image is lost only if a bad block hits it (Hit) or
  an earlier image reaches into it (Pushed). ImagesInv says that all others
  have their blocks to themselves, burnt or still erased. FewHit: extents are
  apart. FewPushed: an image that reaches over k others has met k bad blocks
  (ReachNeedsBad), and these are counted from the first image on, so that no
  bad block is counted twice. The logo may be longer than the program, so that
  one image can reach over many.
- Trying to prove it showed that an earlier form of LaidOut, which looked at the
  end of the last image only, made CopiesSurvive false for images of more than
  65535 blocks, far beyond what TLC was given.

`VinCaptureProofs` proves all five properties of the camera demo for any days,
any limit of the numbers and any number of pictures (CaptureAssumption), with
every failure of the model. The
inductive invariant CaptureInv adds to them PictureAtHand (where in the
sequence of calls the picture is in the folder, and where it is synced),
NoGaps (the numbers below one that was ever used have been used), TakenBefore
and CameraKept. NumbersInOrder alone is not inductive: a picture with a number
below an old one would break it, and that no such number is free is NoGaps,
which needs the index to name a picture that is or was there: IndexNamesPicture.
NoGaps speaks of lost pictures as well, since after a failed `fsync()` an index
may name one. Lemma NumbersBelow joins the two.

Every strengthened invariant was checked by TLC on the instance of its run
before it was proved.

Only model-checked: everything about liveness (BothEnd, FileEnds, StopReturns,
RecorderEnds, HeldKeyPowersOff, LoopsGoOn, SentIsRefilled), because fairness
and ENABLED are out of the prover's reach. That covers `player_stop`, where all
keys and faults are allowed and which is about StopReturns alone. Induction
theorems with an operator as a parameter (NatInduction and the like) cannot be
instantiated by the installed provers; where data is recursive, lemma Least of
`NandWriterProofs` does instead. All safety invariants and action properties of
the passing runs are proved.

## Findings

- `player_pause_hang`: Pause waits for PAUSED while the playback thread leaves
  at the end of the file; main hangs and answers no key.
- `player_stop_frees`: Stop waits for two flags that do not say whether the
  playback thread is gone, and frees the buffers beside it.
- `recorder_pause`: the RIGHT key of the recorder hangs it for good.

Behaviour that the models show and no doc contradicts is in the properties and
hazards: a tail dropped by the recorder, a dark display in state NORMAL, a
power-off that is never asked again, a frame that may be lost at the end of a
file, a picture cut short by a full disk and indexed like any other, a
half-burnt flash whose system blocks look complete. Seen in
passing, and not modelled: FullNum, which the comment at
AACPlayer_Agent.c:75 calls the number of full buffers, drifts from it for good
when the two unprotected updates cross (the properties of `frame_feed` say what
holds nevertheless); V4L.c:808 says "Stop capture" and issues
the value that V4L.h:74 calls VIDEO_START; `mn_writer -q` "will not burn"
according to its usage, and burns.

## What is not modelled

In the modelled programs: AACPlayer_ChangeVolume (only disabled code calls it),
the position arithmetic of Seek, reading a directory, finding the keypad device,
all printing, the port settings of the serial programs. The libraries and
drivers are environments: the models let them do what their interface allows.

The printer and the HID vendor gadget are left out: what is hard in them, a
status word that is read, changed and written back in two system calls and
page counts agreed with a host program, depends on a driver and a host that
are not in the repository, and the two programs keep no state between calls.

The rest of the tree is in the inventory with the reason. Most of its lines are
third-party (BusyBox, tslib, ALSA utilities, about four fifths of the C code) or
tables (`Pattern.h`); the mapped lines are a small share of the tree because of
that, and a large one of the programs modelled.
