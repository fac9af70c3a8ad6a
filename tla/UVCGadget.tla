----------------------------- MODULE UVCGadget ------------------------------
(***************************************************************************)
(* The USB camera gadget (uvc-gadget.c): one select() loop that answers    *)
(* the control requests of the USB host, starts and stops the stream, and  *)
(* refills the video buffers that the gadget driver has sent.  The host    *)
(* and the driver are around it: the host negotiates a format (probe,      *)
(* commit), streams, gives up a transfer halfway or is unplugged; the      *)
(* driver hands on the host's doings as events, in order.                  *)
(*                                                                         *)
(* A format is a pair <<bFormatIndex, bFrameIndex>>; of a frame only the   *)
(* format it was made in is kept, of a buffer the format and its length.   *)
(***************************************************************************)
EXTENDS Integers, Sequences, FiniteSets

CONSTANTS
  NumBufs,      (* uvc_buffer_num (2)                                      *)
  Asked,        (* the formats a host asks for, in range or not            *)
  Large,        (* formats whose frames need a large buffer                *)
  MaxEvents,    (* bounds the model: events the driver keeps               *)
  Faults,       (* what may fail, of AllFaults                             *)
  MaxOdd        (* bounds the model: how many kinds of odd things happen   *)

AllFaults == {"fill", "qbuf", "format", "busy", "buffers", "start"}

NumFormats == 2   (* uvc_formats: YUYV and MJPEG                           *)
NumFrames  == 2   (* uvc_frames_*: 640x480 and 1280x720                    *)

Formats == (1 .. NumFormats) \X (1 .. NumFrames)

ASSUME GadgetAssumption ==
  /\ NumBufs \in Nat \ {0}
  /\ Asked \subseteq Nat \X Nat
  /\ Large \subseteq Formats
  /\ MaxEvents \in Nat \ {0}
  /\ Faults \subseteq AllFaults
  /\ MaxOdd \in Nat

None == <<0, 0>>

NoXfer == <<"none", "done">>

VARIABLES
  pc,         (* "select", "event", "video" or "dead"                      *)
  writable,   (* FD_ISSET(fd, &wfds), while an event is processed          *)
  control,    (* dev->control                                              *)
  negotiated, (* dev->probe and dev->commit                                *)
  format,     (* dev->fcc, width and height, None at first                 *)
  nbufs,      (* dev->nbufs, the buffers mapped in dev->mem                *)
  got,        (* the format of the frame in each buffer, None if empty     *)
  large,      (* whether the buffers last asked for are large              *)
  (* The driver. *)
  image,      (* the format set by VIDIOC_S_FMT                            *)
  on,         (* VIDIOC_STREAMON                                           *)
  queue,      (* buffers to be sent                                        *)
  done,       (* buffers sent, to be dequeued                              *)
  events,     (* events to be dequeued                                     *)
  (* The host. *)
  xfer,       (* its SET_CUR of a control, and at which stage              *)
  streaming,  (* it reads the stream                                       *)
  sent,       (* history: the last value it sent for probe and commit      *)
  odd         (* history: what failed, and what a host rarely does         *)

loop   == <<pc, writable>>
device == <<control, negotiated, format>>
memory == <<nbufs, got, large>>
driver == <<image, on, queue, done>>
host   == <<xfer, streaming, sent>>

vars == <<loop, device, memory, driver, events, host, odd>>

Bufs == 1 .. NumBufs

Controls == {"probe", "commit"}

Event ==
  [type : {"setup"}, what : Controls \cup {"other"}]
    \cup [type : {"data"}, value : Asked]
    \cup [type : {"streamon", "streamoff"}]

TypeOK ==
  /\ pc \in {"select", "event", "video", "dead"}
  /\ writable \in BOOLEAN
  /\ control \in Controls \cup {"none"}
  /\ negotiated \in [Controls -> Formats]
  /\ format \in Formats \cup {None}
  /\ nbufs \in 0 .. NumBufs
  /\ got \in [Bufs -> Formats \cup {None}]
  /\ large \in BOOLEAN
  /\ image \in Formats \cup {None}
  /\ on \in BOOLEAN
  /\ queue \in Seq(Bufs)
  /\ done \in Seq(Bufs)
  /\ events \in Seq(Event) /\ Len(events) <= MaxEvents
  /\ xfer \in {NoXfer} \cup (Controls \X {"setup", "data"})
  /\ streaming \in BOOLEAN
  /\ sent \in [Controls -> Formats]
  /\ odd \subseteq AllFaults \cup {"recommit", "unplug"}

(* uvc_events_init fills probe and commit with the first format and frame,  *)
(* but format is unknown until the first commit.                            *)
Init ==
  /\ pc = "select"
  /\ writable = FALSE
  /\ control = "none"
  /\ negotiated = [c \in Controls |-> <<1, 1>>]
  /\ format = None
  /\ nbufs = 0
  /\ got = [i \in Bufs |-> None]
  /\ large = FALSE
  /\ image = None
  /\ on = FALSE
  /\ queue = <<>> /\ done = <<>>
  /\ events = <<>>
  /\ xfer = NoXfer
  /\ streaming = FALSE
  /\ sent = [c \in Controls |-> <<1, 1>>]
  /\ odd = {}

Odd(kinds) == odd' = odd \cup kinds /\ Cardinality(odd') <= MaxOdd

Fail(kinds) == kinds \subseteq Faults /\ Odd(kinds)
-----------------------------------------------------------------------------
(* main                                                                    *)

(* select() looks at the events and at the buffers at the same time; the    *)
(* buffers are only turned to after an event was processed.  A driver       *)
(* without any buffer reports an error, which select() takes for writable.  *)
Select ==
  /\ pc = "select"
  /\ \E w \in {done # <<>>, queue \o done = <<>> \/ done # <<>>} :
       \/ events # <<>> /\ pc' = "event" /\ writable' = w
       \/ events = <<>> /\ w /\ pc' = "video" /\ UNCHANGED writable
  /\ UNCHANGED <<device, memory, driver, events, host, odd>>

(* Mutated form of EventDone: an event is enough for one round. *)
EventDoneOnly == pc' = "select" /\ writable' = FALSE

EventDone == pc' = (IF writable THEN "video" ELSE "select") /\ writable' = FALSE

Dequeue(type) ==
  /\ pc = "event"
  /\ Head(events).type = type
  /\ events' = Tail(events)

-----------------------------------------------------------------------------
(* uvc_events_process_setup                                                *)

(* UVCIOC_SEND_RESPONSE answers whatever transfer the host is in: it accepts *)
(* the data of a SET_CUR, and ends any other.  What was not understood is   *)
(* refused, and so is the transfer.                                         *)
Responds ==
  \/ xfer' = IF xfer \in Controls \X {"setup"} THEN <<xfer[1], "data">> ELSE NoXfer
  \/ Head(events).what \notin Controls /\ xfer' = NoXfer

(* Mutated form of Setup: the control waited for is not forgotten. *)
SetupKeepsControl ==
  /\ Dequeue("setup")
  /\ control' = IF control = "none" /\ Head(events).what \in Controls
                THEN Head(events).what ELSE control
  /\ Responds
  /\ EventDone
  /\ UNCHANGED <<negotiated, format, memory, driver, streaming, sent, odd>>

(* A SET_CUR of probe or commit waits for its data; every other request is  *)
(* answered at once or refused.                                             *)
Setup ==
  /\ Dequeue("setup")
  /\ control' = IF Head(events).what \in Controls THEN Head(events).what ELSE "none"
  /\ Responds
  /\ EventDone
  /\ UNCHANGED <<negotiated, format, memory, driver, streaming, sent, odd>>
-----------------------------------------------------------------------------
(* uvc_events_process_data                                                 *)

(* Mutated form of Clamp: only the lower bound. *)
ClampBelow(x, n) == IF x < 1 THEN 1 ELSE x

Clamp(x, n) == IF x < 1 THEN 1 ELSE IF x > n THEN n ELSE x

Nearest(value) == <<Clamp(value[1], NumFormats), Clamp(value[2], NumFrames)>>

(* While control is none the data is ignored; a driver that keeps every      *)
(* event, in order, never brings any then.                                  *)
DataProbe ==
  /\ Dequeue("data")
  /\ control = "probe"
  /\ negotiated' = [negotiated EXCEPT !["probe"] = Nearest(Head(events).value)]
  /\ EventDone
  /\ UNCHANGED <<control, format, memory, driver, host, odd>>

(* Mutated form of DataCommit: the driver is not told. *)
DataCommitSilently ==
  /\ Dequeue("data")
  /\ control = "commit"
  /\ LET f == Nearest(Head(events).value) IN
       /\ negotiated' = [negotiated EXCEPT !["commit"] = f]
       /\ format' = f
  /\ EventDone
  /\ UNCHANGED <<control, memory, driver, host, odd>>

(* A commit is in force at once, streaming or not; whether the driver       *)
(* takes the format is not looked at.                                       *)
DataCommit ==
  /\ Dequeue("data")
  /\ control = "commit"
  /\ LET f == Nearest(Head(events).value) IN
       /\ negotiated' = [negotiated EXCEPT !["commit"] = f]
       /\ format' = f
       /\ \/ image' = f /\ UNCHANGED odd
          \/ Fail({"format"}) /\ UNCHANGED image
  /\ EventDone
  /\ UNCHANGED <<control, memory, on, queue, done, host>>
-----------------------------------------------------------------------------
(* uvc_video_reqbufs and uvc_video_stream                                  *)

(* uvc_video_fill_buffer: a frame in the current format; without a format,  *)
(* and when the camera or the encoder fails, the buffer stays as it is.     *)
Filled(old, new) == new = format \/ ("fill" \in Faults /\ new = old)

(* New buffers: as many as were asked for, fewer, or none when they cannot  *)
(* be had or mapped.  Each is filled and queued in turn; the first that      *)
(* cannot be queued ends the loop, and the stream is started with those      *)
(* before it.  Nobody looks at whether any of this, or the start, failed.    *)
StreamOn ==
  /\ Dequeue("streamon")
  /\ nbufs' \in 0 .. NumBufs
  /\ large' = (image \in Large)
  /\ done' = <<>>
  /\ on' \in {TRUE, on}
  /\ \E n \in 0 .. nbufs' :
       /\ queue' = [k \in 1 .. n |-> k]
       /\ got' \in [Bufs -> {format, None}]
       /\ \A i \in Bufs :
            IF i <= nbufs' /\ i <= n + 1 THEN Filled(None, got'[i]) ELSE got'[i] = None
       /\ Fail((IF nbufs' < NumBufs THEN {"buffers"} ELSE {}) \cup
               (IF n < nbufs' THEN {"qbuf"} ELSE {}) \cup
               (IF \E i \in 1 .. n : got'[i] # format THEN {"fill"} ELSE {}) \cup
               (IF on' THEN {} ELSE {"start"}))
  /\ EventDone
  /\ UNCHANGED <<device, image, host>>

(* The driver refuses new buffers because it still streams the old ones,    *)
(* whose STREAMOFF never came: none are mapped any more, and none queued.   *)
StreamOnBusy ==
  /\ Dequeue("streamon")
  /\ on /\ "busy" \in Faults
  /\ nbufs' = 0
  /\ EventDone
  /\ UNCHANGED <<device, got, large, driver, host, odd>>

(* Mutated form of StreamOff: the buffers are kept. *)
StreamOffKeeping ==
  /\ Dequeue("streamoff")
  /\ on' = FALSE
  /\ nbufs' = 0
  /\ EventDone
  /\ UNCHANGED <<device, got, large, image, queue, done, host, odd>>

StreamOff ==
  /\ Dequeue("streamoff")
  /\ on' = FALSE
  /\ queue' = <<>> /\ done' = <<>>
  /\ nbufs' = 0
  /\ got' = [i \in Bufs |-> None]
  /\ large' = FALSE
  /\ EventDone
  /\ UNCHANGED <<device, image, host, odd>>
-----------------------------------------------------------------------------
(* uvc_video_process                                                       *)

(* Mutated form of Refill: after a failed fill the buffer is not queued. *)
RefillOrDrop ==
  /\ pc = "video"
  /\ done # <<>>
  /\ LET i == Head(done) IN
       \E ok \in BOOLEAN :
         /\ ok \/ "fill" \in Faults
         /\ got' = [got EXCEPT ![i] = IF ok THEN format ELSE @]
         /\ queue' = IF ok THEN Append(queue, i) ELSE queue
  /\ done' = Tail(done)
  /\ pc' = "select"
  /\ UNCHANGED <<writable, device, nbufs, large, image, on, events, host, odd>>

(* The oldest buffer sent is dequeued, filled and queued again, also when   *)
(* it could not be filled: it then holds its last frame.                    *)
Refill ==
  /\ pc = "video"
  /\ done # <<>>
  /\ LET i == Head(done) IN
       \/ /\ got' = [got EXCEPT ![i] = format]
          /\ UNCHANGED odd
          /\ queue' = Append(queue, i)
       \/ /\ Fail({"fill"})
          /\ queue' = Append(queue, i)
          /\ UNCHANGED got
       \/ /\ got' = [got EXCEPT ![i] = format]
          /\ Fail({"qbuf"})
          /\ UNCHANGED queue
  /\ done' = Tail(done)
  /\ pc' = "select"
  /\ UNCHANGED <<writable, device, nbufs, large, image, on, events, host>>

(* dev->mem is NULL once new buffers were refused, and the old ones come    *)
(* back: unless the frames are written by physical address (in the user     *)
(* memory mode, where Refill goes on), the write ends the program.          *)
FillUnmapped ==
  /\ pc = "video"
  /\ done # <<>>
  /\ nbufs = 0 /\ format # None
  /\ pc' = "dead"
  /\ UNCHANGED <<writable, device, memory, driver, events, host, odd>>

(* No buffer was sent, or the event just processed has taken it away:       *)
(* VIDIOC_DQBUF fails.                                                      *)
NothingToRefill ==
  /\ pc = "video"
  /\ done = <<>>
  /\ pc' = "select"
  /\ UNCHANGED <<writable, device, memory, driver, events, host, odd>>
-----------------------------------------------------------------------------
(* The driver and the host.                                                *)

Report(event) ==
  /\ Len(events) < MaxEvents
  /\ events' = Append(events, event)

(* A frame has gone to the host. *)
FrameSent ==
  /\ on /\ streaming
  /\ queue # <<>>
  /\ done' = Append(done, Head(queue))
  /\ queue' = Tail(queue)
  /\ UNCHANGED <<loop, device, memory, image, on, events, host, odd>>

(* A new request; one that was not finished is given up by it. *)
HostAsks ==
  /\ \E what \in Controls \cup {"other"} :
       /\ Report([type |-> "setup", what |-> what])
       /\ xfer' = IF what \in Controls THEN <<what, "setup">> ELSE NoXfer
  /\ UNCHANGED <<loop, device, memory, driver, streaming, sent, odd>>

(* The data of a request that was accepted.  A host commits before it       *)
(* streams; one that does so while it streams is remembered.                *)
HostSendsData ==
  /\ xfer \in Controls \X {"data"}
  /\ \E value \in Asked :
       /\ Report([type |-> "data", value |-> value])
       /\ sent' = [sent EXCEPT ![xfer[1]] = Nearest(value)]
  /\ xfer' = NoXfer
  /\ Odd(IF xfer[1] = "commit" /\ streaming THEN {"recommit"} ELSE {})
  /\ UNCHANGED <<loop, device, memory, driver, streaming>>

HostStreams ==
  /\ streaming' = ~streaming
  /\ Report([type |-> IF streaming THEN "streamoff" ELSE "streamon"])
  /\ UNCHANGED <<loop, device, memory, driver, xfer, sent, odd>>

(* The cable is pulled while the host streams: the program has not          *)
(* subscribed to the event.                                                 *)
HostUnplugged ==
  /\ streaming
  /\ streaming' = FALSE
  /\ xfer' = NoXfer
  /\ Odd({"unplug"})
  /\ UNCHANGED <<loop, device, memory, driver, events, sent>>

Process ==
  Setup \/ DataProbe \/ DataCommit \/ StreamOn \/ StreamOnBusy
    \/ StreamOff

Gadget == Select \/ Process \/ Refill \/ FillUnmapped \/ NothingToRefill

Dead == pc = "dead" /\ UNCHANGED vars

Outside ==
  FrameSent \/ HostAsks \/ HostSendsData \/ HostStreams \/ HostUnplugged

Next == Gadget \/ Dead \/ Outside

Spec == Init /\ [][Next]_vars

(* The loop waits in select() only, and for nothing when there is something. *)
FairSpec == Spec /\ WF_vars(Gadget)
-----------------------------------------------------------------------------
(* When all events are processed the device has, for probe and for commit,  *)
(* what the host sent last: whatever requests were given up halfway, no data *)
(* is taken for the wrong control or dropped.                               *)
HostAndDeviceAgree == events = <<>> /\ pc # "event" => negotiated = sent

(* The frames in the driver's hands have the format the host committed to,  *)
(* and each fits into its buffer, if the host commits before it streams and *)
(* stops before it is unplugged, and nothing has failed.                    *)
FramesAsCommitted ==
  odd \cap {"recommit", "unplug", "format", "fill"} = {} =>
    \A k \in DOMAIN queue :
      /\ got[queue[k]] = format
      /\ format \in Large => large

(* No buffer is ever in two places; while nothing fails to be queued none   *)
(* is lost, and only mapped buffers are in the driver's hands.              *)
BuffersAccounted ==
  LET all == queue \o done IN
    /\ \A j, k \in DOMAIN all : all[j] = all[k] => j = k
    /\ "qbuf" \notin odd /\ ~(on /\ nbufs = 0) => Len(all) = nbufs

(* A buffer that was sent is refilled or taken back, however many events    *)
(* the host makes meanwhile, unless new buffers were refused.               *)
SentIsRefilled ==
  \A i \in Bufs :
    (\E k \in DOMAIN done : done[k] = i)
      ~> ((\A k \in DOMAIN done : done[k] # i) \/ nbufs = 0)
=============================================================================
