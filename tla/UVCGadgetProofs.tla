-------------------------- MODULE UVCGadgetProofs ---------------------------
(***************************************************************************)
(* Theorems about the camera gadget, for any number of buffers, any formats *)
(* a host asks for, any number of events that the driver keeps, and any     *)
(* number of faults.                                                        *)
(***************************************************************************)
EXTENDS UVCGadget, SequenceTheorems, TLAPS

(* The control that the program waits for when it comes to place k of the    *)
(* events s, if it now waits for base: that of the last setup before k.      *)
ControlAt(s, base, k, c) ==
  \/ \E j \in 1 .. k - 1 :
       /\ s[j].type = "setup" /\ s[j].what = c
       /\ \A i \in j + 1 .. k - 1 : s[i].type # "setup"
  \/ base = c /\ \A i \in 1 .. k - 1 : s[i].type # "setup"

(* At place k of the events s the driver does not stream, if it now does     *)
(* only when base says so: the last of its events before k was a streamoff.  *)
OffAt(s, base, k) ==
  \/ \E j \in 1 .. k - 1 :
       /\ s[j].type = "streamoff"
       /\ \A i \in j + 1 .. k - 1 : s[i].type # "streamon"
  \/ ~base /\ \A i \in 1 .. k - 1 : s[i].type # "streamon"

(* The event at place k brings data for control c. *)
DataFor(s, base, k, c) == s[k].type = "data" /\ ControlAt(s, base, k, c)

(* What control c will be when all events are processed. *)
WillBe(s, base, now, c, f) ==
  \/ \E k \in 1 .. Len(s) :
       /\ DataFor(s, base, k, c) /\ Nearest(s[k].value) = f
       /\ \A i \in k + 1 .. Len(s) : ~DataFor(s, base, i, c)
  \/ now = f /\ \A i \in 1 .. Len(s) : ~DataFor(s, base, i, c)
-----------------------------------------------------------------------------
(* The inductive invariants. *)

EventAtHand == pc = "event" => events # <<>>

(* Each data event is for the control it was sent for, the transfer that is  *)
(* underway included, and the last one for each is what the host sent last.  *)
NegotiationInv ==
  /\ xfer # NoXfer => ControlAt(events, control, Len(events) + 1, xfer[1])
  /\ \A k \in 1 .. Len(events) :
       events[k].type = "data" => \E c \in Controls : ControlAt(events, control, k, c)
  /\ \A c \in Controls : WillBe(events, control, negotiated[c], c, sent[c])

(* No element is twice in s, twice in t, or in both. *)
Apart(s, t) ==
  /\ \A j, k \in 1 .. Len(s) : s[j] = s[k] => j = k
  /\ \A j, k \in 1 .. Len(t) : t[j] = t[k] => j = k
  /\ \A j \in 1 .. Len(s), k \in 1 .. Len(t) : s[j] # t[k]

(* No buffer in two places, none sent by a driver that does not stream, and  *)
(* none lost.                                                               *)
BufferInv ==
  /\ Apart(queue, done)
  /\ ~on => done = <<>>
  /\ "qbuf" \notin odd /\ ~(on /\ nbufs = 0) => Len(queue) + Len(done) = nbufs

(* The driver streams, or would once it is started. *)
Held == on \/ queue # <<>>

Orderly == odd \cap {"recommit", "unplug", "format", "fill"} = {}

(* A host that commits before it streams: a commit never meets a driver that *)
(* holds buffers, so that those made for a format see no other.              *)
FrameInv ==
  Orderly =>
    /\ image = format
    /\ Held => (format \in Large => large)
    /\ \A k \in 1 .. Len(queue) : got[queue[k]] = format
    /\ ~streaming => OffAt(events, Held, Len(events) + 1)
    /\ \A k \in 1 .. Len(events) :
         DataFor(events, control, k, "commit") => OffAt(events, Held, k)
-----------------------------------------------------------------------------
LEMMA NearestType == \A value \in Asked : Nearest(value) \in Formats
<1> SUFFICES ASSUME NEW value \in Asked
             PROVE  Nearest(value) \in Formats
  OBVIOUS
<1>1. value[1] \in Nat /\ value[2] \in Nat
  BY GadgetAssumption
<1>2. Clamp(value[1], NumFormats) \in 1 .. NumFormats /\ Clamp(value[2], NumFrames) \in 1 .. NumFrames
  BY <1>1 DEF Clamp, NumFormats, NumFrames
<1> QED
  BY <1>2 DEF Nearest, Formats

LEMMA Dequeued ==
  ASSUME TypeOK, EventAtHand, NEW type, Dequeue(type)
  PROVE  /\ Len(events) \in Nat \ {0}
         /\ events[1] = Head(events) /\ events[1] \in Event /\ events[1].type = type
         /\ events' = Tail(events) /\ events' \in Seq(Event)
         /\ Len(events') = Len(events) - 1
         /\ \A k \in 1 .. Len(events') : events'[k] = events[k + 1]
<1>1. events \in Seq(Event) /\ events # <<>>
  BY DEF TypeOK, EventAtHand, Dequeue
<1>2. Len(events) \in Nat \ {0}
  BY <1>1, EmptySeq
<1>3. events[1] \in Event
  BY <1>1, <1>2, ElementOfSeq
<1>4. events' = Tail(events) /\ Head(events).type = type
  BY DEF Dequeue
<1>5. events[1] = Head(events)
  BY <1>1
<1> QED
  BY <1>1, <1>2, <1>3, <1>4, <1>5, HeadTailProperties

LEMMA Reported ==
  ASSUME TypeOK, NEW event \in Event, Report(event)
  PROVE  /\ events' = Append(events, event) /\ events' \in Seq(Event)
         /\ Len(events) \in Nat
         /\ Len(events') = Len(events) + 1 /\ Len(events') <= MaxEvents
         /\ events' # <<>>
         /\ \A k \in 1 .. Len(events) : events'[k] = events[k]
         /\ events'[Len(events) + 1] = event
<1>1. events \in Seq(Event) /\ Len(events) \in Nat /\ Len(events) < MaxEvents
  BY LenProperties DEF TypeOK, Report
<1>2. events' = Append(events, event)
  BY DEF Report
<1>3. /\ events' \in Seq(Event) /\ events' # <<>>
      /\ Len(events') = Len(events) + 1
      /\ \A k \in 1 .. Len(events) : events'[k] = events[k]
      /\ events'[Len(events) + 1] = event
  BY <1>1, <1>2, AppendProperties
<1>4. Len(events') <= MaxEvents
  BY <1>1, <1>3, GadgetAssumption
<1> QED
  BY <1>1, <1>2, <1>3, <1>4

(* The events of the host. *)
LEMMA EventTypes ==
  /\ \A what \in Controls \cup {"other"} :
       /\ [type |-> "setup", what |-> what] \in Event
       /\ [type |-> "setup", what |-> what].type = "setup"
       /\ [type |-> "setup", what |-> what].what = what
  /\ \A value \in Asked :
       /\ [type |-> "data", value |-> value] \in Event
       /\ [type |-> "data", value |-> value].type = "data"
       /\ [type |-> "data", value |-> value].value = value
  /\ \A t \in {"streamon", "streamoff"} :
       [type |-> t] \in Event /\ [type |-> t].type = t
  BY DEF Event

LEMMA EventFields ==
  ASSUME NEW e \in Event
  PROVE  /\ e.type = "setup" => e.what \in Controls \cup {"other"}
         /\ e.type = "data" => e.value \in Asked
  BY DEF Event

LEMMA OddType ==
  ASSUME TypeOK, NEW kinds \in SUBSET (AllFaults \cup {"recommit", "unplug"})
  PROVE  /\ Odd(kinds) => odd' \subseteq AllFaults \cup {"recommit", "unplug"} /\ odd \subseteq odd'
         /\ Fail(kinds) => odd' = odd \cup kinds
  BY DEF Odd, Fail, TypeOK
-----------------------------------------------------------------------------
TypeInv == TypeOK /\ EventAtHand

LEMMA TypeInit == Init => TypeInv
<1> SUFFICES ASSUME Init
             PROVE  TypeInv
  OBVIOUS
<1>1. <<1, 1>> \in Formats
  BY DEF Formats, NumFormats, NumFrames
<1>2. <<>> \in Seq(Bufs) /\ <<>> \in Seq(Event) /\ Len(<<>>) <= MaxEvents /\ 0 \in 0 .. NumBufs
  BY GadgetAssumption
<1> QED
  BY <1>1, <1>2 DEF Init, TypeInv, TypeOK, EventAtHand

(* What an event leaves alone in the loop and the driver. *)
LEMMA Processed ==
  ASSUME TypeOK, EventAtHand, NEW type, Dequeue(type), EventDone
  PROVE  /\ pc' \in {"select", "video"} /\ writable' \in BOOLEAN
         /\ events' \in Seq(Event) /\ Len(events') <= MaxEvents
<1>1. events' \in Seq(Event) /\ Len(events) \in Nat /\ Len(events') = Len(events) - 1
  BY Dequeued
<1>2. Len(events) <= MaxEvents
  BY DEF TypeOK
<1>3. Len(events') <= MaxEvents
  BY <1>1, <1>2, GadgetAssumption
<1>4. pc' \in {"select", "video"} /\ writable' \in BOOLEAN
  BY DEF EventDone
<1> QED
  BY <1>1, <1>3, <1>4

LEMMA TypeStep == TypeInv /\ [Next]_vars => TypeInv'
<1> SUFFICES ASSUME TypeOK, EventAtHand, [Next]_vars
             PROVE  TypeInv'
  BY DEF TypeInv
<1> USE DEF loop, device, memory, driver, host
<1>1. CASE Select
  BY <1>1 DEF Select, TypeInv, TypeOK, EventAtHand
<1>2. CASE Setup
  <2>1. Dequeue("setup") /\ EventDone
    BY <1>2 DEF Setup
  <2>2. /\ pc' \in {"select", "video"} /\ writable' \in BOOLEAN
        /\ events' \in Seq(Event) /\ Len(events') <= MaxEvents
    BY <2>1, Processed
  <2>3. xfer' \in {NoXfer} \cup (Controls \X {"setup", "data"})
    BY <1>2 DEF Setup, Responds, TypeOK
  <2>4. control' \in Controls \cup {"none"}
    BY <1>2 DEF Setup
  <2> QED
    BY <1>2, <2>2, <2>3, <2>4 DEF Setup, TypeInv, TypeOK, EventAtHand
<1>3. CASE DataProbe
  <2>1. Dequeue("data") /\ EventDone
    BY <1>3 DEF DataProbe
  <2>2. /\ pc' \in {"select", "video"} /\ writable' \in BOOLEAN
        /\ events' \in Seq(Event) /\ Len(events') <= MaxEvents
    BY <2>1, Processed
  <2>3. Nearest(Head(events).value) \in Formats
    BY <2>1, Dequeued, EventFields, NearestType
  <2>4. negotiated' \in [Controls -> Formats]
    BY <1>3, <2>3 DEF DataProbe, TypeOK, Controls
  <2> QED
    BY <1>3, <2>2, <2>4 DEF DataProbe, TypeInv, TypeOK, EventAtHand
<1>4. CASE DataCommit
  <2>1. Dequeue("data") /\ EventDone
    BY <1>4 DEF DataCommit
  <2>2. /\ pc' \in {"select", "video"} /\ writable' \in BOOLEAN
        /\ events' \in Seq(Event) /\ Len(events') <= MaxEvents
    BY <2>1, Processed
  <2>3. Nearest(Head(events).value) \in Formats
    BY <2>1, Dequeued, EventFields, NearestType
  <2>4. negotiated' \in [Controls -> Formats] /\ format' \in Formats /\ image' \in Formats \cup {None}
    BY <1>4, <2>3 DEF DataCommit, TypeOK, Controls
  <2>5. odd' \subseteq AllFaults \cup {"recommit", "unplug"}
    BY <1>4, OddType DEF DataCommit, Fail, AllFaults, TypeOK
  <2> QED
    BY <1>4, <2>2, <2>4, <2>5 DEF DataCommit, TypeInv, TypeOK, EventAtHand
<1>5. CASE StreamOn
  <2>1. Dequeue("streamon") /\ EventDone
    BY <1>5 DEF StreamOn
  <2>2. /\ pc' \in {"select", "video"} /\ writable' \in BOOLEAN
        /\ events' \in Seq(Event) /\ Len(events') <= MaxEvents
    BY <2>1, Processed
  <2>3. PICK n \in 0 .. nbufs' :
          /\ queue' = [k \in 1 .. n |-> k]
          /\ got' \in [Bufs -> {format, None}]
          /\ Fail((IF nbufs' < NumBufs THEN {"buffers"} ELSE {}) \cup
                  (IF n < nbufs' THEN {"qbuf"} ELSE {}) \cup
                  (IF \E i \in 1 .. n : got'[i] # format THEN {"fill"} ELSE {}) \cup
                  (IF on' THEN {} ELSE {"start"}))
    BY <1>5 DEF StreamOn
  <2>8. done' = <<>> /\ nbufs' \in 0 .. NumBufs
    BY <1>5 DEF StreamOn
  <2>10. on' \in BOOLEAN
    BY <1>5, Zenon DEF StreamOn, TypeOK
  <2>11. large' \in BOOLEAN
    BY <1>5 DEF StreamOn
  <2>4. n \in Nat /\ n <= NumBufs
    BY <2>8, GadgetAssumption
  <2>5. queue' \in Seq(Bufs)
    BY <2>3, <2>4, GadgetAssumption DEF Bufs
  <2>6. got' \in [Bufs -> Formats \cup {None}]
    BY <2>3 DEF TypeOK
  <2>7. odd' \subseteq AllFaults \cup {"recommit", "unplug"}
    BY <2>3 DEF Fail, Odd, TypeOK, AllFaults
  <2>9. done' \in Seq(Bufs)
    BY <2>8
  <2> QED
    BY <1>5, <2>2, <2>5, <2>6, <2>7, <2>8, <2>9, <2>10, <2>11 DEF StreamOn, TypeInv, TypeOK, EventAtHand
<1>6. CASE StreamOnBusy
  <2>1. Dequeue("streamon") /\ EventDone
    BY <1>6 DEF StreamOnBusy
  <2>2. /\ pc' \in {"select", "video"} /\ writable' \in BOOLEAN
        /\ events' \in Seq(Event) /\ Len(events') <= MaxEvents
    BY <2>1, Processed
  <2> QED
    BY <1>6, <2>2, GadgetAssumption DEF StreamOnBusy, TypeInv, TypeOK, EventAtHand
<1>7. CASE StreamOff
  <2>1. Dequeue("streamoff") /\ EventDone
    BY <1>7 DEF StreamOff
  <2>2. /\ pc' \in {"select", "video"} /\ writable' \in BOOLEAN
        /\ events' \in Seq(Event) /\ Len(events') <= MaxEvents
    BY <2>1, Processed
  <2>3. queue' \in Seq(Bufs) /\ done' \in Seq(Bufs) /\ got' \in [Bufs -> Formats \cup {None}]
    BY <1>7 DEF StreamOff
  <2>4. nbufs' \in 0 .. NumBufs
    BY <1>7, GadgetAssumption DEF StreamOff
  <2> QED
    BY <1>7, <2>2, <2>3, <2>4 DEF StreamOff, TypeInv, TypeOK, EventAtHand
<1>8. CASE Refill
  <2>1. done \in Seq(Bufs) /\ done # <<>>
    BY <1>8 DEF Refill, TypeOK
  <2>2. Head(done) \in Bufs /\ Tail(done) \in Seq(Bufs)
    BY <2>1
  <2>3. Append(queue, Head(done)) \in Seq(Bufs)
    BY <2>2 DEF TypeOK
  <2>4. queue' \in Seq(Bufs) /\ done' \in Seq(Bufs)
    BY <1>8, <2>2, <2>3 DEF Refill, TypeOK
  <2>5. got' \in [Bufs -> Formats \cup {None}]
    BY <1>8, <2>2 DEF Refill, TypeOK
  <2>6. odd' \subseteq AllFaults \cup {"recommit", "unplug"}
    BY <1>8 DEF Refill, Fail, Odd, TypeOK, AllFaults
  <2> QED
    BY <1>8, <2>4, <2>5, <2>6 DEF Refill, TypeInv, TypeOK, EventAtHand
<1>9. CASE FillUnmapped \/ NothingToRefill \/ Dead \/ UNCHANGED vars
  BY <1>9 DEF FillUnmapped, NothingToRefill, Dead, vars, TypeInv, TypeOK, EventAtHand
<1>10. CASE FrameSent
  <2>1. queue \in Seq(Bufs) /\ queue # <<>> /\ done \in Seq(Bufs)
    BY <1>10 DEF FrameSent, TypeOK
  <2>2. queue' \in Seq(Bufs) /\ done' \in Seq(Bufs)
    BY <1>10, <2>1 DEF FrameSent
  <2> QED
    BY <1>10, <2>2 DEF FrameSent, TypeInv, TypeOK, EventAtHand
<1>11. CASE HostAsks
  <2>1. PICK what \in Controls \cup {"other"} :
          /\ Report([type |-> "setup", what |-> what])
          /\ xfer' = IF what \in Controls THEN <<what, "setup">> ELSE NoXfer
    BY <1>11 DEF HostAsks
  <2>2. events' \in Seq(Event) /\ Len(events') <= MaxEvents /\ events' # <<>>
    BY <2>1, Reported, EventTypes
  <2>3. xfer' \in {NoXfer} \cup (Controls \X {"setup", "data"})
    BY <2>1
  <2> QED
    BY <1>11, <2>2, <2>3 DEF HostAsks, TypeInv, TypeOK, EventAtHand
<1>12. CASE HostSendsData
  <2>1. PICK value \in Asked :
          /\ Report([type |-> "data", value |-> value])
          /\ sent' = [sent EXCEPT ![xfer[1]] = Nearest(value)]
    BY <1>12 DEF HostSendsData
  <2>2. events' \in Seq(Event) /\ Len(events') <= MaxEvents /\ events' # <<>>
    BY <2>1, Reported, EventTypes
  <2>3. sent' \in [Controls -> Formats]
    BY <2>1, NearestType DEF TypeOK
  <2>4. odd' \subseteq AllFaults \cup {"recommit", "unplug"}
    BY <1>12 DEF HostSendsData, Odd, TypeOK
  <2> QED
    BY <1>12, <2>2, <2>3, <2>4 DEF HostSendsData, TypeInv, TypeOK, EventAtHand
<1>13. CASE HostStreams
  <2>1. events' \in Seq(Event) /\ Len(events') <= MaxEvents /\ events' # <<>>
    BY <1>13, Reported, EventTypes DEF HostStreams
  <2> QED
    BY <1>13, <2>1 DEF HostStreams, TypeInv, TypeOK, EventAtHand
<1>14. CASE HostUnplugged
  <2>1. odd' \subseteq AllFaults \cup {"recommit", "unplug"}
    BY <1>14 DEF HostUnplugged, Odd, TypeOK
  <2> QED
    BY <1>14, <2>1 DEF HostUnplugged, TypeInv, TypeOK, EventAtHand
<1> QED
  BY <1>1, <1>2, <1>3, <1>4, <1>5, <1>6, <1>7, <1>8, <1>9, <1>10, <1>11, <1>12, <1>13, <1>14
  DEF Next, Gadget, Process, Outside

(* The state stays within its types. *)
THEOREM TypeCorrect == Spec => []TypeOK
<1>1. TypeInv => TypeOK
  BY DEF TypeInv
<1> QED
  BY TypeInit, TypeStep, <1>1, PTL DEF Spec
-----------------------------------------------------------------------------
(* The buffers. *)

LEMMA ApartEither == \A s, t : Apart(s, t) => Apart(t, s)
  BY DEF Apart

(* One element goes from the head of s to the end of t, or is lost. *)
LEMMA Moved ==
  ASSUME NEW S, NEW s \in Seq(S), NEW t \in Seq(S), s # <<>>, Apart(s, t)
  PROVE  /\ Apart(Tail(s), Append(t, Head(s))) /\ Apart(Tail(s), t)
         /\ Len(Tail(s)) + Len(Append(t, Head(s))) = Len(s) + Len(t)
<1> DEFINE u == Tail(s)
           v == Append(t, Head(s))
<1>1. Len(s) \in Nat /\ Len(t) \in Nat
  BY LenProperties
<1>2. /\ Len(u) \in Nat /\ Len(u) + 1 = Len(s) /\ Head(s) = s[1] /\ Head(s) \in S
      /\ \A k \in 1 .. Len(u) : u[k] = s[k + 1]
  BY <1>1, HeadTailProperties
<1>3. /\ Len(v) = Len(t) + 1 /\ v[Len(t) + 1] = s[1]
      /\ \A k \in 1 .. Len(t) : v[k] = t[k]
  BY <1>2, AppendProperties
<1> HIDE DEF u, v
<1>4. \A j \in 1 .. Len(u) : u[j] = s[j + 1] /\ j + 1 \in 1 .. Len(s) /\ j + 1 # 1 /\ 1 \in 1 .. Len(s)
  BY <1>1, <1>2
<1>5. \A j, k \in 1 .. Len(u) : u[j] = u[k] => j = k
  BY <1>1, <1>2, <1>4 DEF Apart
<1>6. \A j \in 1 .. Len(v) : j \in 1 .. Len(t) \/ j = Len(t) + 1
  BY <1>1, <1>3
<1>7. \A j, k \in 1 .. Len(v) : v[j] = v[k] => j = k
  <2> TAKE j, k \in 1 .. Len(v)
  <2> HAVE v[j] = v[k]
  <2>1. CASE j \in 1 .. Len(t) /\ k \in 1 .. Len(t)
    BY <2>1, <1>3 DEF Apart
  <2>2. CASE j \in 1 .. Len(t) /\ k = Len(t) + 1
    BY <2>2, <1>1, <1>2, <1>3 DEF Apart
  <2>3. CASE j = Len(t) + 1 /\ k \in 1 .. Len(t)
    BY <2>3, <1>1, <1>2, <1>3 DEF Apart
  <2> QED
    BY <2>1, <2>2, <2>3, <1>6
<1>8. \A j \in 1 .. Len(u), k \in 1 .. Len(v) : u[j] # v[k]
  <2> SUFFICES ASSUME NEW j \in 1 .. Len(u), NEW k \in 1 .. Len(v)
               PROVE  u[j] # v[k]
    OBVIOUS
  <2>1. CASE k \in 1 .. Len(t)
    BY <2>1, <1>3, <1>4 DEF Apart
  <2>2. CASE k = Len(t) + 1
    BY <2>2, <1>3, <1>4 DEF Apart
  <2> QED
    BY <2>1, <2>2, <1>6
<1>9. \A j \in 1 .. Len(u), k \in 1 .. Len(t) : u[j] # t[k]
  BY <1>4 DEF Apart
<1>10. Apart(u, v) /\ Apart(u, t)
  BY <1>5, <1>7, <1>8, <1>9 DEF Apart
<1> QED
  BY <1>1, <1>2, <1>3, <1>10 DEF u, v

LEMMA BufferInit == Init => BufferInv
  BY DEF Init, BufferInv, Apart

LEMMA BufferStep == TypeOK /\ BufferInv /\ [Next]_vars => BufferInv'
<1> SUFFICES ASSUME TypeOK, BufferInv, [Next]_vars
             PROVE  BufferInv'
  OBVIOUS
<1> USE DEF loop, device, memory, driver, host
<1>1. CASE UNCHANGED <<nbufs, on, queue, done, odd>>
  BY <1>1 DEF BufferInv, Apart
<1>2. CASE UNCHANGED <<nbufs, on, queue, done>> /\ odd \subseteq odd'
  BY <1>2 DEF BufferInv, Apart
<1>3. CASE StreamOn
  <2>1. PICK n \in 0 .. nbufs' :
          /\ queue' = [k \in 1 .. n |-> k]
          /\ Fail((IF nbufs' < NumBufs THEN {"buffers"} ELSE {}) \cup
                  (IF n < nbufs' THEN {"qbuf"} ELSE {}) \cup
                  (IF \E i \in 1 .. n : got'[i] # format THEN {"fill"} ELSE {}) \cup
                  (IF on' THEN {} ELSE {"start"}))
    BY <1>3 DEF StreamOn
  <2>2. n \in Nat /\ n <= nbufs' /\ nbufs' \in Nat /\ done' = <<>>
    BY <1>3, GadgetAssumption DEF StreamOn
  <2>3. "qbuf" \notin odd' => n = nbufs'
    BY <2>1, <2>2 DEF Fail, Odd
  <2>4. Len(queue') = n /\ (\A k \in 1 .. n : queue'[k] = k) /\ Len(done') = 0
    <3>1. Len([k \in 1 .. n |-> k]) = n
      BY <2>2
    <3>2. \A k \in 1 .. n : [m \in 1 .. n |-> m][k] = k
      OBVIOUS
    <3> QED
      BY <2>1, <2>2, <3>1, <3>2
  <2>5. Apart(queue', done')
    BY <2>2, <2>4 DEF Apart
  <2>6. "qbuf" \notin odd' => Len(queue') + Len(done') = nbufs'
    BY <2>2, <2>3, <2>4
  <2> QED
    BY <2>2, <2>5, <2>6 DEF BufferInv
<1>4. CASE StreamOnBusy
  BY <1>4 DEF StreamOnBusy, BufferInv, Apart
<1>5. CASE StreamOff
  BY <1>5 DEF StreamOff, BufferInv, Apart
<1>6. CASE Refill
  <2>1. /\ done \in Seq(Bufs) /\ queue \in Seq(Bufs) /\ done # <<>> /\ Apart(done, queue)
        /\ done' = Tail(done) /\ on' = on /\ nbufs' = nbufs
    BY <1>6, ApartEither DEF Refill, TypeOK, BufferInv
  <2>2. /\ Apart(Append(queue, Head(done)), Tail(done)) /\ Apart(queue, Tail(done))
        /\ Len(Tail(done)) + Len(Append(queue, Head(done))) = Len(done) + Len(queue)
    BY <2>1, Moved, ApartEither
  <2>3. Apart(queue', done')
    BY <1>6, <2>1, <2>2 DEF Refill
  <2>4. on
    BY <2>1 DEF BufferInv
  <2>5. "qbuf" \notin odd' => "qbuf" \notin odd /\ queue' = Append(queue, Head(done))
    BY <1>6 DEF Refill, Fail, Odd
  <2>6. Len(queue) \in Nat /\ Len(done) \in Nat
    BY <2>1, LenProperties
  <2>7. "qbuf" \notin odd' => Len(queue') + Len(done') = Len(queue) + Len(done)
    <3> HAVE "qbuf" \notin odd'
    <3>1. Len(Tail(done)) \in Nat /\ Len(Append(queue, Head(done))) \in Nat
      BY <2>1, LenProperties, HeadTailProperties, AppendProperties
    <3>2. /\ queue' = Append(queue, Head(done)) /\ done' = Tail(done)
          /\ Len(Tail(done)) + Len(Append(queue, Head(done))) = Len(done) + Len(queue)
      BY <2>1, <2>2, <2>5
    <3> DEFINE a == Len(Append(queue, Head(done)))
               b == Len(Tail(done))
               c == Len(queue)
               d == Len(done)
    <3>3. a \in Nat /\ b \in Nat /\ c \in Nat /\ d \in Nat /\ b + a = d + c
      BY <2>6, <3>1, <3>2
    <3>4. Len(queue') = a /\ Len(done') = b
      BY <3>2
    <3> HIDE DEF a, b, c, d
    <3>5. a + b = c + d
      BY <3>3
    <3> QED
      BY <3>4, <3>5 DEF c, d
  <2> QED
    BY <2>1, <2>3, <2>4, <2>5, <2>7 DEF BufferInv
<1>7. CASE FrameSent
  <2>1. /\ queue \in Seq(Bufs) /\ done \in Seq(Bufs) /\ queue # <<>> /\ Apart(queue, done)
        /\ on /\ on' = on /\ nbufs' = nbufs /\ odd' = odd
        /\ queue' = Tail(queue) /\ done' = Append(done, Head(queue))
    BY <1>7 DEF FrameSent, TypeOK, BufferInv
  <2>2. Apart(queue', done') /\ Len(queue') + Len(done') = Len(queue) + Len(done)
    BY <2>1, Moved
  <2> QED
    BY <2>1, <2>2 DEF BufferInv
<1>8. CASE DataCommit \/ HostSendsData \/ HostUnplugged
  BY <1>2, <1>8 DEF DataCommit, HostSendsData, HostUnplugged, Fail, Odd
<1>9. CASE Select \/ Setup \/ DataProbe \/ FillUnmapped \/ NothingToRefill \/ Dead
             \/ HostAsks \/ HostStreams \/ UNCHANGED vars
  BY <1>1, <1>9 DEF Select, Setup, DataProbe, FillUnmapped, NothingToRefill, Dead,
       HostAsks, HostStreams, vars
<1> QED
  BY <1>3, <1>4, <1>5, <1>6, <1>7, <1>8, <1>9 DEF Next, Gadget, Process, Outside

LEMMA Accounted == TypeOK /\ BufferInv => BuffersAccounted
<1> SUFFICES ASSUME TypeOK, BufferInv
             PROVE  BuffersAccounted
  OBVIOUS
<1> DEFINE all == queue \o done
<1>1. queue \in Seq(Bufs) /\ done \in Seq(Bufs) /\ Len(queue) \in Nat /\ Len(done) \in Nat
  BY LenProperties DEF TypeOK
<1>2. /\ DOMAIN all = 1 .. Len(queue) + Len(done) /\ Len(all) = Len(queue) + Len(done)
      /\ \A j \in 1 .. Len(queue) + Len(done) :
           all[j] = IF j <= Len(queue) THEN queue[j] ELSE done[j - Len(queue)]
  BY <1>1, ConcatProperties
<1> HIDE DEF all
<1>3. \A j, k \in DOMAIN all : all[j] = all[k] => j = k
  <2> SUFFICES ASSUME NEW j \in 1 .. Len(queue) + Len(done), NEW k \in 1 .. Len(queue) + Len(done),
                      all[j] = all[k]
               PROVE  j = k
    BY <1>2
  <2>1. CASE j <= Len(queue) /\ k <= Len(queue)
    <3>1. all[j] = queue[j] /\ all[k] = queue[k] /\ j \in 1 .. Len(queue) /\ k \in 1 .. Len(queue)
      BY <2>1, <1>1, <1>2
    <3> QED
      BY <3>1 DEF BufferInv, Apart
  <2>2. CASE j <= Len(queue) /\ ~(k <= Len(queue))
    <3>1. all[j] = queue[j] /\ j \in 1 .. Len(queue)
      BY <2>2, <1>1, <1>2
    <3>2. all[k] = done[k - Len(queue)] /\ k - Len(queue) \in 1 .. Len(done)
      BY <2>2, <1>1, <1>2
    <3> QED
      BY <3>1, <3>2 DEF BufferInv, Apart
  <2>3. CASE ~(j <= Len(queue)) /\ k <= Len(queue)
    <3>1. all[k] = queue[k] /\ k \in 1 .. Len(queue)
      BY <2>3, <1>1, <1>2
    <3>2. all[j] = done[j - Len(queue)] /\ j - Len(queue) \in 1 .. Len(done)
      BY <2>3, <1>1, <1>2
    <3> QED
      BY <3>1, <3>2 DEF BufferInv, Apart
  <2>4. CASE ~(j <= Len(queue)) /\ ~(k <= Len(queue))
    <3>1. /\ all[j] = done[j - Len(queue)] /\ j - Len(queue) \in 1 .. Len(done)
          /\ all[k] = done[k - Len(queue)] /\ k - Len(queue) \in 1 .. Len(done)
      BY <2>4, <1>1, <1>2
    <3>2. j - Len(queue) = k - Len(queue)
      BY <3>1 DEF BufferInv, Apart
    <3> QED
      BY <3>2, <1>1
  <2> QED
    BY <2>1, <2>2, <2>3, <2>4
<1>4. "qbuf" \notin odd /\ ~(on /\ nbufs = 0) => Len(all) = nbufs
  BY <1>2 DEF BufferInv
<1> QED
  BY <1>3, <1>4 DEF BuffersAccounted, all

(* No buffer is in two places; as long as none fails to be queued all the   *)
(* mapped ones are in the driver's hands.                                   *)
THEOREM BuffersKept == Spec => []BuffersAccounted
<1>1. Init => TypeInv /\ BufferInv
  BY TypeInit, BufferInit
<1>2. TypeInv /\ BufferInv /\ [Next]_vars => (TypeInv /\ BufferInv)'
  BY TypeStep, BufferStep DEF TypeInv
<1>3. TypeInv /\ BufferInv => BuffersAccounted
  BY Accounted DEF TypeInv
<1> QED
  BY <1>1, <1>2, <1>3, PTL DEF Spec
-----------------------------------------------------------------------------
(* What is waited for at a place, event by event. *)

LEMMA ControlFirst ==
  \A s, base, c : ControlAt(s, base, 1, c) <=> base = c
  BY DEF ControlAt

LEMMA ControlNext ==
  ASSUME NEW s, NEW base, NEW c, NEW k \in Nat \ {0}
  PROVE  ControlAt(s, base, k + 1, c)
           <=> \/ s[k].type = "setup" /\ s[k].what = c
               \/ s[k].type # "setup" /\ ControlAt(s, base, k, c)
<1>1. (k + 1) - 1 = k /\ k \in 1 .. k /\ k + 1 .. k = {} /\ \A i \in 1 .. k : i \in 1 .. k - 1 \/ i = k
  OBVIOUS
<1>2. \A i \in 1 .. k - 1 : i \in 1 .. k
  OBVIOUS
<1>3. ASSUME s[k].type = "setup"
      PROVE  ControlAt(s, base, k + 1, c) <=> s[k].what = c
  <2>1. ASSUME ControlAt(s, base, k + 1, c)
        PROVE  s[k].what = c
    <3>1. PICK j \in 1 .. k : /\ s[j].type = "setup" /\ s[j].what = c
                              /\ \A i \in j + 1 .. k : s[i].type # "setup"
      BY <1>1, <1>3, <2>1 DEF ControlAt
    <3>2. ~(j < k)
      BY <3>1, <1>3
    <3>3. j = k
      BY <3>2
    <3> QED
      BY <3>1, <3>3
  <2>2. ASSUME s[k].what = c
        PROVE  ControlAt(s, base, k + 1, c)
    BY <1>1, <1>3, <2>2 DEF ControlAt
  <2> QED
    BY <2>1, <2>2
<1>4. ASSUME s[k].type # "setup"
      PROVE  ControlAt(s, base, k + 1, c) <=> ControlAt(s, base, k, c)
  <2>1. (\A i \in 1 .. k : s[i].type # "setup") <=> (\A i \in 1 .. k - 1 : s[i].type # "setup")
    BY <1>1, <1>2, <1>4
  <2>2. \A j \in 1 .. k - 1 :
          (\A i \in j + 1 .. k : s[i].type # "setup") <=> (\A i \in j + 1 .. k - 1 : s[i].type # "setup")
    <3> TAKE j \in 1 .. k - 1
    <3>1. \A i \in j + 1 .. k : i \in j + 1 .. k - 1 \/ i = k
      OBVIOUS
    <3>2. \A i \in j + 1 .. k - 1 : i \in j + 1 .. k
      OBVIOUS
    <3> QED
      BY <3>1, <3>2, <1>4
  <2>3. (\E j \in 1 .. k : /\ s[j].type = "setup" /\ s[j].what = c
                           /\ \A i \in j + 1 .. k : s[i].type # "setup")
          <=> (\E j \in 1 .. k - 1 : /\ s[j].type = "setup" /\ s[j].what = c
                                     /\ \A i \in j + 1 .. k - 1 : s[i].type # "setup")
    BY <2>2, <1>1, <1>2, <1>4
  <2> QED
    BY <1>1, <2>1, <2>3 DEF ControlAt
<1> QED
  BY <1>3, <1>4

LEMMA ControlSame ==
  ASSUME NEW s, NEW t, NEW base, NEW c, NEW k \in Nat \ {0}, \A i \in 1 .. k - 1 : t[i] = s[i]
  PROVE  ControlAt(t, base, k, c) <=> ControlAt(s, base, k, c)
<1>1. \A j \in 1 .. k - 1 : \A i \in j + 1 .. k - 1 : t[i] = s[i]
  OBVIOUS
<1> QED
  BY <1>1 DEF ControlAt

LEMMA ControlOne ==
  ASSUME NEW s, NEW base, NEW c, NEW d, NEW k \in Nat \ {0},
         ControlAt(s, base, k, c), ControlAt(s, base, k, d)
  PROVE  c = d
<1>1. \A j, i \in 1 .. k - 1 : j = i \/ i \in j + 1 .. k - 1 \/ j \in i + 1 .. k - 1
  OBVIOUS
<1>2. CASE \A i \in 1 .. k - 1 : s[i].type # "setup"
  BY <1>2 DEF ControlAt
<1>3. CASE ~\A i \in 1 .. k - 1 : s[i].type # "setup"
  <2>1. PICK j \in 1 .. k - 1 : /\ s[j].type = "setup" /\ s[j].what = c
                                /\ \A i \in j + 1 .. k - 1 : s[i].type # "setup"
    BY <1>3 DEF ControlAt
  <2>2. PICK l \in 1 .. k - 1 : /\ s[l].type = "setup" /\ s[l].what = d
                                /\ \A i \in l + 1 .. k - 1 : s[i].type # "setup"
    BY <1>3 DEF ControlAt
  <2>3. j = l
    BY <1>1, <2>1, <2>2
  <2> QED
    BY <2>1, <2>2, <2>3
<1> QED
  BY <1>2, <1>3

(* The first event is processed: t is s without it. *)
LEMMA ControlTail ==
  ASSUME NEW s, NEW t, NEW base, NEW base1, NEW c, NEW k \in Nat \ {0},
         \A i \in 1 .. k - 1 : t[i] = s[i + 1],
         base1 = c <=> \/ s[1].type = "setup" /\ s[1].what = c
                       \/ s[1].type # "setup" /\ base = c
  PROVE  ControlAt(t, base1, k, c) <=> ControlAt(s, base, k + 1, c)
<1>1. /\ (k + 1) - 1 = k
      /\ \A i \in 1 .. k - 1 : i + 1 \in 2 .. k /\ t[i] = s[i + 1]
      /\ \A i \in 2 .. k : i - 1 \in 1 .. k - 1 /\ t[i - 1] = s[i]
      /\ 1 \in 1 .. k /\ 1 + 1 = 2 /\ \A i \in 1 .. k : i = 1 \/ i \in 2 .. k
      /\ \A i \in 2 .. k : i \in 1 .. k
  <2>1. \A i \in 2 .. k : i - 1 \in 1 .. k - 1 /\ (i - 1) + 1 = i
    OBVIOUS
  <2>2. \A i \in 2 .. k : t[i - 1] = s[i]
    BY <2>1
  <2> QED
    BY <2>1, <2>2
<1>2. ASSUME ControlAt(t, base1, k, c)
      PROVE  ControlAt(s, base, k + 1, c)
  <2>1. CASE base1 = c /\ \A i \in 1 .. k - 1 : t[i].type # "setup"
    <3>1. \A i \in 2 .. k : s[i].type # "setup"
      BY <2>1, <1>1
    <3>2. CASE s[1].type = "setup"
      BY <3>1, <3>2, <2>1, <1>1 DEF ControlAt
    <3>3. CASE s[1].type # "setup"
      <4>1. \A i \in 1 .. k : s[i].type # "setup"
        BY <3>1, <3>3, <1>1
      <4> QED
        BY <4>1, <3>3, <2>1, <1>1 DEF ControlAt
    <3> QED
      BY <3>2, <3>3
  <2>2. CASE \E j \in 1 .. k - 1 : /\ t[j].type = "setup" /\ t[j].what = c
                                   /\ \A i \in j + 1 .. k - 1 : t[i].type # "setup"
    <3>1. PICK j \in 1 .. k - 1 : /\ t[j].type = "setup" /\ t[j].what = c
                                  /\ \A i \in j + 1 .. k - 1 : t[i].type # "setup"
      BY <2>2
    <3>2. j + 1 \in 1 .. k /\ s[j + 1] = t[j]
      BY <1>1
    <3>3. \A i \in (j + 1) + 1 .. k : i \in 2 .. k /\ i - 1 \in j + 1 .. k - 1
      OBVIOUS
    <3>4. \A i \in (j + 1) + 1 .. k : s[i].type # "setup"
      BY <3>1, <3>3, <1>1
    <3> QED
      BY <3>1, <3>2, <3>4, <1>1 DEF ControlAt
  <2> QED
    BY <1>2, <2>1, <2>2 DEF ControlAt
<1>3. ASSUME ControlAt(s, base, k + 1, c)
      PROVE  ControlAt(t, base1, k, c)
  <2>1. CASE \A i \in 2 .. k : s[i].type # "setup"
    <3>1. \A i \in 1 .. k - 1 : t[i].type # "setup"
      BY <2>1, <1>1
    <3>2. base1 = c
      <4>1. \A j \in 1 .. k : s[j].type = "setup" => j = 1
        BY <2>1, <1>1
      <4> QED
        BY <4>1, <1>3, <1>1 DEF ControlAt
    <3> QED
      BY <3>1, <3>2 DEF ControlAt
  <2>2. CASE ~\A i \in 2 .. k : s[i].type # "setup"
    <3>1. PICK j \in 1 .. k : /\ s[j].type = "setup" /\ s[j].what = c
                              /\ \A i \in j + 1 .. k : s[i].type # "setup"
      BY <2>2, <1>3, <1>1 DEF ControlAt
    <3>2. j # 1
      BY <3>1, <2>2, <1>1
    <3>3. j \in 2 .. k /\ j - 1 \in 1 .. k - 1 /\ t[j - 1] = s[j]
      BY <3>2, <1>1
    <3>4. \A i \in (j - 1) + 1 .. k - 1 : i \in 1 .. k - 1 /\ i + 1 \in j + 1 .. k
      BY <3>3
    <3>5. \A i \in (j - 1) + 1 .. k - 1 : t[i].type # "setup"
      BY <3>1, <3>4, <1>1
    <3> QED
      BY <3>1, <3>3, <3>5 DEF ControlAt
  <2> QED
    BY <2>1, <2>2
<1> QED
  BY <1>2, <1>3

(* An event is reported: t is s with it. *)
LEMMA WillBeAppend ==
  ASSUME NEW s, NEW t, NEW base, NEW now, NEW c, NEW f, NEW g, NEW n \in Nat,
         Len(s) = n, Len(t) = n + 1, \A k \in 1 .. n : t[k] = s[k],
         WillBe(s, base, now, c, f),
         \/ t[n + 1].type = "data" /\ ControlAt(s, base, n + 1, c) /\ g = Nearest(t[n + 1].value)
         \/ ~(t[n + 1].type = "data" /\ ControlAt(s, base, n + 1, c)) /\ g = f
  PROVE  WillBe(t, base, now, c, g)
<1>1. \A k \in 1 .. n + 1 : k \in Nat \ {0} /\ \A i \in 1 .. k - 1 : t[i] = s[i]
  OBVIOUS
<1>2. \A k \in 1 .. n + 1 : ControlAt(t, base, k, c) <=> ControlAt(s, base, k, c)
  BY <1>1, ControlSame
<1>3. \A k \in 1 .. n : DataFor(t, base, k, c) <=> DataFor(s, base, k, c)
  BY <1>2 DEF DataFor
<1>4. n + 1 \in 1 .. n + 1 /\ \A k \in 1 .. n + 1 : k \in 1 .. n \/ k = n + 1
  OBVIOUS
<1>5. CASE t[n + 1].type = "data" /\ ControlAt(s, base, n + 1, c) /\ g = Nearest(t[n + 1].value)
  <2>1. DataFor(t, base, n + 1, c) /\ Nearest(t[n + 1].value) = g
    BY <1>2, <1>4, <1>5 DEF DataFor
  <2>2. (n + 1) + 1 .. n + 1 = {}
    OBVIOUS
  <2> QED
    BY <2>1, <2>2, <1>4 DEF WillBe
<1>6. CASE ~(t[n + 1].type = "data" /\ ControlAt(s, base, n + 1, c)) /\ g = f
  <2>1. ~DataFor(t, base, n + 1, c)
    BY <1>2, <1>4, <1>6 DEF DataFor
  <2>2. CASE now = f /\ \A i \in 1 .. n : ~DataFor(s, base, i, c)
    BY <2>1, <2>2, <1>3, <1>4, <1>6 DEF WillBe
  <2>3. CASE \E k \in 1 .. n : /\ DataFor(s, base, k, c) /\ Nearest(s[k].value) = f
                               /\ \A i \in k + 1 .. n : ~DataFor(s, base, i, c)
    <3>1. PICK k \in 1 .. n : /\ DataFor(s, base, k, c) /\ Nearest(s[k].value) = f
                              /\ \A i \in k + 1 .. n : ~DataFor(s, base, i, c)
      BY <2>3
    <3>2. k \in 1 .. n + 1 /\ \A i \in k + 1 .. n + 1 : i = n + 1 \/ (i \in k + 1 .. n /\ i \in 1 .. n)
      OBVIOUS
    <3>3. \A i \in k + 1 .. n + 1 : ~DataFor(t, base, i, c)
      BY <3>1, <3>2, <2>1, <1>3
    <3>4. DataFor(t, base, k, c) /\ Nearest(t[k].value) = g
      BY <3>1, <1>3, <1>6
    <3> QED
      BY <3>2, <3>3, <3>4 DEF WillBe
  <2> QED
    BY <2>2, <2>3 DEF WillBe
<1> QED
  BY <1>5, <1>6

(* The first event is processed. *)
LEMMA WillBeTail ==
  ASSUME NEW s, NEW t, NEW base, NEW base1, NEW now, NEW now1, NEW c, NEW f, NEW n \in Nat,
         Len(s) = n + 1, Len(t) = n, \A k \in 1 .. n : t[k] = s[k + 1],
         base1 = c <=> \/ s[1].type = "setup" /\ s[1].what = c
                       \/ s[1].type # "setup" /\ base = c,
         \/ s[1].type = "data" /\ base = c /\ now1 = Nearest(s[1].value)
         \/ ~(s[1].type = "data" /\ base = c) /\ now1 = now,
         WillBe(s, base, now, c, f)
  PROVE  WillBe(t, base1, now1, c, f)
<1>1. \A k \in 1 .. n : k \in Nat \ {0} /\ \A i \in 1 .. k - 1 : t[i] = s[i + 1]
  OBVIOUS
<1>2. \A k \in 1 .. n : ControlAt(t, base1, k, c) <=> ControlAt(s, base, k + 1, c)
  BY <1>1, ControlTail
<1>3. \A k \in 1 .. n : DataFor(t, base1, k, c) <=> DataFor(s, base, k + 1, c)
  BY <1>2 DEF DataFor
<1>4. DataFor(s, base, 1, c) <=> s[1].type = "data" /\ base = c
  BY ControlFirst DEF DataFor
<1>5. PICK k \in 0 .. n + 1 :
        /\ \A i \in k + 1 .. n + 1 : ~DataFor(s, base, i, c)
        /\ \/ k = 0 /\ now = f
           \/ k # 0 /\ DataFor(s, base, k, c) /\ Nearest(s[k].value) = f
  <2>1. CASE now = f /\ \A i \in 1 .. n + 1 : ~DataFor(s, base, i, c)
    <3>1. 0 \in 0 .. n + 1 /\ \A i \in 0 + 1 .. n + 1 : ~DataFor(s, base, i, c)
      BY <2>1
    <3> QED
      BY <3>1, <2>1
  <2>2. CASE \E k \in 1 .. n + 1 :
               /\ DataFor(s, base, k, c) /\ Nearest(s[k].value) = f
               /\ \A i \in k + 1 .. n + 1 : ~DataFor(s, base, i, c)
    <3>1. \A k \in 1 .. n + 1 : k \in 0 .. n + 1 /\ k # 0
      OBVIOUS
    <3> QED
      BY <2>2, <3>1
  <2> QED
    BY <2>1, <2>2 DEF WillBe
<1>6. CASE k \in 2 .. n + 1
  <2>1. k - 1 \in 1 .. n /\ t[k - 1] = s[k] /\ (k - 1) + 1 = k /\ k # 0
    BY <1>6
  <2>2. DataFor(t, base1, k - 1, c) /\ Nearest(t[k - 1].value) = f
    BY <2>1, <1>3, <1>5
  <2>3. \A i \in (k - 1) + 1 .. n : i \in 1 .. n /\ i + 1 \in k + 1 .. n + 1
    BY <1>6
  <2>4. \A i \in (k - 1) + 1 .. n : ~DataFor(t, base1, i, c)
    BY <2>3, <1>3, <1>5
  <2> QED
    BY <2>1, <2>2, <2>4 DEF WillBe
<1>7. CASE k \in {0, 1}
  <2>1. \A i \in 1 .. n : i + 1 \in k + 1 .. n + 1
    BY <1>7
  <2>2. \A i \in 1 .. n : ~DataFor(t, base1, i, c)
    BY <2>1, <1>3, <1>5
  <2>3. now1 = f
    <3>1. CASE k = 1
      BY <3>1, <1>4, <1>5
    <3>2. CASE k = 0
      <4>1. 1 \in k + 1 .. n + 1
        BY <3>2
      <4> QED
        BY <4>1, <3>2, <1>4, <1>5
    <3> QED
      BY <3>1, <3>2, <1>7
  <2> QED
    BY <2>2, <2>3 DEF WillBe
<1>8. k \in {0, 1} \/ k \in 2 .. n + 1
  OBVIOUS
<1> QED
  BY <1>6, <1>7, <1>8
-----------------------------------------------------------------------------
(* The negotiation. *)

LEMMA NegotiationInit == Init => NegotiationInv
<1> SUFFICES ASSUME Init
             PROVE  NegotiationInv
  OBVIOUS
<1>1. Len(events) = 0 /\ 1 .. 0 = {}
  BY DEF Init
<1>2. \A c \in Controls : negotiated[c] = sent[c]
  BY DEF Init
<1>3. xfer = NoXfer
  BY DEF Init
<1> QED
  BY <1>1, <1>2, <1>3 DEF NegotiationInv, WillBe

(* The program processes an event. *)
LEMMA NegotiationDequeued ==
  ASSUME TypeOK, EventAtHand, NegotiationInv, NEW type, Dequeue(type),
         \A c \in Controls :
           control' = c <=> \/ events[1].type = "setup" /\ events[1].what = c
                            \/ events[1].type # "setup" /\ control = c,
         \A c \in Controls :
           \/ /\ events[1].type = "data" /\ control = c
              /\ negotiated'[c] = Nearest(events[1].value)
           \/ ~(events[1].type = "data" /\ control = c) /\ negotiated'[c] = negotiated[c],
         xfer' # NoXfer => xfer # NoXfer /\ xfer'[1] = xfer[1],
         sent' = sent
  PROVE  NegotiationInv'
<1> DEFINE n == Len(events')
<1>1. /\ n \in Nat /\ Len(events) = n + 1
      /\ \A k \in 1 .. n : events'[k] = events[k + 1]
  <2>1. events' \in Seq(Event) /\ Len(events) \in Nat /\ Len(events') = Len(events) - 1
    BY Dequeued
  <2>2. Len(events') \in Nat
    BY <2>1, LenProperties
  <2> QED
    BY <2>1, <2>2, Dequeued
<1> HIDE DEF n
<1>2. \A k \in 1 .. n + 1 : k \in Nat \ {0} /\ \A i \in 1 .. k - 1 : events'[i] = events[i + 1]
  BY <1>1
<1>3. \A c \in Controls, k \in 1 .. n + 1 :
        ControlAt(events', control', k, c) <=> ControlAt(events, control, k + 1, c)
  <2> SUFFICES ASSUME NEW c \in Controls, NEW k \in 1 .. n + 1
               PROVE  ControlAt(events', control', k, c) <=> ControlAt(events, control, k + 1, c)
    OBVIOUS
  <2>1. k \in Nat \ {0} /\ \A i \in 1 .. k - 1 : events'[i] = events[i + 1]
    BY <1>2
  <2>2. control' = c <=> \/ events[1].type = "setup" /\ events[1].what = c
                         \/ events[1].type # "setup" /\ control = c
    OBVIOUS
  <2> QED
    BY ONLY <2>1, <2>2, ControlTail
<1>4. xfer' # NoXfer => ControlAt(events', control', n + 1, xfer'[1])
  <2> SUFFICES ASSUME xfer' # NoXfer
               PROVE  ControlAt(events', control', n + 1, xfer'[1])
    OBVIOUS
  <2>1. xfer'[1] = xfer[1] /\ xfer[1] \in Controls
    BY DEF TypeOK
  <2>2. ControlAt(events, control, (n + 1) + 1, xfer[1])
    BY <1>1 DEF NegotiationInv
  <2>3. n + 1 \in 1 .. n + 1
    BY <1>1
  <2> QED
    BY <2>1, <2>2, <2>3, <1>3
<1>5. \A k \in 1 .. n :
        events'[k].type = "data" => \E c \in Controls : ControlAt(events', control', k, c)
  <2> SUFFICES ASSUME NEW k \in 1 .. n, events'[k].type = "data"
               PROVE  \E c \in Controls : ControlAt(events', control', k, c)
    OBVIOUS
  <2>1. k + 1 \in 1 .. Len(events) /\ k \in 1 .. n + 1 /\ events[k + 1].type = "data"
    BY <1>1
  <2>2. PICK c \in Controls : ControlAt(events, control, k + 1, c)
    BY <2>1 DEF NegotiationInv
  <2> QED
    BY <2>1, <2>2, <1>3
<1>6. \A c \in Controls : WillBe(events', control', negotiated'[c], c, sent'[c])
  <2> SUFFICES ASSUME NEW c \in Controls
               PROVE  WillBe(events', control', negotiated'[c], c, sent[c])
    OBVIOUS
  <2>1. WillBe(events, control, negotiated[c], c, sent[c])
    BY DEF NegotiationInv
  <2>2. Len(events') = n
    BY DEF n
  <2>3. control' = c <=> \/ events[1].type = "setup" /\ events[1].what = c
                         \/ events[1].type # "setup" /\ control = c
    OBVIOUS
  <2>4. \/ /\ events[1].type = "data" /\ control = c
           /\ negotiated'[c] = Nearest(events[1].value)
        \/ ~(events[1].type = "data" /\ control = c) /\ negotiated'[c] = negotiated[c]
    OBVIOUS
  <2> QED
    BY ONLY <1>1, <2>1, <2>2, <2>3, <2>4, WillBeTail
<1> QED
  BY <1>4, <1>5, <1>6 DEF NegotiationInv, n

(* The driver reports an event. *)
LEMMA NegotiationReported ==
  ASSUME TypeOK, NegotiationInv, NEW event \in Event, Report(event),
         control' = control, negotiated' = negotiated,
         xfer' # NoXfer =>
           \/ event.type = "setup" /\ event.what = xfer'[1]
           \/ event.type # "setup" /\ xfer' = xfer,
         event.type = "data" => xfer # NoXfer,
         \A c \in Controls :
           \/ event.type = "data" /\ xfer[1] = c /\ sent'[c] = Nearest(event.value)
           \/ ~(event.type = "data" /\ xfer[1] = c) /\ sent'[c] = sent[c]
  PROVE  NegotiationInv'
<1> DEFINE n == Len(events)
<1>1. /\ n \in Nat /\ Len(events') = n + 1 /\ events'[n + 1] = event
      /\ \A k \in 1 .. n : events'[k] = events[k]
  BY Reported
<1>0. n = Len(events)
  OBVIOUS
<1> HIDE DEF n
<1>2. \A k \in 1 .. n + 1 : k \in Nat \ {0} /\ \A i \in 1 .. k - 1 : events'[i] = events[i]
  BY <1>1
<1>3. \A k \in 1 .. n + 1 :
        \A c : ControlAt(events', control', k, c) <=> ControlAt(events, control, k, c)
  BY <1>2, ControlSame
<1>4. n + 1 \in 1 .. n + 1 /\ n + 1 \in Nat \ {0} /\ \A k \in 1 .. n + 1 : k \in 1 .. n \/ k = n + 1
  BY <1>1
<1>5. event.type = "data" => xfer[1] \in Controls /\ ControlAt(events, control, n + 1, xfer[1])
  BY <1>0 DEF NegotiationInv, TypeOK
<1>6. xfer' # NoXfer => ControlAt(events', control', (n + 1) + 1, xfer'[1])
  <2> SUFFICES ASSUME xfer' # NoXfer
               PROVE  ControlAt(events', control', (n + 1) + 1, xfer'[1])
    OBVIOUS
  <2>1. CASE event.type = "setup" /\ event.what = xfer'[1]
    BY <2>1, <1>1, <1>4, ControlNext
  <2>2. CASE event.type # "setup" /\ xfer' = xfer
    <3>1. ControlAt(events, control, n + 1, xfer'[1])
      BY <2>2, <1>0 DEF NegotiationInv
    <3>2. ControlAt(events', control', n + 1, xfer'[1])
      BY <3>1, <1>3, <1>4
    <3> QED
      BY <2>2, <3>2, <1>1, <1>4, ControlNext
  <2> QED
    BY <2>1, <2>2
<1>7. \A k \in 1 .. n + 1 :
        events'[k].type = "data" => \E c \in Controls : ControlAt(events', control', k, c)
  <2> SUFFICES ASSUME NEW k \in 1 .. n + 1, events'[k].type = "data"
               PROVE  \E c \in Controls : ControlAt(events', control', k, c)
    OBVIOUS
  <2>1. CASE k \in 1 .. n
    <3>1. PICK c \in Controls : ControlAt(events, control, k, c)
      BY <2>1, <1>0, <1>1 DEF NegotiationInv
    <3> QED
      BY <3>1, <1>3
  <2>2. CASE k = n + 1
    BY <2>2, <1>1, <1>3, <1>4, <1>5
  <2> QED
    BY <2>1, <2>2, <1>4
<1>8. \A c \in Controls : WillBe(events', control', negotiated'[c], c, sent'[c])
  <2> SUFFICES ASSUME NEW c \in Controls
               PROVE  WillBe(events', control, negotiated[c], c, sent'[c])
    OBVIOUS
  <2>1. WillBe(events, control, negotiated[c], c, sent[c])
    BY DEF NegotiationInv
  <2>2. event.type = "data" => (ControlAt(events, control, n + 1, c) <=> xfer[1] = c)
    BY <1>4, <1>5, ControlOne
  <2>3. \/ /\ event.type = "data" /\ ControlAt(events, control, n + 1, c)
           /\ sent'[c] = Nearest(event.value)
        \/ ~(event.type = "data" /\ ControlAt(events, control, n + 1, c)) /\ sent'[c] = sent[c]
    BY <2>2
  <2> QED
    BY <1>0, <1>1, <2>1, <2>3, WillBeAppend
<1> QED
  BY <1>1, <1>6, <1>7, <1>8 DEF NegotiationInv

LEMMA NegotiationStep == TypeOK /\ EventAtHand /\ NegotiationInv /\ [Next]_vars => NegotiationInv'
<1> SUFFICES ASSUME TypeOK, EventAtHand, NegotiationInv, [Next]_vars
             PROVE  NegotiationInv'
  OBVIOUS
<1> USE DEF loop, device, memory, driver, host
<1>1. CASE UNCHANGED <<events, control, negotiated, sent>> /\ xfer' \in {NoXfer, xfer}
  BY <1>1 DEF NegotiationInv
<1>2. CASE Setup
  <2>1. Dequeue("setup") /\ sent' = sent /\ negotiated' = negotiated
    BY <1>2 DEF Setup
  <2>2. events[1] = Head(events) /\ events[1] \in Event /\ events[1].type = "setup"
    BY <2>1, Dequeued
  <2>3. \A c \in Controls : control' = c <=> events[1].what = c
    BY <1>2, <2>2 DEF Setup, Controls
  <2>4. xfer' # NoXfer => xfer # NoXfer /\ xfer'[1] = xfer[1]
    BY <1>2 DEF Setup, Responds, NoXfer, Controls
  <2>5. \A c \in Controls :
          control' = c <=> \/ events[1].type = "setup" /\ events[1].what = c
                           \/ events[1].type # "setup" /\ control = c
    BY <2>2, <2>3
  <2>6. \A c \in Controls :
          ~(events[1].type = "data" /\ control = c) /\ negotiated'[c] = negotiated[c]
    BY <2>1, <2>2
  <2> QED
    BY <2>1, <2>4, <2>5, <2>6, NegotiationDequeued
<1>3. CASE DataProbe
  <2>1. Dequeue("data") /\ sent' = sent /\ xfer' = xfer /\ control' = control /\ control = "probe"
    BY <1>3 DEF DataProbe
  <2>2. events[1] = Head(events) /\ events[1].type = "data"
    BY <2>1, Dequeued
  <2>3. negotiated'["probe"] = Nearest(events[1].value) /\ negotiated'["commit"] = negotiated["commit"]
    BY <1>3, <2>2 DEF DataProbe, TypeOK, Controls
  <2> QED
    BY <2>1, <2>2, <2>3, NegotiationDequeued DEF Controls
<1>4. CASE DataCommit
  <2>1. Dequeue("data") /\ sent' = sent /\ xfer' = xfer /\ control' = control /\ control = "commit"
    BY <1>4 DEF DataCommit
  <2>2. events[1] = Head(events) /\ events[1].type = "data"
    BY <2>1, Dequeued
  <2>3. negotiated'["commit"] = Nearest(events[1].value) /\ negotiated'["probe"] = negotiated["probe"]
    BY <1>4, <2>2 DEF DataCommit, TypeOK, Controls
  <2> QED
    BY <2>1, <2>2, <2>3, NegotiationDequeued DEF Controls
<1>5. CASE StreamOn \/ StreamOnBusy \/ StreamOff
  <2>1. PICK type \in {"streamon", "streamoff"} :
          /\ Dequeue(type)
          /\ control' = control /\ negotiated' = negotiated /\ sent' = sent /\ xfer' = xfer
    BY <1>5 DEF StreamOn, StreamOnBusy, StreamOff
  <2>2. events[1].type = type
    BY <2>1, Dequeued
  <2>3. events[1].type # "setup" /\ events[1].type # "data"
    BY <2>2
  <2> QED
    BY <2>1, <2>3, NegotiationDequeued
<1>6. CASE HostAsks
  <2>1. PICK what \in Controls \cup {"other"} :
          /\ Report([type |-> "setup", what |-> what])
          /\ xfer' = IF what \in Controls THEN <<what, "setup">> ELSE NoXfer
    BY <1>6 DEF HostAsks
  <2> DEFINE event == [type |-> "setup", what |-> what]
  <2>2. event \in Event /\ event.type = "setup" /\ event.what = what /\ Report(event)
    BY <2>1, EventTypes
  <2>3. control' = control /\ negotiated' = negotiated /\ sent' = sent
    BY <1>6 DEF HostAsks
  <2> HIDE DEF event
  <2>4. xfer' # NoXfer => event.what = xfer'[1]
    BY <2>1, <2>2
  <2> QED
    BY <2>2, <2>3, <2>4, NegotiationReported
<1>7. CASE HostSendsData
  <2>1. PICK value \in Asked :
          /\ Report([type |-> "data", value |-> value])
          /\ sent' = [sent EXCEPT ![xfer[1]] = Nearest(value)]
    BY <1>7 DEF HostSendsData
  <2> DEFINE event == [type |-> "data", value |-> value]
  <2>2. event \in Event /\ event.type = "data" /\ event.value = value /\ Report(event)
    BY <2>1, EventTypes
  <2>3. control' = control /\ negotiated' = negotiated /\ xfer' = NoXfer /\ xfer # NoXfer
    BY <1>7 DEF HostSendsData, NoXfer
  <2>4. \A c \in Controls : sent'[c] = IF xfer[1] = c THEN Nearest(value) ELSE sent[c]
    BY <2>1 DEF TypeOK
  <2> HIDE DEF event
  <2>5. \A c \in Controls :
          \/ event.type = "data" /\ xfer[1] = c /\ sent'[c] = Nearest(event.value)
          \/ ~(event.type = "data" /\ xfer[1] = c) /\ sent'[c] = sent[c]
    BY <2>2, <2>4
  <2> QED
    BY <2>2, <2>3, <2>5, NegotiationReported
<1>8. CASE HostStreams
  <2> DEFINE event == [type |-> IF streaming THEN "streamoff" ELSE "streamon"]
  <2>1. event \in Event /\ event.type \in {"streamon", "streamoff"} /\ Report(event)
    BY <1>8, EventTypes DEF HostStreams
  <2>2. control' = control /\ negotiated' = negotiated /\ xfer' = xfer /\ sent' = sent
    BY <1>8 DEF HostStreams
  <2> HIDE DEF event
  <2>3. event.type # "setup" /\ event.type # "data"
    BY <2>1
  <2> QED
    BY <2>1, <2>2, <2>3, NegotiationReported
<1>9. CASE Select \/ Refill \/ FillUnmapped \/ NothingToRefill \/ Dead
             \/ FrameSent \/ HostUnplugged \/ UNCHANGED vars
  BY <1>1, <1>9 DEF Select, Refill, FillUnmapped, NothingToRefill, Dead, FrameSent,
       HostUnplugged, vars
<1> QED
  BY <1>2, <1>3, <1>4, <1>5, <1>6, <1>7, <1>8, <1>9 DEF Next, Gadget, Process, Outside

LEMMA Agree == TypeOK /\ NegotiationInv => HostAndDeviceAgree
<1> SUFFICES ASSUME TypeOK, NegotiationInv, events = <<>>
             PROVE  negotiated = sent
  BY DEF HostAndDeviceAgree
<1>1. Len(events) = 0 /\ 1 .. 0 = {}
  OBVIOUS
<1>2. \A c \in Controls : negotiated[c] = sent[c]
  BY <1>1 DEF NegotiationInv, WillBe
<1> QED
  BY <1>2 DEF TypeOK

(* Once all events are processed, the device has what the host sent last. *)
THEOREM Negotiated == Spec => []HostAndDeviceAgree
<1> DEFINE Inv == TypeInv /\ NegotiationInv
<1>1. Init => Inv
  BY TypeInit, NegotiationInit
<1>2. Inv /\ [Next]_vars => Inv'
  BY TypeStep, NegotiationStep DEF TypeInv
<1>3. Inv => HostAndDeviceAgree
  BY Agree DEF TypeInv
<1> QED
  BY <1>1, <1>2, <1>3, PTL DEF Spec

(* The program always waits for the data that comes: none is ignored. *)
THEOREM DataAwaited ==
  Spec => [](pc = "event" /\ Head(events).type = "data" => control \in Controls)
<1> DEFINE Inv == TypeInv /\ NegotiationInv
<1>1. Init => Inv
  BY TypeInit, NegotiationInit
<1>2. Inv /\ [Next]_vars => Inv'
  BY TypeStep, NegotiationStep DEF TypeInv
<1>3. Inv => (pc = "event" /\ Head(events).type = "data" => control \in Controls)
  <2> SUFFICES ASSUME TypeOK, EventAtHand, NegotiationInv, pc = "event", Head(events).type = "data"
               PROVE  control \in Controls
    BY DEF TypeInv
  <2>1. events \in Seq(Event) /\ events # <<>>
    BY DEF TypeOK, EventAtHand
  <2>2. Head(events) = events[1] /\ 1 \in 1 .. Len(events)
    BY <2>1, EmptySeq, LenProperties
  <2>3. PICK c \in Controls : ControlAt(events, control, 1, c)
    BY <2>2 DEF NegotiationInv
  <2> QED
    BY <2>3, ControlFirst
<1> QED
  BY <1>1, <1>2, <1>3, PTL DEF Spec
-----------------------------------------------------------------------------
(* Whether the driver streams at a place, event by event. *)

LEMMA OffNext ==
  ASSUME NEW s, NEW base, NEW k \in Nat \ {0},
         \/ s[k].type = "streamoff"
         \/ s[k].type # "streamon" /\ OffAt(s, base, k)
  PROVE  OffAt(s, base, k + 1)
<1>1. (k + 1) - 1 = k /\ k \in 1 .. k /\ k + 1 .. k = {} /\ \A i \in 1 .. k : i \in 1 .. k - 1 \/ i = k
  OBVIOUS
<1>2. \A i \in 1 .. k - 1 : i \in 1 .. k
  OBVIOUS
<1>3. CASE s[k].type = "streamoff"
  BY <1>1, <1>3 DEF OffAt
<1>4. CASE s[k].type # "streamon" /\ OffAt(s, base, k)
  <2>1. CASE ~base /\ \A i \in 1 .. k - 1 : s[i].type # "streamon"
    BY <2>1, <1>1, <1>4 DEF OffAt
  <2>2. CASE \E j \in 1 .. k - 1 : /\ s[j].type = "streamoff"
                                   /\ \A i \in j + 1 .. k - 1 : s[i].type # "streamon"
    <3>1. PICK j \in 1 .. k - 1 : /\ s[j].type = "streamoff"
                                  /\ \A i \in j + 1 .. k - 1 : s[i].type # "streamon"
      BY <2>2
    <3>2. \A i \in j + 1 .. k : i \in j + 1 .. k - 1 \/ i = k
      OBVIOUS
    <3>3. \A i \in j + 1 .. k : s[i].type # "streamon"
      BY <3>1, <3>2, <1>4
    <3> QED
      BY <3>1, <3>3, <1>1, <1>2 DEF OffAt
  <2> QED
    BY <1>4, <2>1, <2>2 DEF OffAt
<1> QED
  BY <1>3, <1>4

LEMMA OffSame ==
  ASSUME NEW s, NEW t, NEW base, NEW k \in Nat \ {0}, \A i \in 1 .. k - 1 : t[i] = s[i]
  PROVE  OffAt(t, base, k) <=> OffAt(s, base, k)
<1>1. \A j \in 1 .. k - 1 : \A i \in j + 1 .. k - 1 : t[i] = s[i]
  OBVIOUS
<1> QED
  BY <1>1 DEF OffAt

(* The first event is processed. *)
LEMMA OffTail ==
  ASSUME NEW s, NEW t, NEW base, NEW base1, NEW k \in Nat \ {0},
         \A i \in 1 .. k - 1 : t[i] = s[i + 1],
         s[1].type = "streamoff" \/ (s[1].type # "streamon" /\ ~base) => ~base1,
         OffAt(s, base, k + 1)
  PROVE  OffAt(t, base1, k)
<1>1. /\ (k + 1) - 1 = k
      /\ \A i \in 1 .. k - 1 : i + 1 \in 2 .. k /\ i + 1 \in 1 .. k /\ t[i] = s[i + 1]
      /\ 1 \in 1 .. k /\ \A i \in 1 .. k : i = 1 \/ (i \in 2 .. k /\ i - 1 \in 1 .. k - 1 /\ (i - 1) + 1 = i)
  OBVIOUS
<1>2. CASE ~base /\ \A i \in 1 .. k : s[i].type # "streamon"
  BY <1>1, <1>2 DEF OffAt
<1>3. CASE \E j \in 1 .. k : /\ s[j].type = "streamoff"
                             /\ \A i \in j + 1 .. k : s[i].type # "streamon"
  <2>1. PICK j \in 1 .. k : /\ s[j].type = "streamoff"
                            /\ \A i \in j + 1 .. k : s[i].type # "streamon"
    BY <1>3
  <2>2. CASE j = 1
    <3>1. \A i \in 1 .. k - 1 : t[i].type # "streamon"
      BY <2>1, <2>2, <1>1
    <3> QED
      BY <3>1, <2>1, <2>2 DEF OffAt
  <2>3. CASE j # 1
    <3>1. j - 1 \in 1 .. k - 1 /\ t[j - 1] = s[j]
      BY <2>3, <1>1
    <3>2. \A i \in (j - 1) + 1 .. k - 1 : i \in 1 .. k - 1 /\ i + 1 \in j + 1 .. k
      BY <3>1
    <3>3. \A i \in (j - 1) + 1 .. k - 1 : t[i].type # "streamon"
      BY <2>1, <3>2, <1>1
    <3> QED
      BY <2>1, <3>1, <3>3 DEF OffAt
  <2> QED
    BY <2>2, <2>3
<1> QED
  BY <1>1, <1>2, <1>3 DEF OffAt
-----------------------------------------------------------------------------
(* The frames. *)

(* A commit meets a driver that holds no buffer. *)
CommitsWhileOff ==
  /\ ~streaming => OffAt(events, Held, Len(events) + 1)
  /\ \A k \in 1 .. Len(events) :
       DataFor(events, control, k, "commit") => OffAt(events, Held, k)

(* The buffers hold frames of the one format, and are large enough. *)
OneFormat ==
  /\ image = format
  /\ Held => (format \in Large => large)
  /\ \A k \in 1 .. Len(queue) : got[queue[k]] = format

LEMMA FrameParts == FrameInv <=> (Orderly => OneFormat /\ CommitsWhileOff)
  BY DEF FrameInv, OneFormat, CommitsWhileOff

LEMMA CommitsDequeued ==
  ASSUME TypeOK, EventAtHand, CommitsWhileOff, NEW type, Dequeue(type),
         control' = "commit" <=> \/ type = "setup" /\ events[1].what = "commit"
                                 \/ type # "setup" /\ control = "commit",
         type = "streamoff" \/ (type # "streamon" /\ ~Held) => ~Held',
         streaming' = streaming
  PROVE  CommitsWhileOff'
<1> DEFINE n == Len(events')
<1>1. /\ n \in Nat /\ Len(events) = n + 1 /\ events[1].type = type
      /\ \A k \in 1 .. n : events'[k] = events[k + 1]
  <2>1. events' \in Seq(Event) /\ Len(events) \in Nat /\ Len(events') = Len(events) - 1
    BY Dequeued
  <2>2. Len(events') \in Nat
    BY <2>1, LenProperties
  <2> QED
    BY <2>1, <2>2, Dequeued
<1> HIDE DEF n
<1>2. \A k \in 1 .. n + 1 : k \in Nat \ {0} /\ \A i \in 1 .. k - 1 : events'[i] = events[i + 1]
  BY <1>1
<1>3. \A k \in 1 .. n + 1 : OffAt(events, Held, k + 1) => OffAt(events', Held', k)
  <2> SUFFICES ASSUME NEW k \in 1 .. n + 1, OffAt(events, Held, k + 1)
               PROVE  OffAt(events', Held', k)
    OBVIOUS
  <2>1. k \in Nat \ {0} /\ \A i \in 1 .. k - 1 : events'[i] = events[i + 1]
    BY <1>2
  <2>2. events[1].type = "streamoff" \/ (events[1].type # "streamon" /\ ~Held) => ~Held'
    BY <1>1
  <2>3. OffAt(events, Held, k + 1)
    OBVIOUS
  <2> QED
    BY ONLY <2>1, <2>2, <2>3, OffTail
<1>4. \A k \in 1 .. n : ControlAt(events', control', k, "commit") => ControlAt(events, control, k + 1, "commit")
  <2> SUFFICES ASSUME NEW k \in 1 .. n
               PROVE  ControlAt(events', control', k, "commit") <=> ControlAt(events, control, k + 1, "commit")
    OBVIOUS
  <2>0. k \in 1 .. n + 1
    BY <1>1
  <2>1. k \in Nat \ {0} /\ \A i \in 1 .. k - 1 : events'[i] = events[i + 1]
    BY <1>2, <2>0
  <2>2. control' = "commit" <=> \/ events[1].type = "setup" /\ events[1].what = "commit"
                                \/ events[1].type # "setup" /\ control = "commit"
    BY <1>1
  <2> QED
    BY ONLY <2>1, <2>2, ControlTail
<1>5. ~streaming' => OffAt(events', Held', n + 1)
  <2> SUFFICES ASSUME ~streaming'
               PROVE  OffAt(events', Held', n + 1)
    OBVIOUS
  <2>1. OffAt(events, Held, (n + 1) + 1)
    BY <1>1 DEF CommitsWhileOff
  <2>2. n + 1 \in 1 .. n + 1
    BY <1>1
  <2> QED
    BY <2>1, <2>2, <1>3
<1>6. \A k \in 1 .. n : DataFor(events', control', k, "commit") => OffAt(events', Held', k)
  <2> SUFFICES ASSUME NEW k \in 1 .. n, DataFor(events', control', k, "commit")
               PROVE  OffAt(events', Held', k)
    OBVIOUS
  <2>1. k + 1 \in 1 .. Len(events) /\ k \in 1 .. n + 1 /\ events'[k] = events[k + 1]
    BY <1>1
  <2>2. DataFor(events, control, k + 1, "commit")
    BY <2>1, <1>4 DEF DataFor
  <2> QED
    BY <2>1, <2>2, <1>3 DEF CommitsWhileOff
<1> QED
  BY <1>5, <1>6 DEF CommitsWhileOff, n

LEMMA CommitsReported ==
  ASSUME TypeOK, CommitsWhileOff, NEW event \in Event, Report(event),
         Held' = Held, control' = control,
         ~streaming' => \/ event.type = "streamoff"
                        \/ event.type # "streamon" /\ ~streaming,
         event.type = "data" /\ ControlAt(events, control, Len(events) + 1, "commit") => ~streaming
  PROVE  CommitsWhileOff'
<1> DEFINE n == Len(events)
<1>1. /\ n \in Nat /\ Len(events') = n + 1 /\ events'[n + 1] = event
      /\ \A k \in 1 .. n : events'[k] = events[k]
  BY Reported
<1>0. n = Len(events)
  OBVIOUS
<1> HIDE DEF n
<1>2. \A k \in 1 .. n + 1 : k \in Nat \ {0} /\ \A i \in 1 .. k - 1 : events'[i] = events[i]
  BY <1>1
<1>3. \A k \in 1 .. n + 1 :
        /\ ControlAt(events', control, k, "commit") <=> ControlAt(events, control, k, "commit")
        /\ OffAt(events', Held, k) <=> OffAt(events, Held, k)
  BY <1>2, ControlSame, OffSame
<1>4. n + 1 \in 1 .. n + 1 /\ n + 1 \in Nat \ {0} /\ \A k \in 1 .. n + 1 : k \in 1 .. n \/ k = n + 1
  BY <1>1
<1>5. ~streaming => OffAt(events', Held, n + 1)
  BY <1>0, <1>3, <1>4 DEF CommitsWhileOff
<1>6. ~streaming' => OffAt(events', Held, (n + 1) + 1)
  BY <1>1, <1>4, <1>5, OffNext
<1>7. \A k \in 1 .. n + 1 : DataFor(events', control, k, "commit") => OffAt(events', Held, k)
  <2> SUFFICES ASSUME NEW k \in 1 .. n + 1, DataFor(events', control, k, "commit")
               PROVE  OffAt(events', Held, k)
    OBVIOUS
  <2>1. events'[k].type = "data" /\ ControlAt(events, control, k, "commit")
    BY <1>3 DEF DataFor
  <2>2. CASE k \in 1 .. n
    BY <2>1, <2>2, <1>0, <1>1, <1>3 DEF DataFor, CommitsWhileOff
  <2>3. CASE k = n + 1
    BY <2>1, <2>3, <1>0, <1>1, <1>5
  <2> QED
    BY <2>2, <2>3, <1>4
<1> QED
  BY <1>1, <1>6, <1>7 DEF CommitsWhileOff

LEMMA FrameInit == Init => FrameInv
<1> SUFFICES ASSUME Init
             PROVE  FrameInv
  OBVIOUS
<1>1. Len(events) = 0 /\ Len(queue) = 0 /\ 1 .. 0 = {} /\ ~Held /\ image = format
  BY DEF Init, Held
<1>2. OffAt(events, Held, Len(events) + 1)
  BY <1>1 DEF OffAt
<1> QED
  BY <1>1, <1>2 DEF FrameInv

LEMMA FrameStep ==
  TypeOK /\ EventAtHand /\ NegotiationInv /\ BufferInv /\ FrameInv /\ [Next]_vars => FrameInv'
<1> SUFFICES ASSUME TypeOK, EventAtHand, NegotiationInv, BufferInv, FrameInv, [Next]_vars,
                    Orderly'
             PROVE  OneFormat' /\ CommitsWhileOff'
  BY FrameParts DEF FrameInv, OneFormat, CommitsWhileOff, DataFor
<1> USE DEF loop, device, memory, driver, host
<1>1. odd \subseteq odd'
  BY DEF Next, Gadget, Process, Outside, Select, Setup, DataProbe, DataCommit, StreamOn, StreamOnBusy,
     StreamOff, Refill, FillUnmapped, NothingToRefill, Dead, FrameSent, HostAsks, HostSendsData,
     HostStreams, HostUnplugged, Fail, Odd, vars
<1>2. Orderly /\ OneFormat /\ CommitsWhileOff
  BY <1>1, FrameParts DEF Orderly
<1>3. CASE UNCHANGED <<events, control, on, streaming, image, format, large, queue, got>>
  BY <1>2, <1>3 DEF OneFormat, CommitsWhileOff, Held
<1>4. CASE Setup
  <2>1. Dequeue("setup") /\ Held' = Held /\ streaming' = streaming
    BY <1>4 DEF Setup, Held
  <2>2. Head(events) = events[1]
    BY <2>1, Dequeued
  <2>3. control' = "commit" <=> events[1].what = "commit"
    BY <1>4, <2>2 DEF Setup, Controls
  <2>4. CommitsWhileOff'
    BY <1>2, <2>1, <2>3, CommitsDequeued
  <2> QED
    BY <1>2, <1>4, <2>1, <2>4 DEF Setup, OneFormat
<1>5. CASE DataProbe
  <2>1. Dequeue("data") /\ Held' = Held /\ streaming' = streaming /\ control' = control
    BY <1>5 DEF DataProbe, Held
  <2>2. CommitsWhileOff'
    BY <1>2, <2>1, CommitsDequeued
  <2> QED
    BY <1>2, <1>5, <2>1, <2>2 DEF DataProbe, OneFormat
<1>6. CASE DataCommit
  <2>1. Dequeue("data") /\ Held' = Held /\ streaming' = streaming /\ control' = control /\ control = "commit"
    BY <1>6 DEF DataCommit, Held
  <2>2. CommitsWhileOff'
    BY <1>2, <2>1, CommitsDequeued
  <2>3. 1 \in 1 .. Len(events) /\ DataFor(events, control, 1, "commit")
    BY <2>1, Dequeued, ControlFirst DEF DataFor
  <2>4. ~Held
    <3>1. OffAt(events, Held, 1)
      BY <1>2, <2>3 DEF CommitsWhileOff
    <3>2. \A j : ~(j \in 1 .. 1 - 1)
      OBVIOUS
    <3> QED
      BY <3>1, <3>2 DEF OffAt
  <2>5. Len(queue') = 0 /\ 1 .. 0 = {} /\ ~Held'
    BY <1>6, <2>1, <2>4 DEF DataCommit, Held
  <2>6. image' = format'
    BY <1>6 DEF DataCommit, Fail, Odd, Orderly
  <2> QED
    BY <2>2, <2>5, <2>6 DEF OneFormat
<1>7. CASE StreamOn
  <2>1. Dequeue("streamon") /\ streaming' = streaming /\ control' = control
    BY <1>7 DEF StreamOn
  <2>2. CommitsWhileOff'
    BY <1>2, <2>1, CommitsDequeued
  <2>3. image' = format' /\ (format' \in Large => large')
    BY <1>2, <1>7 DEF StreamOn, OneFormat
  <2>4. PICK n \in 0 .. nbufs' :
          /\ queue' = [k \in 1 .. n |-> k]
          /\ Fail((IF nbufs' < NumBufs THEN {"buffers"} ELSE {}) \cup
                  (IF n < nbufs' THEN {"qbuf"} ELSE {}) \cup
                  (IF \E i \in 1 .. n : got'[i] # format THEN {"fill"} ELSE {}) \cup
                  (IF on' THEN {} ELSE {"start"}))
    BY <1>7 DEF StreamOn
  <2>5. \A i \in 1 .. n : got'[i] = format
    BY <2>4 DEF Fail, Odd, Orderly
  <2>6. Len(queue') = n /\ \A k \in 1 .. n : queue'[k] = k
    <3>1. n \in Nat
      BY <1>7, GadgetAssumption DEF StreamOn
    <3>2. Len([k \in 1 .. n |-> k]) = n
      BY <3>1
    <3> QED
      BY <2>4, <3>2
  <2>7. \A k \in 1 .. Len(queue') : got'[queue'[k]] = format'
    BY <1>7, <2>5, <2>6 DEF StreamOn
  <2> QED
    BY <2>2, <2>3, <2>7 DEF OneFormat
<1>8. CASE StreamOnBusy
  <2>1. Dequeue("streamon") /\ Held' = Held /\ streaming' = streaming /\ control' = control
    BY <1>8 DEF StreamOnBusy, Held
  <2>2. CommitsWhileOff'
    BY <1>2, <2>1, CommitsDequeued
  <2> QED
    BY <1>2, <1>8, <2>1, <2>2 DEF StreamOnBusy, OneFormat
<1>9. CASE StreamOff
  <2>1. Dequeue("streamoff") /\ ~Held' /\ streaming' = streaming /\ control' = control
    BY <1>9 DEF StreamOff, Held
  <2>2. CommitsWhileOff'
    BY <1>2, <2>1, CommitsDequeued
  <2>3. Len(queue') = 0 /\ 1 .. 0 = {}
    BY <1>9 DEF StreamOff
  <2> QED
    BY <1>2, <1>9, <2>1, <2>2, <2>3 DEF StreamOff, OneFormat
<1>10. CASE Refill
  <2>0. Held /\ Held'
    BY <1>10 DEF Refill, BufferInv, Held
  <2>1. CommitsWhileOff'
    BY <1>2, <1>10, <2>0 DEF Refill, CommitsWhileOff
  <2>2. /\ queue \in Seq(Bufs) /\ done \in Seq(Bufs) /\ done # <<>>
        /\ Head(done) \in Bufs /\ Len(queue) \in Nat
    BY <1>10, LenProperties, HeadTailProperties DEF Refill, TypeOK
  <2>3. got' = [got EXCEPT ![Head(done)] = format]
    BY <1>10 DEF Refill, Fail, Odd, Orderly
  <2>4. \A b \in Bufs : got'[b] = IF b = Head(done) THEN format ELSE got[b]
    BY <2>3 DEF TypeOK
  <2>5. \A k \in 1 .. Len(queue) : queue[k] \in Bufs /\ got'[queue[k]] = format
    BY <1>2, <2>2, <2>4, ElementOfSeq DEF OneFormat
  <2>6. CASE queue' = queue
    BY <1>2, <1>10, <2>0, <2>1, <2>5, <2>6 DEF Refill, OneFormat
  <2>7. CASE queue' = Append(queue, Head(done))
    <3>1. /\ Len(queue') = Len(queue) + 1 /\ queue'[Len(queue) + 1] = Head(done)
          /\ \A k \in 1 .. Len(queue) : queue'[k] = queue[k]
      BY <2>2, <2>7, AppendProperties
    <3>2. \A k \in 1 .. Len(queue') : k \in 1 .. Len(queue) \/ k = Len(queue) + 1
      BY <2>2, <3>1
    <3>3. \A k \in 1 .. Len(queue') : got'[queue'[k]] = format
      BY <2>2, <2>4, <2>5, <3>1, <3>2
    <3> QED
      BY <1>2, <1>10, <2>0, <2>1, <3>3 DEF Refill, OneFormat
  <2> QED
    BY <1>10, <2>6, <2>7 DEF Refill
<1>11. CASE FrameSent
  <2>0. Held /\ Held'
    BY <1>11 DEF FrameSent, Held
  <2>1. CommitsWhileOff'
    BY <1>2, <1>11, <2>0 DEF FrameSent, CommitsWhileOff
  <2>2. queue \in Seq(Bufs) /\ queue # <<>> /\ queue' = Tail(queue)
    BY <1>11 DEF FrameSent, TypeOK
  <2>3. /\ Len(queue) \in Nat /\ Len(queue') = Len(queue) - 1
        /\ \A k \in 1 .. Len(queue') : queue'[k] = queue[k + 1]
    BY <2>2, LenProperties, HeadTailProperties
  <2>4. \A k \in 1 .. Len(queue') : k + 1 \in 1 .. Len(queue)
    BY <2>3
  <2>5. \A k \in 1 .. Len(queue') : got[queue'[k]] = format
    BY <1>2, <2>3, <2>4 DEF OneFormat
  <2> QED
    BY <1>2, <1>11, <2>0, <2>1, <2>5 DEF FrameSent, OneFormat
<1>12. CASE HostAsks
  <2>1. PICK what \in Controls \cup {"other"} : Report([type |-> "setup", what |-> what])
    BY <1>12 DEF HostAsks
  <2> DEFINE event == [type |-> "setup", what |-> what]
  <2>2. event \in Event /\ event.type = "setup" /\ Report(event)
    BY <2>1, EventTypes
  <2>3. Held' = Held /\ control' = control /\ streaming' = streaming
    BY <1>12 DEF HostAsks, Held
  <2> HIDE DEF event
  <2>4. CommitsWhileOff'
    BY <1>2, <2>2, <2>3, CommitsReported
  <2> QED
    BY <1>2, <1>12, <2>3, <2>4 DEF HostAsks, OneFormat
<1>13. CASE HostSendsData
  <2>1. PICK value \in Asked : Report([type |-> "data", value |-> value])
    BY <1>13 DEF HostSendsData
  <2> DEFINE event == [type |-> "data", value |-> value]
  <2>2. event \in Event /\ event.type = "data" /\ Report(event)
    BY <2>1, EventTypes
  <2>3. Held' = Held /\ control' = control /\ streaming' = streaming /\ xfer # NoXfer
    BY <1>13 DEF HostSendsData, NoXfer, Held
  <2> HIDE DEF event
  <2>4. ControlAt(events, control, Len(events) + 1, "commit") => ~streaming
    <3> SUFFICES ASSUME ControlAt(events, control, Len(events) + 1, "commit")
                 PROVE  ~streaming
      OBVIOUS
    <3>1. ControlAt(events, control, Len(events) + 1, xfer[1])
      BY <2>3 DEF NegotiationInv
    <3>2. Len(events) + 1 \in Nat \ {0}
      BY LenProperties DEF TypeOK
    <3>3. xfer[1] = "commit"
      BY <3>1, <3>2, ControlOne
    <3> QED
      BY <1>13, <3>3 DEF HostSendsData, Odd, Orderly
  <2>5. CommitsWhileOff'
    BY <1>2, <2>2, <2>3, <2>4, CommitsReported
  <2> QED
    BY <1>2, <1>13, <2>3, <2>5 DEF HostSendsData, OneFormat
<1>14. CASE HostStreams
  <2> DEFINE event == [type |-> IF streaming THEN "streamoff" ELSE "streamon"]
  <2>1. event \in Event /\ event.type = (IF streaming THEN "streamoff" ELSE "streamon") /\ Report(event)
    BY <1>14, EventTypes DEF HostStreams
  <2>2. Held' = Held /\ control' = control /\ streaming' = ~streaming
    BY <1>14 DEF HostStreams, Held
  <2> HIDE DEF event
  <2>3. ~streaming' => event.type = "streamoff"
    BY <2>1, <2>2
  <2>4. event.type # "data"
    BY <2>1
  <2>5. CommitsWhileOff'
    BY <1>2, <2>1, <2>2, <2>3, <2>4, CommitsReported
  <2> QED
    BY <1>2, <1>14, <2>2, <2>5 DEF HostStreams, OneFormat
<1>15. CASE HostUnplugged
  BY <1>15 DEF HostUnplugged, Odd, Orderly
<1>16. CASE Select \/ FillUnmapped \/ NothingToRefill \/ Dead \/ UNCHANGED vars
  BY <1>3, <1>16 DEF Select, FillUnmapped, NothingToRefill, Dead, vars
<1> QED
  BY <1>4, <1>5, <1>6, <1>7, <1>8, <1>9, <1>10, <1>11, <1>12, <1>13, <1>14, <1>15, <1>16
  DEF Next, Gadget, Process, Outside

LEMMA Committed == TypeOK /\ BufferInv /\ FrameInv => FramesAsCommitted
<1> SUFFICES ASSUME TypeOK, BufferInv, FrameInv, Orderly,
                    NEW k \in DOMAIN queue
             PROVE  got[queue[k]] = format /\ (format \in Large => large)
  BY DEF FramesAsCommitted, Orderly
<1>1. k \in 1 .. Len(queue)
  BY DEF TypeOK
<1>2. Held
  BY <1>1 DEF Held
<1> QED
  BY <1>1, <1>2 DEF FrameInv

(* The frames in the driver's hands have the format of the last commit and  *)
(* fit into their buffers, for a host that keeps to the order and without   *)
(* failures.                                                                *)
THEOREM FramesFit == Spec => []FramesAsCommitted
<1> DEFINE Inv == TypeInv /\ NegotiationInv /\ BufferInv /\ FrameInv
<1>1. Init => Inv
  BY TypeInit, NegotiationInit, BufferInit, FrameInit
<1>2. Inv /\ [Next]_vars => Inv'
  BY TypeStep, NegotiationStep, BufferStep, FrameStep DEF TypeInv
<1>3. Inv => FramesAsCommitted
  BY Committed DEF TypeInv
<1> QED
  BY <1>1, <1>2, <1>3, PTL DEF Spec
=============================================================================
