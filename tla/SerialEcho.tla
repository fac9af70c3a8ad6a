----------------------------- MODULE SerialEcho -----------------------------
(***************************************************************************)
(* The serial transfer test: serial_client.c sends a pattern of random     *)
(* bytes, serial_server.c sends back what it reads, and the client         *)
(* compares and starts over.  Two programs on two machines, a line that    *)
(* moves bytes both ways, and no flow control on it (set_opt is called     *)
(* with NO_FLOW_CONTROL): a byte that finds the receiver's buffer full is  *)
(* gone.                                                                   *)
(*                                                                         *)
(* A byte is its number in the order of sending: random bytes that happen  *)
(* to be equal are told apart here.  A select() that times out and a read  *)
(* that fails change nothing and are not steps.                            *)
(***************************************************************************)
EXTENDS Integers, Sequences

CONSTANTS
  PATTERN_SIZE,   (* bytes of a pattern (1024 in the code)                 *)
  TxSize,         (* bytes the driver takes before write() blocks          *)
  RxSize,         (* bytes the driver keeps for read()                     *)
  MaxLoops,       (* bounds the model: the loops the client begins         *)
  WritesFail      (* whether write() may return an error                   *)

ASSUME EchoAssumption ==
  /\ PATTERN_SIZE \in Nat \ {0}
  /\ TxSize \in Nat \ {0}
  /\ RxSize \in Nat /\ RxSize >= PATTERN_SIZE
  /\ MaxLoops \in Nat \ {0}
  /\ WritesFail \in BOOLEAN

VARIABLES
  cpc,        (* where the client is                                       *)
  loop,       (* its loop, counted from 1                                  *)
  sent,       (* its offset while it sends                                 *)
  recv,       (* recv_buf up to its offset while it receives               *)
  spc,        (* where the server is                                       *)
  sbuf,       (* buf of the server, from its offset on                     *)
  ctx, srx,   (* from client to server: still to leave, come and not read  *)
  stx, crx,   (* from server to client: likewise                           *)
  lost,       (* history: a byte found the receiver's buffer full          *)
  skipped     (* history: a failed write() was taken for bytes written       *)

client == <<cpc, loop, sent, recv>>
server == <<spc, sbuf>>
line   == <<ctx, srx, stx, crx>>

vars == <<client, server, line, lost, skipped>>

(* send_buf in loop k. *)
Pattern(k) == [i \in 1 .. PATTERN_SIZE |-> (k - 1) * PATTERN_SIZE + i]

Bytes == 1 .. MaxLoops * PATTERN_SIZE

TypeOK ==
  /\ cpc \in {"send", "receive", "mismatch"}
  /\ loop \in 1 .. MaxLoops
  /\ sent \in 0 .. PATTERN_SIZE
  /\ recv \in Seq(Bytes) /\ Len(recv) <= PATTERN_SIZE
  /\ spc \in {"read", "write"}
  /\ sbuf \in Seq(Bytes) /\ Len(sbuf) <= PATTERN_SIZE
  /\ ctx \in Seq(Bytes) /\ Len(ctx) <= TxSize
  /\ stx \in Seq(Bytes) /\ Len(stx) <= TxSize
  /\ srx \in Seq(Bytes) /\ Len(srx) <= RxSize
  /\ crx \in Seq(Bytes) /\ Len(crx) <= RxSize
  /\ lost \in BOOLEAN
  /\ skipped \in BOOLEAN

Init ==
  /\ cpc = "send"
  /\ loop = 1
  /\ sent = 0
  /\ recv = <<>>
  /\ spc = "read"
  /\ sbuf = <<>>
  /\ ctx = <<>> /\ srx = <<>> /\ stx = <<>> /\ crx = <<>>
  /\ lost = FALSE
  /\ skipped = FALSE

(* The first n elements of s, and the rest. *)
Take(s, n) == SubSeq(s, 1, n)
Drop(s, n) == SubSeq(s, n + 1, Len(s))

Least(a, b) == IF a < b THEN a ELSE b
-----------------------------------------------------------------------------
(* The client.                                                             *)

(* Mutated form of ClientSends: the driver's room is not looked at. *)
ClientSendsAtOnce ==
  /\ cpc = "send"
  /\ ctx' = ctx \o SubSeq(Pattern(loop), sent + 1, PATTERN_SIZE)
  /\ sent' = PATTERN_SIZE
  /\ cpc' = "receive"
  /\ UNCHANGED <<loop, recv, server, srx, stx, crx, lost, skipped>>

(* write() takes as much as the driver has room for; the sending loop ends  *)
(* when the offset has reached PATTERN_SIZE.                                *)
ClientSends ==
  /\ cpc = "send"
  /\ \E n \in 1 .. Least(PATTERN_SIZE - sent, TxSize - Len(ctx)) :
       /\ ctx' = ctx \o SubSeq(Pattern(loop), sent + 1, sent + n)
       /\ sent' = sent + n
  /\ cpc' = IF sent' = PATTERN_SIZE THEN "receive" ELSE "send"
  /\ UNCHANGED <<loop, recv, server, srx, stx, crx, lost, skipped>>

(* write_port has no return statement on its error path: the caller takes   *)
(* whatever is in the return register for the number of bytes written.  A   *)
(* number beyond the end of the pattern ends the loop as the end does, and  *)
(* one that is not positive changes nothing.                                *)
ClientSendFails ==
  /\ cpc = "send"
  /\ WritesFail
  /\ \E n \in 0 .. PATTERN_SIZE - sent :
       /\ sent' = sent + n
       /\ skipped' = (skipped \/ n > 0)
  /\ cpc' = IF sent' = PATTERN_SIZE THEN "receive" ELSE "send"
  /\ UNCHANGED <<loop, recv, server, line, lost>>

(* read() gives what has come, up to the end of the pattern. *)
ClientReceives ==
  /\ cpc = "receive"
  /\ crx # <<>>
  /\ Len(recv) < PATTERN_SIZE
  /\ LET n == Least(Len(crx), PATTERN_SIZE - Len(recv)) IN
       /\ recv' = recv \o Take(crx, n)
       /\ crx' = Drop(crx, n)
  /\ UNCHANGED <<cpc, loop, sent, server, ctx, srx, stx, lost, skipped>>

(* All bytes are there: a difference ends the program, otherwise the next   *)
(* loop sends a new pattern.                                                *)
ClientCompares ==
  /\ cpc = "receive"
  /\ Len(recv) = PATTERN_SIZE
  /\ \/ /\ recv # Pattern(loop)
        /\ cpc' = "mismatch"
        /\ UNCHANGED <<loop, sent, recv>>
     \/ /\ recv = Pattern(loop)
        /\ loop < MaxLoops
        /\ loop' = loop + 1
        /\ sent' = 0
        /\ recv' = <<>>
        /\ cpc' = "send"
  /\ UNCHANGED <<server, line, lost, skipped>>
-----------------------------------------------------------------------------
(* The server.                                                             *)

ServerReads ==
  /\ spc = "read"
  /\ srx # <<>>
  /\ LET n == Least(Len(srx), PATTERN_SIZE) IN
       /\ sbuf' = Take(srx, n)
       /\ srx' = Drop(srx, n)
  /\ spc' = "write"
  /\ UNCHANGED <<client, ctx, stx, crx, lost, skipped>>

(* Mutated form of ServerEchoes: the offset stays where it is. *)
ServerEchoesAgain ==
  /\ spc = "write"
  /\ \E n \in 1 .. Least(Len(sbuf), TxSize - Len(stx)) :
       /\ stx' = stx \o Take(sbuf, n)
       /\ sbuf' = IF n = Len(sbuf) THEN <<>> ELSE sbuf
  /\ spc' = IF sbuf' = <<>> THEN "read" ELSE "write"
  /\ UNCHANGED <<client, ctx, srx, crx, lost, skipped>>

(* Mutated form of ServerEchoes: one write() is taken to be enough. *)
ServerEchoesOnce ==
  /\ spc = "write"
  /\ \E n \in 1 .. Least(Len(sbuf), TxSize - Len(stx)) :
       stx' = stx \o Take(sbuf, n)
  /\ sbuf' = <<>>
  /\ spc' = "read"
  /\ UNCHANGED <<client, ctx, srx, crx, lost, skipped>>

(* write() again and again until the offset has reached what was read.      *)
ServerEchoes ==
  /\ spc = "write"
  /\ \E n \in 1 .. Least(Len(sbuf), TxSize - Len(stx)) :
       /\ stx' = stx \o Take(sbuf, n)
       /\ sbuf' = Drop(sbuf, n)
  /\ spc' = IF sbuf' = <<>> THEN "read" ELSE "write"
  /\ UNCHANGED <<client, ctx, srx, crx, lost, skipped>>

(* The same write_port. *)
ServerEchoFails ==
  /\ spc = "write"
  /\ WritesFail
  /\ \E n \in 0 .. Len(sbuf) :
       /\ sbuf' = Drop(sbuf, n)
       /\ skipped' = (skipped \/ n > 0)
  /\ spc' = IF sbuf' = <<>> THEN "read" ELSE "write"
  /\ UNCHANGED <<client, line, lost>>
-----------------------------------------------------------------------------
(* The line: one byte arrives, or is lost to a full buffer.                *)

Arrives(tx, rx) ==
  /\ tx # <<>>
  /\ tx' = Tail(tx)
  /\ IF Len(rx) < RxSize
     THEN rx' = Append(rx, Head(tx)) /\ UNCHANGED lost
     ELSE UNCHANGED rx /\ lost' = TRUE

ToServer ==
  /\ Arrives(ctx, srx)
  /\ UNCHANGED <<client, server, stx, crx, skipped>>

ToClient ==
  /\ Arrives(stx, crx)
  /\ UNCHANGED <<client, server, ctx, srx, skipped>>
-----------------------------------------------------------------------------
Client == ClientSends \/ ClientSendFails \/ ClientReceives \/ ClientCompares

Server == ServerReads \/ ServerEchoes \/ ServerEchoFails

Next == Client \/ Server \/ ToServer \/ ToClient

Spec == Init /\ [][Next]_vars

(* Both programs run and the line moves; write() is not bound to fail.      *)
Fairness ==
  /\ WF_vars(ClientSends) /\ WF_vars(ClientReceives) /\ WF_vars(ClientCompares)
  /\ WF_vars(ServerReads) /\ WF_vars(ServerEchoes)
  /\ WF_vars(ToServer) /\ WF_vars(ToClient)

FairSpec == Spec /\ Fairness
-----------------------------------------------------------------------------
(* Where the bytes of this loop are, from the first back to the last: what  *)
(* the client has, what is on its way to it, in the server, on its way      *)
(* there, and not sent yet.                                                 *)
Underway ==
  recv \o crx \o stx \o sbuf \o srx \o ctx
    \o SubSeq(Pattern(loop), sent + 1, PATTERN_SIZE)

(* Until a failed write() is taken for bytes written, this is the pattern    *)
(* itself: partial writes and reads on both sides (the offsets of the four   *)
(* loops) drop, repeat and reorder nothing.                                  *)
BytesConserved == ~skipped => Underway = Pattern(loop)

(* The receivers' buffers never overflow although neither side controls the *)
(* flow: no more than one pattern is ever underway, bytes skipped or not.    *)
NothingLost == ~lost

(* The comparison never finds a difference: a byte that a failed write()     *)
(* skips makes the client wait for it, no other byte takes its place.        *)
NeverMismatch == cpc # "mismatch"

(* While no failed write() is taken for bytes every loop, but the last one  *)
(* the model allows, is followed by the next.                               *)
LoopsGoOn ==
  []~skipped => \A k \in 1 .. MaxLoops - 1 : loop = k ~> loop = k + 1
=============================================================================
