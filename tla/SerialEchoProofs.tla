-------------------------- MODULE SerialEchoProofs --------------------------
(***************************************************************************)
(* Theorems about the serial transfer test, for every size of the pattern   *)
(* and of the drivers' buffers, any number of loops, and with writes that    *)
(* fail or do not.                                                          *)
(***************************************************************************)
EXTENDS SerialEcho, SequenceTheorems, TLAPS

(* How many bytes are on their way, the ones the client has back included.  *)
Total == Len(recv) + Len(crx) + Len(stx) + Len(sbuf) + Len(srx) + Len(ctx)

(* The inductive invariant.  A loop in which a failed write() was taken for  *)
(* bytes has fewer bytes on their way than the client thinks it sent, and    *)
(* never completes; a loop without has the whole pattern underway.           *)
EchoInv ==
  /\ spc = "read" => sbuf = <<>>
  /\ Total <= sent
  /\ Total = sent => Underway = Pattern(loop)
  /\ ~skipped => Total = sent
-----------------------------------------------------------------------------
(* Sequences.                                                              *)

LEMMA TakeDrop ==
  ASSUME NEW S, NEW s \in Seq(S), NEW n \in 0 .. Len(s)
  PROVE  /\ Take(s, n) \in Seq(S) /\ Len(Take(s, n)) = n
         /\ Drop(s, n) \in Seq(S) /\ Len(Drop(s, n)) = Len(s) - n
         /\ Take(s, n) \o Drop(s, n) = s
<1>1. Len(s) \in Nat /\ \A i \in 1 .. Len(s) : s[i] \in S
  BY LenProperties, ElementOfSeq
<1>2. Take(s, n) \in Seq(S) /\ Len(Take(s, n)) = n
  BY <1>1, SubSeqProperties DEF Take
<1>3. Drop(s, n) \in Seq(S) /\ Len(Drop(s, n)) = Len(s) - n
  BY <1>1, SubSeqProperties DEF Drop
<1>4. SubSeq(s, 1, n) \o SubSeq(s, n + 1, Len(s)) = SubSeq(s, 1, Len(s))
  <2>1. 1 \in 1 .. Len(s) + 1 /\ n \in 1 - 1 .. Len(s) /\ Len(s) \in n .. Len(s)
    BY <1>1
  <2> QED
    BY <2>1, ConcatAdjacentSubSeq, Zenon
<1> QED
  BY <1>2, <1>3, <1>4, SubSeqFull DEF Take, Drop

(* Concatenation under a name of its own: where it is not expanded, all that *)
(* is known of it is what the next lemmas say.                               *)
Cat(s, t) == s \o t

LEMMA CatType ==
  ASSUME NEW S, NEW s \in Seq(S), NEW t \in Seq(S)
  PROVE  Cat(s, t) \in Seq(S) /\ Len(Cat(s, t)) = Len(s) + Len(t)
  BY ConcatProperties DEF Cat

LEMMA CatAssociative ==
  ASSUME NEW S, NEW s \in Seq(S), NEW t \in Seq(S), NEW u \in Seq(S)
  PROVE  Cat(Cat(s, t), u) = Cat(s, Cat(t, u))
  BY ConcatAssociative DEF Cat

(* Two pieces next to each other.                                           *)
LEMMA Adjacent ==
  ASSUME NEW S, NEW s \in Seq(S), NEW i \in 0 .. Len(s), NEW j \in i .. Len(s)
  PROVE  Cat(SubSeq(s, i + 1, j), SubSeq(s, j + 1, Len(s))) = SubSeq(s, i + 1, Len(s))
<1> DEFINE m == i + 1
           n == Len(s)
<1>1. m \in 1 .. Len(s) + 1 /\ j \in m - 1 .. Len(s) /\ n \in j .. Len(s)
  BY LenProperties
<1> HIDE DEF m, n
<1>2. SubSeq(s, m, j) \o SubSeq(s, j + 1, n) = SubSeq(s, m, n)
  BY <1>1, ConcatAdjacentSubSeq
<1> QED
  BY <1>2 DEF Cat, m, n

(* Two neighbours that hold the same together as before.                    *)
LEMMA SameTogether ==
  ASSUME NEW S, NEW a \in Seq(S), NEW b \in Seq(S), NEW c \in Seq(S),
         NEW d \in Seq(S), NEW e \in Seq(S), Cat(b, c) = Cat(d, e)
  PROVE  Cat(Cat(a, b), c) = Cat(Cat(a, d), e)
  BY CatAssociative

(* The first element of the second sequence moves to the end of the first.  *)
LEMMA HeadMoves ==
  ASSUME NEW S, NEW s \in Seq(S), NEW t \in Seq(S), t # <<>>
  PROVE  Cat(Append(s, Head(t)), Tail(t)) = Cat(s, t)
<1>1. Head(t) \in S /\ Tail(t) \in Seq(S) /\ <<Head(t)>> \in Seq(S)
  BY HeadTailProperties
<1>2. Append(s, Head(t)) = Cat(s, <<Head(t)>>)
  BY <1>1, AppendIsConcat DEF Cat
<1>3. t = Cat(<<Head(t)>>, Tail(t))
  <2>1. Len(t) \in Nat \ {0} /\ 1 \in 1 .. Len(t)
    BY EmptySeq
  <2>2. SubSeq(t, 1, Len(t)) = <<t[1]>> \o SubSeq(t, 1 + 1, Len(t))
    BY <2>1, SubSeqRecursiveFirst
  <2>3. Tail(t) = SubSeq(t, 2, Len(t)) /\ SubSeq(t, 1, Len(t)) = t
    BY TailIsSubSeq, SubSeqFull
  <2>4. Head(t) = t[1]
    BY <2>1
  <2> QED
    BY <2>2, <2>3, <2>4 DEF Cat
<1> DEFINE h == <<Head(t)>>
           u == Tail(t)
<1>4. /\ h \in Seq(S) /\ u \in Seq(S)
      /\ Append(s, Head(t)) = Cat(s, h) /\ t = Cat(h, u)
  BY <1>1, <1>2, <1>3
<1> HIDE DEF h, u
<1>5. Cat(Cat(s, h), u) = Cat(s, Cat(h, u))
  BY <1>4, CatAssociative
<1> QED
  BY <1>4, <1>5 DEF u

(* The first elements of the second sequence do.                            *)
LEMMA PartMoves ==
  ASSUME NEW S, NEW s \in Seq(S), NEW t \in Seq(S), NEW n \in 0 .. Len(t)
  PROVE  Cat(Cat(s, Take(t, n)), Drop(t, n)) = Cat(s, t)
<1>1. Take(t, n) \in Seq(S) /\ Drop(t, n) \in Seq(S) /\ Cat(Take(t, n), Drop(t, n)) = t
  BY TakeDrop DEF Cat
<1> QED
  BY <1>1, CatAssociative

LEMMA PatternType ==
  ASSUME NEW k \in 1 .. MaxLoops
  PROVE  Pattern(k) \in Seq(Bytes) /\ Len(Pattern(k)) = PATTERN_SIZE
<1> USE EchoAssumption
<1>1. ASSUME NEW i \in 1 .. PATTERN_SIZE
      PROVE  (k - 1) * PATTERN_SIZE + i \in Bytes
  <2>1. (k - 1) * PATTERN_SIZE >= 0
    OBVIOUS
  <2>2. k * PATTERN_SIZE <= MaxLoops * PATTERN_SIZE
    OBVIOUS
  <2>3. (k - 1) * PATTERN_SIZE = k * PATTERN_SIZE - PATTERN_SIZE
    OBVIOUS
  <2> QED
    BY <2>1, <2>2, <2>3 DEF Bytes
<1> QED
  BY <1>1 DEF Pattern

(* What is not sent yet. *)
LEMMA RestType ==
  ASSUME NEW k \in 1 .. MaxLoops, NEW n \in 0 .. PATTERN_SIZE
  PROVE  SubSeq(Pattern(k), n + 1, PATTERN_SIZE) \in Seq(Bytes)
  BY PatternType, TakeDrop, EchoAssumption DEF Drop

LEMMA Lengths ==
  ASSUME TypeOK
  PROVE  /\ Len(recv) \in Nat /\ Len(crx) \in Nat /\ Len(stx) \in Nat
         /\ Len(sbuf) \in Nat /\ Len(srx) \in Nat /\ Len(ctx) \in Nat
  BY LenProperties DEF TypeOK
LEMMA Sequences ==
  ASSUME TypeOK
  PROVE  /\ recv \in Seq(Bytes) /\ crx \in Seq(Bytes) /\ stx \in Seq(Bytes)
         /\ sbuf \in Seq(Bytes) /\ srx \in Seq(Bytes) /\ ctx \in Seq(Bytes)
  BY DEF TypeOK
-----------------------------------------------------------------------------
LEMMA ArrivesType ==
  ASSUME NEW tx \in Seq(Bytes), NEW rx \in Seq(Bytes), NEW tx1, NEW rx1,
         Len(rx) <= RxSize, Len(tx) <= TxSize, tx # <<>>, tx1 = Tail(tx),
         \/ Len(rx) < RxSize /\ rx1 = Append(rx, Head(tx))
         \/ rx1 = rx
  PROVE  /\ tx1 \in Seq(Bytes) /\ Len(tx1) = Len(tx) - 1 /\ Len(tx1) <= TxSize
         /\ rx1 \in Seq(Bytes) /\ Len(rx1) <= RxSize
         /\ rx1 # rx => Len(rx1) = Len(rx) + 1
<1> USE EchoAssumption
<1>1. Len(tx) \in Nat /\ Len(rx) \in Nat
  BY LenProperties
<1>2. Head(tx) \in Bytes /\ tx1 \in Seq(Bytes) /\ Len(tx1) = Len(tx) - 1
  BY HeadTailProperties
<1>3. Append(rx, Head(tx)) \in Seq(Bytes) /\ Len(Append(rx, Head(tx))) = Len(rx) + 1
  BY <1>2, AppendProperties
<1>4. Len(tx1) <= TxSize
  BY <1>1, <1>2
<1>5. CASE Len(rx) < RxSize /\ rx1 = Append(rx, Head(tx))
  <2>1. Len(rx1) <= RxSize
    BY <1>1, <1>3, <1>5
  <2> QED
    BY <1>2, <1>3, <1>4, <1>5, <2>1
<1>6. CASE rx1 = rx
  BY <1>2, <1>4, <1>6
<1> QED
  BY <1>5, <1>6

LEMMA TypeStep ==
  ASSUME TypeOK, [Next]_vars
  PROVE  TypeOK'
<1> USE EchoAssumption DEF client, server, line
<1>1. CASE ClientSends
  <2>1. PICK n \in 1 .. Least(PATTERN_SIZE - sent, TxSize - Len(ctx)) :
          /\ ctx' = ctx \o SubSeq(Pattern(loop), sent + 1, sent + n)
          /\ sent' = sent + n
    BY <1>1 DEF ClientSends
  <2>2. n \in Nat \ {0} /\ sent + n <= PATTERN_SIZE /\ Len(ctx) + n <= TxSize /\ sent \in Nat
    BY <2>1, Lengths DEF Least, TypeOK
  <2>3. /\ SubSeq(Pattern(loop), sent + 1, sent + n) \in Seq(Bytes)
        /\ Len(SubSeq(Pattern(loop), sent + 1, sent + n)) = n
    <3>1. loop \in 1 .. MaxLoops
      BY DEF TypeOK
    <3>2. \A i \in sent + 1 .. sent + n : Pattern(loop)[i] \in Bytes
      BY <2>2, <3>1, PatternType, ElementOfSeq
    <3> QED
      BY <2>2, <3>2, SubSeqProperties
  <2>4. ctx' \in Seq(Bytes) /\ Len(ctx') <= TxSize
    BY <2>1, <2>2, <2>3, ConcatProperties DEF TypeOK
  <2>5. sent' \in 0 .. PATTERN_SIZE
    BY <2>1, <2>2
  <2> QED
    BY <1>1, <2>4, <2>5 DEF ClientSends, TypeOK
<1>2. CASE ClientSendFails
  <2>1. sent' \in 0 .. PATTERN_SIZE
    BY <1>2 DEF ClientSendFails, TypeOK
  <2>2. skipped' \in BOOLEAN
    BY <1>2 DEF ClientSendFails
  <2> QED
    BY <1>2, <2>1, <2>2 DEF ClientSendFails, TypeOK
<1>3. CASE ClientReceives
  <2> DEFINE n == Least(Len(crx), PATTERN_SIZE - Len(recv))
  <2>1. n \in 0 .. Len(crx) /\ Len(recv) + n <= PATTERN_SIZE
    BY Lengths DEF Least, TypeOK
  <2>2. /\ Take(crx, n) \in Seq(Bytes) /\ Len(Take(crx, n)) = n
        /\ Drop(crx, n) \in Seq(Bytes) /\ Len(Drop(crx, n)) = Len(crx) - n
    BY <2>1, TakeDrop DEF TypeOK
  <2>3. recv' = recv \o Take(crx, n) /\ crx' = Drop(crx, n)
    BY <1>3 DEF ClientReceives
  <2> HIDE DEF n
  <2>4. recv' \in Seq(Bytes) /\ Len(recv') <= PATTERN_SIZE
    BY <2>1, <2>2, <2>3, ConcatProperties DEF TypeOK
  <2>5. crx' \in Seq(Bytes) /\ Len(crx') <= RxSize
    BY <2>1, <2>2, <2>3, Lengths DEF TypeOK
  <2> QED
    BY <1>3, <2>4, <2>5 DEF ClientReceives, TypeOK
<1>4. CASE ClientCompares
  <2>1. <<>> \in Seq(Bytes) /\ Len(<<>>) = 0
    BY EmptySeq
  <2>2. cpc' \in {"send", "receive", "mismatch"} /\ loop' \in 1 .. MaxLoops
    BY <1>4 DEF ClientCompares, TypeOK
  <2>3. sent' \in 0 .. PATTERN_SIZE
    BY <1>4 DEF ClientCompares, TypeOK
  <2>4. recv' \in Seq(Bytes) /\ Len(recv') <= PATTERN_SIZE
    <3>1. CASE recv' = recv
      BY <3>1 DEF TypeOK
    <3>2. CASE recv' = <<>>
      BY <2>1, <3>2
    <3> QED
      BY <1>4, <3>1, <3>2 DEF ClientCompares
  <2> QED
    BY <1>4, <2>2, <2>3, <2>4 DEF ClientCompares, TypeOK
<1>5. CASE ServerReads
  <2> DEFINE n == Least(Len(srx), PATTERN_SIZE)
  <2>1. n \in 0 .. Len(srx) /\ n <= PATTERN_SIZE
    BY Lengths DEF Least
  <2>2. /\ Take(srx, n) \in Seq(Bytes) /\ Len(Take(srx, n)) = n
        /\ Drop(srx, n) \in Seq(Bytes) /\ Len(Drop(srx, n)) = Len(srx) - n
    BY <2>1, TakeDrop DEF TypeOK
  <2>3. sbuf' = Take(srx, n) /\ srx' = Drop(srx, n)
    BY <1>5 DEF ServerReads
  <2> HIDE DEF n
  <2>4. sbuf' \in Seq(Bytes) /\ Len(sbuf') <= PATTERN_SIZE
    BY <2>1, <2>2, <2>3
  <2>5. srx' \in Seq(Bytes) /\ Len(srx') <= RxSize
    BY <2>1, <2>2, <2>3, Lengths DEF TypeOK
  <2> QED
    BY <1>5, <2>4, <2>5 DEF ServerReads, TypeOK
<1>6. CASE ServerEchoes
  <2>1. PICK n \in 1 .. Least(Len(sbuf), TxSize - Len(stx)) :
          stx' = stx \o Take(sbuf, n) /\ sbuf' = Drop(sbuf, n)
    BY <1>6 DEF ServerEchoes
  <2>2. n \in 0 .. Len(sbuf) /\ Len(stx) + n <= TxSize
    BY <2>1, Lengths DEF Least
  <2>3. /\ Take(sbuf, n) \in Seq(Bytes) /\ Len(Take(sbuf, n)) = n
        /\ sbuf' \in Seq(Bytes) /\ Len(sbuf') = Len(sbuf) - n
    BY <2>1, <2>2, TakeDrop DEF TypeOK
  <2>4. stx' \in Seq(Bytes) /\ Len(stx') <= TxSize
    BY <2>1, <2>2, <2>3, ConcatProperties DEF TypeOK
  <2>5. Len(sbuf') <= PATTERN_SIZE
    BY <2>2, <2>3, Lengths DEF TypeOK
  <2> QED
    BY <1>6, <2>3, <2>4, <2>5 DEF ServerEchoes, TypeOK
<1>7. CASE ServerEchoFails
  <2>1. PICK n \in 0 .. Len(sbuf) : sbuf' = Drop(sbuf, n)
    BY <1>7 DEF ServerEchoFails
  <2>2. sbuf' \in Seq(Bytes) /\ Len(sbuf') <= PATTERN_SIZE
    <3>1. sbuf' \in Seq(Bytes) /\ Len(sbuf') = Len(sbuf) - n
      BY <2>1, TakeDrop DEF TypeOK
    <3> QED
      BY <2>1, <3>1, Lengths DEF TypeOK
  <2>3. skipped' \in BOOLEAN
    BY <1>7 DEF ServerEchoFails
  <2> QED
    BY <1>7, <2>2, <2>3 DEF ServerEchoFails, TypeOK
<1>8. CASE ToServer
  <2>1. /\ ctx' \in Seq(Bytes) /\ Len(ctx') <= TxSize
        /\ srx' \in Seq(Bytes) /\ Len(srx') <= RxSize
    BY <1>8, ArrivesType DEF ToServer, Arrives, TypeOK
  <2>2. lost' \in BOOLEAN
    BY <1>8 DEF ToServer, Arrives, TypeOK
  <2> QED
    BY <1>8, <2>1, <2>2 DEF ToServer, TypeOK
<1>9. CASE ToClient
  <2>1. /\ stx' \in Seq(Bytes) /\ Len(stx') <= TxSize
        /\ crx' \in Seq(Bytes) /\ Len(crx') <= RxSize
    BY <1>9, ArrivesType DEF ToClient, Arrives, TypeOK
  <2>2. lost' \in BOOLEAN
    BY <1>9 DEF ToClient, Arrives, TypeOK
  <2> QED
    BY <1>9, <2>1, <2>2 DEF ToClient, TypeOK
<1>10. CASE UNCHANGED vars
  BY <1>10 DEF vars, TypeOK
<1> QED
  BY <1>1, <1>2, <1>3, <1>4, <1>5, <1>6, <1>7, <1>8, <1>9, <1>10 DEF Next, Client, Server
-----------------------------------------------------------------------------
(* Each step that moves bytes keeps their order and their number.           *)

Rest == SubSeq(Pattern(loop), sent + 1, PATTERN_SIZE)

BytesKept ==
  /\ Underway' = Underway
  /\ Total' + sent = Total + sent'
  /\ loop' = loop /\ skipped' = skipped

LEMMA ClientSendsKeeps ==
  ASSUME TypeOK, ClientSends
  PROVE  BytesKept
<1> USE EchoAssumption
<1>1. PICK n \in 1 .. Least(PATTERN_SIZE - sent, TxSize - Len(ctx)) :
        /\ ctx' = ctx \o SubSeq(Pattern(loop), sent + 1, sent + n)
        /\ sent' = sent + n
  BY DEF ClientSends
<1>2. n \in Nat \ {0} /\ sent + n <= PATTERN_SIZE /\ sent \in Nat
  BY <1>1, Lengths DEF Least, TypeOK
<1> DEFINE piece == SubSeq(Pattern(loop), sent + 1, sent + n)
           a == Cat(Cat(Cat(Cat(recv, crx), stx), sbuf), srx)
<1>3. loop \in 1 .. MaxLoops /\ Pattern(loop) \in Seq(Bytes) /\ Len(Pattern(loop)) = PATTERN_SIZE
  BY PatternType DEF TypeOK
<1>4. piece \in Seq(Bytes) /\ Len(piece) = n
  <2>1. \A i \in sent + 1 .. sent + n : Pattern(loop)[i] \in Bytes
    BY <1>2, <1>3, ElementOfSeq
  <2> QED
    BY <1>2, <2>1, SubSeqProperties
<1>5. UNCHANGED <<loop, recv, crx, stx, sbuf, srx, skipped>> /\ ctx' = Cat(ctx, piece)
  BY <1>1 DEF ClientSends, server, Cat
<1>6. Rest \in Seq(Bytes) /\ Rest' \in Seq(Bytes)
  BY <1>1, <1>2, <1>3, <1>5, RestType DEF Rest
<1>7. Cat(piece, Rest') = Rest
  <2>1. sent \in 0 .. Len(Pattern(loop)) /\ sent + n \in sent .. Len(Pattern(loop))
    BY <1>2, <1>3
  <2>2. Cat(SubSeq(Pattern(loop), sent + 1, sent + n),
            SubSeq(Pattern(loop), sent + n + 1, Len(Pattern(loop))))
        = SubSeq(Pattern(loop), sent + 1, Len(Pattern(loop)))
    BY <1>3, <2>1, Adjacent
  <2>3. Rest' = SubSeq(Pattern(loop), sent + n + 1, PATTERN_SIZE)
    BY <1>1, <1>5 DEF Rest, Pattern
  <2> QED
    BY <1>3, <2>2, <2>3 DEF Rest
<1> HIDE DEF piece, a
<1>8. ctx' \in Seq(Bytes) /\ Len(ctx') = Len(ctx) + n
  BY <1>4, <1>5, Sequences, CatType
<1>9. Cat(ctx', Rest') = Cat(ctx, Rest)
  BY <1>4, <1>5, <1>6, <1>7, Sequences, CatAssociative
<1>10. a \in Seq(Bytes)
  BY Sequences, CatType DEF a
<1>11. Cat(Cat(a, ctx'), Rest') = Cat(Cat(a, ctx), Rest)
  BY <1>6, <1>8, <1>9, <1>10, Sequences, SameTogether
<1>12. Underway' = Underway
  BY <1>5, <1>11 DEF Underway, Rest, Cat, a
<1>13. Total' = Total + n
  BY <1>5, <1>8, Lengths DEF Total
<1> QED
  BY <1>1, <1>2, <1>5, <1>12, <1>13, Lengths DEF BytesKept, Total

LEMMA ClientReceivesKeeps ==
  ASSUME TypeOK, ClientReceives
  PROVE  BytesKept
<1> USE EchoAssumption
<1> DEFINE n == Least(Len(crx), PATTERN_SIZE - Len(recv))
<1>1. n \in 0 .. Len(crx)
  BY Lengths DEF Least, TypeOK
<1>2. recv' = Cat(recv, Take(crx, n)) /\ crx' = Drop(crx, n)
  BY DEF ClientReceives, Cat
<1>3. UNCHANGED <<loop, sent, stx, sbuf, srx, ctx, skipped>>
  BY DEF ClientReceives, server
<1> HIDE DEF n
<1>4. /\ Take(crx, n) \in Seq(Bytes) /\ Len(Take(crx, n)) = n
      /\ Len(crx') = Len(crx) - n
  BY <1>1, <1>2, Sequences, TakeDrop
<1>5. Cat(recv', crx') = Cat(recv, crx)
  BY <1>1, <1>2, Sequences, PartMoves
<1>6. Len(recv') = Len(recv) + n
  BY <1>2, <1>4, Sequences, CatType
<1>7. Underway' = Underway
  BY <1>3, <1>5 DEF Underway, Pattern, Cat
<1>8. Total' = Total
  BY <1>1, <1>3, <1>4, <1>6, Lengths DEF Total
<1> QED
  BY <1>3, <1>7, <1>8 DEF BytesKept

LEMMA ServerReadsKeeps ==
  ASSUME TypeOK, EchoInv, ServerReads
  PROVE  BytesKept
<1> USE EchoAssumption
<1> DEFINE n == Least(Len(srx), PATTERN_SIZE)
           a == Cat(Cat(recv, crx), stx)
<1>1. n \in 0 .. Len(srx)
  BY Lengths DEF Least
<1>2. sbuf' = Take(srx, n) /\ srx' = Drop(srx, n) /\ sbuf = <<>>
  BY DEF ServerReads, EchoInv
<1>3. UNCHANGED <<loop, sent, recv, crx, stx, ctx, skipped>>
  BY DEF ServerReads, client
<1> HIDE DEF n, a
<1>4. /\ sbuf' \in Seq(Bytes) /\ Len(sbuf') = n
      /\ srx' \in Seq(Bytes) /\ Len(srx') = Len(srx) - n
      /\ Cat(sbuf', srx') = srx
  BY <1>1, <1>2, Sequences, TakeDrop DEF Cat
<1>5. Cat(sbuf, srx) = srx
  BY <1>2, Sequences, ConcatEmptySeq DEF Cat
<1>6. a \in Seq(Bytes)
  BY Sequences, CatType DEF a
<1>7. Cat(Cat(a, sbuf'), srx') = Cat(Cat(a, sbuf), srx)
  BY <1>4, <1>5, <1>6, Sequences, SameTogether
<1>8. Underway' = Underway
  BY <1>3, <1>7 DEF Underway, Pattern, Cat, a
<1>9. Len(sbuf) = 0
  BY <1>2
<1>10. Total' = Total
  BY <1>1, <1>3, <1>4, <1>9, Lengths DEF Total
<1> QED
  BY <1>3, <1>8, <1>10 DEF BytesKept

LEMMA ServerEchoesKeeps ==
  ASSUME TypeOK, ServerEchoes
  PROVE  BytesKept
<1>1. PICK n \in 1 .. Least(Len(sbuf), TxSize - Len(stx)) :
        stx' = Cat(stx, Take(sbuf, n)) /\ sbuf' = Drop(sbuf, n)
  BY DEF ServerEchoes, Cat
<1>2. n \in 0 .. Len(sbuf)
  BY <1>1, Lengths, EchoAssumption DEF Least
<1>3. UNCHANGED <<loop, sent, recv, crx, srx, ctx, skipped>>
  BY DEF ServerEchoes, client
<1>4. /\ Take(sbuf, n) \in Seq(Bytes) /\ Len(Take(sbuf, n)) = n
      /\ sbuf' \in Seq(Bytes) /\ Len(sbuf') = Len(sbuf) - n
  BY <1>1, <1>2, Sequences, TakeDrop
<1>5. stx' \in Seq(Bytes) /\ Len(stx') = Len(stx) + n
  BY <1>1, <1>4, Sequences, CatType
<1>6. Cat(stx', sbuf') = Cat(stx, sbuf)
  BY <1>1, <1>2, Sequences, PartMoves
<1> DEFINE a == Cat(recv, crx)
<1> HIDE DEF a
<1>7. Cat(Cat(a, stx'), sbuf') = Cat(Cat(a, stx), sbuf)
  <2>1. a \in Seq(Bytes)
    BY Sequences, CatType DEF a
  <2> QED
    BY <1>4, <1>5, <1>6, <2>1, Sequences, SameTogether
<1>8. Underway' = Underway
  BY <1>3, <1>7 DEF Underway, Pattern, Cat, a
<1>9. Total' = Total
  BY <1>2, <1>3, <1>4, <1>5, Lengths DEF Total
<1> QED
  BY <1>3, <1>8, <1>9 DEF BytesKept

(* No buffer is full when a byte arrives: all the others would have to be    *)
(* in it, and there are no more than one pattern.                           *)
LEMMA RoomToArrive ==
  ASSUME TypeOK, EchoInv
  PROVE  /\ ctx # <<>> => Len(srx) < RxSize
         /\ stx # <<>> => Len(crx) < RxSize
<1>1. /\ ctx # <<>> => Len(ctx) > 0
      /\ stx # <<>> => Len(stx) > 0
  BY EmptySeq DEF TypeOK
<1> QED
  BY <1>1, Lengths, EchoAssumption DEF EchoInv, Total, TypeOK

LEMMA ToServerKeeps ==
  ASSUME TypeOK, EchoInv, ToServer
  PROVE  BytesKept /\ lost' = lost
<1>1. ctx # <<>> /\ ctx' = Tail(ctx) /\ srx' = Append(srx, Head(ctx)) /\ lost' = lost
  BY RoomToArrive DEF ToServer, Arrives
<1>2. UNCHANGED <<loop, sent, recv, crx, stx, sbuf, skipped>>
  BY DEF ToServer, client, server
<1> DEFINE a == Cat(Cat(Cat(recv, crx), stx), sbuf)
<1> HIDE DEF a
<1>3. /\ ctx' \in Seq(Bytes) /\ Len(ctx') = Len(ctx) - 1
      /\ srx' \in Seq(Bytes) /\ Len(srx') = Len(srx) + 1
  BY <1>1, HeadTailProperties, AppendProperties DEF TypeOK
<1>4. Cat(srx', ctx') = Cat(srx, ctx)
  BY <1>1, Sequences, HeadMoves
<1>5. a \in Seq(Bytes)
  BY Sequences, CatType DEF a
<1>6. Cat(Cat(a, srx'), ctx') = Cat(Cat(a, srx), ctx)
  BY <1>3, <1>4, <1>5, Sequences, SameTogether
<1>7. Underway' = Underway
  BY <1>2, <1>6 DEF Underway, Pattern, Cat, a
<1>8. Total' = Total
  BY <1>2, <1>3, Lengths DEF Total
<1> QED
  BY <1>1, <1>2, <1>7, <1>8 DEF BytesKept

LEMMA ToClientKeeps ==
  ASSUME TypeOK, EchoInv, ToClient
  PROVE  BytesKept /\ lost' = lost
<1>1. stx # <<>> /\ stx' = Tail(stx) /\ crx' = Append(crx, Head(stx)) /\ lost' = lost
  BY RoomToArrive DEF ToClient, Arrives
<1>2. UNCHANGED <<loop, sent, recv, sbuf, srx, ctx, skipped>>
  BY DEF ToClient, client, server
<1>3. /\ stx' \in Seq(Bytes) /\ Len(stx') = Len(stx) - 1
      /\ crx' \in Seq(Bytes) /\ Len(crx') = Len(crx) + 1
  BY <1>1, HeadTailProperties, AppendProperties DEF TypeOK
<1>4. Cat(crx', stx') = Cat(crx, stx)
  BY <1>1, Sequences, HeadMoves
<1>5. Cat(Cat(recv, crx'), stx') = Cat(Cat(recv, crx), stx)
  BY <1>3, <1>4, Sequences, SameTogether
<1>6. Underway' = Underway
  BY <1>2, <1>5 DEF Underway, Pattern, Cat
<1>7. Total' = Total
  BY <1>2, <1>3, Lengths DEF Total
<1> QED
  BY <1>1, <1>2, <1>6, <1>7 DEF BytesKept
-----------------------------------------------------------------------------
(* Once the client has a whole pattern it is the one it sent, and nothing is *)
(* underway any more.                                                        *)
LEMMA AllIsBack ==
  ASSUME TypeOK, EchoInv, Len(recv) = PATTERN_SIZE
  PROVE  /\ recv = Pattern(loop)
         /\ crx = <<>> /\ stx = <<>> /\ sbuf = <<>> /\ srx = <<>> /\ ctx = <<>>
<1> USE EchoAssumption
<1>1. sent \in 0 .. PATTERN_SIZE /\ Total <= sent
  BY DEF TypeOK, EchoInv
<1>2. /\ Len(crx) = 0 /\ Len(stx) = 0 /\ Len(sbuf) = 0 /\ Len(srx) = 0 /\ Len(ctx) = 0
      /\ Total = sent /\ sent = PATTERN_SIZE
  BY <1>1, Lengths DEF Total
<1>3. crx = <<>> /\ stx = <<>> /\ sbuf = <<>> /\ srx = <<>> /\ ctx = <<>>
  BY <1>2, Sequences, EmptySeq
<1>4. Rest = <<>>
  BY <1>2, SubSeqEmpty DEF Rest
<1>5. Underway = recv
  BY <1>3, <1>4, Sequences, ConcatEmptySeq DEF Underway, Rest
<1> QED
  BY <1>2, <1>3, <1>5 DEF EchoInv

LEMMA EchoStep ==
  ASSUME TypeOK, EchoInv, [Next]_vars
  PROVE  EchoInv'
<1> USE EchoAssumption
<1>1. /\ Total \in Nat /\ sent \in Nat
      /\ Total' \in Nat /\ sent' \in Nat
  BY TypeStep, Lengths DEF Total, TypeOK
<1>2. ASSUME BytesKept, spc' = "read" => sbuf' = <<>>
      PROVE  EchoInv'
  <2>1. Total' <= sent' /\ (Total' = sent' <=> Total = sent)
    <3>1. Total' + sent = Total + sent' /\ Total <= sent
      BY <1>2 DEF BytesKept, EchoInv
    <3> QED
      BY <1>1, <3>1
  <2>2. Total' = sent' => Underway' = Pattern(loop')
    BY <1>2, <2>1 DEF BytesKept, EchoInv
  <2> QED
    BY <1>2, <2>1, <2>2 DEF BytesKept, EchoInv, Pattern
<1>3. CASE ClientSends
  BY <1>2, <1>3, ClientSendsKeeps DEF ClientSends, EchoInv, server
<1>4. CASE ClientSendFails
  <2>1. PICK n \in 0 .. PATTERN_SIZE - sent :
          sent' = sent + n /\ skipped' = (skipped \/ n > 0)
    BY <1>4 DEF ClientSendFails
  <2>2. UNCHANGED <<loop, recv, server, line>> /\ (~skipped' => ~skipped /\ ~(n > 0))
    BY <1>4, <2>1, Zenon DEF ClientSendFails
  <2>3. Total' = Total
    BY <2>2 DEF Total, server, line
  <2>4. CASE n = 0
    <3>1. sent' = sent
      BY <1>1, <2>1, <2>4
    <3>2. Underway' = Underway
      BY <2>2, <3>1 DEF Underway, Pattern, server, line
    <3> QED
      BY <2>2, <2>3, <3>1, <3>2 DEF EchoInv, server, Pattern
  <2>5. CASE n > 0
    <3>1. Total' < sent'
      BY <1>1, <2>1, <2>3, <2>5 DEF EchoInv
    <3> QED
      BY <1>1, <2>2, <2>5, <3>1 DEF EchoInv, server
  <2> QED
    BY <2>1, <2>4, <2>5
<1>5. CASE ClientReceives
  BY <1>2, <1>5, ClientReceivesKeeps DEF ClientReceives, EchoInv, server
<1>6. CASE ClientCompares
  <2>1. /\ recv = Pattern(loop)
        /\ crx = <<>> /\ stx = <<>> /\ sbuf = <<>> /\ srx = <<>> /\ ctx = <<>>
    BY <1>6, AllIsBack DEF ClientCompares
  <2>2. /\ loop' = loop + 1 /\ loop < MaxLoops /\ sent' = 0 /\ recv' = <<>>
        /\ UNCHANGED <<server, line, skipped>>
    BY <1>6, <2>1 DEF ClientCompares
  <2>3. Total' = 0
    BY <2>1, <2>2 DEF Total, server, line
  <2>4. loop' \in 1 .. MaxLoops
    BY <2>2 DEF TypeOK
  <2>5. Pattern(loop') \in Seq(Bytes) /\ Len(Pattern(loop')) = PATTERN_SIZE
    BY <2>4, PatternType
  <2>6. Rest' = Pattern(loop')
    BY <2>2, <2>5, SubSeqFull DEF Rest, Pattern
  <2>7. Underway' = Pattern(loop')
    BY <2>1, <2>2, <2>5, <2>6, ConcatEmptySeq, EmptySeq DEF Underway, Rest, server, line
  <2> QED
    BY <2>1, <2>2, <2>3, <2>7 DEF EchoInv, server, Pattern
<1>7. CASE ServerReads
  BY <1>2, <1>7, ServerReadsKeeps DEF ServerReads
<1>8. CASE ServerEchoes
  BY <1>2, <1>8, ServerEchoesKeeps DEF ServerEchoes
<1>9. CASE ServerEchoFails
  <2>1. PICK n \in 0 .. Len(sbuf) :
          sbuf' = Drop(sbuf, n) /\ skipped' = (skipped \/ n > 0)
    BY <1>9 DEF ServerEchoFails
  <2>2. /\ UNCHANGED <<client, line>>
        /\ spc' = "read" => sbuf' = <<>>
        /\ ~skipped' => ~skipped /\ ~(n > 0)
    <3>1. UNCHANGED <<client, line>> /\ (spc' = "read" => sbuf' = <<>>)
      BY <1>9 DEF ServerEchoFails
    <3>2. ~skipped' => ~skipped /\ ~(n > 0)
      BY <2>1, Zenon
    <3> QED
      BY <3>1, <3>2
  <2>3. Len(sbuf') = Len(sbuf) - n
    BY <2>1, Sequences, TakeDrop
  <2>4. CASE n = 0
    <3>1. sbuf' = sbuf
      BY <2>1, <2>4, Sequences, SubSeqFull DEF Drop
    <3>2. Underway' = Underway /\ Total' = Total
      BY <2>2, <3>1 DEF Underway, Total, Pattern, client, line
    <3> QED
      BY <2>2, <3>1, <3>2 DEF EchoInv, client, Pattern
  <2>5. CASE n > 0
    <3>1. Total' = Total - n
      BY <2>2, <2>3, Lengths DEF Total, client, line
    <3>2. Total' < sent'
      BY <1>1, <2>1, <2>2, <2>5, <3>1 DEF EchoInv, client
    <3> QED
      BY <1>1, <2>2, <2>5, <3>2 DEF EchoInv
  <2> QED
    BY <2>1, <2>4, <2>5
<1>10. CASE ToServer
  BY <1>2, <1>10, ToServerKeeps DEF ToServer, EchoInv, server
<1>11. CASE ToClient
  BY <1>2, <1>11, ToClientKeeps DEF ToClient, EchoInv, server
<1>12. CASE UNCHANGED vars
  <2>1. Underway' = Underway /\ Total' = Total
    BY <1>12 DEF Underway, Total, Pattern, vars, client, server, line
  <2> QED
    BY <1>12, <2>1 DEF EchoInv, Pattern, vars, client, server
<1> QED
  BY <1>3, <1>4, <1>5, <1>6, <1>7, <1>8, <1>9, <1>10, <1>11, <1>12 DEF Next, Client, Server
-----------------------------------------------------------------------------
LEMMA TypeInit == Init => TypeOK
<1> SUFFICES ASSUME Init
             PROVE  TypeOK
  OBVIOUS
<1>1. <<>> \in Seq(Bytes) /\ Len(<<>>) = 0
  BY EmptySeq
<1>2. Len(<<>>) <= PATTERN_SIZE /\ Len(<<>>) <= TxSize /\ Len(<<>>) <= RxSize
  BY <1>1, EchoAssumption
<1>3. sent \in 0 .. PATTERN_SIZE /\ loop \in 1 .. MaxLoops
  BY EchoAssumption DEF Init
<1> QED
  BY <1>1, <1>2, <1>3 DEF Init, TypeOK

LEMMA EchoInit == Init => EchoInv
<1> SUFFICES ASSUME Init
             PROVE  EchoInv
  OBVIOUS
<1>1. Total = 0
  BY DEF Init, Total
<1>2. Pattern(loop) \in Seq(Bytes) /\ Len(Pattern(loop)) = PATTERN_SIZE
  BY PatternType, EchoAssumption DEF Init
<1>3. Rest = Pattern(loop)
  BY <1>2, SubSeqFull DEF Init, Rest
<1>4. Underway = Pattern(loop)
  BY <1>2, <1>3, ConcatEmptySeq, EmptySeq DEF Init, Underway, Rest
<1> QED
  BY <1>1, <1>4 DEF Init, EchoInv

(* Every variable of the two programs and of the line keeps its type: no     *)
(* buffer on the way holds more than its size.                               *)
THEOREM TypeCorrect == Spec => []TypeOK
<1>1. TypeOK /\ [Next]_vars => TypeOK'
  BY TypeStep
<1> QED
  BY <1>1, TypeInit, PTL DEF Spec

LEMMA Inductive == Spec => []EchoInv
<1>1. TypeOK /\ EchoInv /\ [Next]_vars => EchoInv'
  BY EchoStep
<1> QED
  BY <1>1, EchoInit, TypeCorrect, PTL DEF Spec

(* Until a failed write() is taken for bytes written, the bytes underway are *)
(* the pattern itself: no partial write or read, on either side, drops,       *)
(* repeats or reorders any.                                                  *)
THEOREM PatternUnderway == Spec => []BytesConserved
<1>1. EchoInv => BytesConserved
  BY DEF EchoInv, BytesConserved
<1> QED
  BY <1>1, Inductive, PTL

(* No receiver's buffer overflows, with no flow control on the line and      *)
(* bytes skipped or not, as long as it holds a pattern.                      *)
THEOREM NoOverflow == Spec => []NothingLost
<1>1. Init => NothingLost
  BY DEF Init, NothingLost
<1>2. TypeOK /\ EchoInv /\ NothingLost /\ [Next]_vars => NothingLost'
  <2> SUFFICES ASSUME TypeOK, EchoInv, NothingLost, [Next]_vars
               PROVE  NothingLost'
    OBVIOUS
  <2>1. CASE ToServer \/ ToClient
    BY <2>1, ToServerKeeps, ToClientKeeps DEF NothingLost
  <2>2. CASE Client \/ Server \/ UNCHANGED vars
    BY <2>2 DEF Client, ClientSends, ClientSendFails, ClientReceives, ClientCompares,
       Server, ServerReads, ServerEchoes, ServerEchoFails, vars, NothingLost
  <2> QED
    BY <2>1, <2>2 DEF Next
<1> QED
  BY <1>1, <1>2, TypeCorrect, Inductive, PTL DEF Spec

(* The comparison never finds a difference: where a byte was skipped the     *)
(* client never gets a whole pattern to compare.                             *)
THEOREM NoMismatch == Spec => []NeverMismatch
<1>1. Init => NeverMismatch
  BY DEF Init, NeverMismatch
<1>2. TypeOK /\ EchoInv /\ NeverMismatch /\ [Next]_vars => NeverMismatch'
  <2> SUFFICES ASSUME TypeOK, EchoInv, NeverMismatch, [Next]_vars
               PROVE  NeverMismatch'
    OBVIOUS
  <2>1. CASE ClientCompares
    BY <2>1, AllIsBack DEF ClientCompares, NeverMismatch
  <2>2. CASE ClientSends \/ ClientSendFails \/ ClientReceives
    BY <2>2 DEF ClientSends, ClientSendFails, ClientReceives, NeverMismatch
  <2>3. CASE Server \/ ToServer \/ ToClient \/ UNCHANGED vars
    BY <2>3 DEF Server, ServerReads, ServerEchoes, ServerEchoFails, ToServer, ToClient,
       client, vars, NeverMismatch
  <2> QED
    BY <2>1, <2>2, <2>3 DEF Next, Client
<1> QED
  BY <1>1, <1>2, TypeCorrect, Inductive, PTL DEF Spec
=============================================================================
