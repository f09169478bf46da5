---------------------------- MODULE BleLinkProofs ----------------------------
(***************************************************************************)
(* Proofs about BleLink for any peers, packets, sizes, write limits and    *)
(* bounds: its two safety properties and its types.                        *)
(*                                                                         *)
(* BlobsAreWellFormed holds whatever is lost: every segment on its way, and*)
(* every one in a slot, is in its range and of its peer.                   *)
(*                                                                         *)
(* InOrderUnlessLost needs to know where every frame is.  The frames a peer*)
(* cut are numbered from 1.  While none was lost, the first d of them are  *)
(* in the blobs and in the slots of the assembly (Assembled); those behind *)
(* are in the two queues of the receiver, each once and in order, however  *)
(* the frames of other peers lie between them (LineHas); and the rest is   *)
(* in the queue of the peer.                                               *)
(***************************************************************************)
EXTENDS BleLink, TLAPS

-----------------------------------------------------------------------------
(* The invariant                                                           *)

\* A segment in its range, of peer p
Of(p, f) == f.idx \in 1 .. f.total /\ Src[f.pkt] = p

\* Every segment is in its range, and queued by its peer.
FramesAreInRange ==
  /\ \A p \in Peer : \A i \in DOMAIN txQueue[p] : Of(p, txQueue[p][i])
  /\ \A i \in DOMAIN rxQueue : rxQueue[i].idx \in 1 .. rxQueue[i].total
  /\ \A i \in DOMAIN incoming : incoming[i].idx \in 1 .. incoming[i].total

\* A slot holds the segment of its number of a packet of its peer.
SlotsAreInPlace ==
  \A p \in Peer : \A i \in DOMAIN assembly[p] :
    assembly[p][i] # NoFrame =>
      /\ assembly[p][i].idx = i
      /\ assembly[p][i].total = Len(assembly[p])
      /\ Src[assembly[p][i].pkt] = p

\* The frames of the first n packets of a peer
Upto(p, n) == IF n = 0 THEN 0 ELSE sent[p][n].before + sent[p][n].total

\* A packet is sent once, in at least one segment, behind those before it.
Numbered(p) ==
  /\ \A n \in DOMAIN sent[p] :
       /\ sent[p][n].total >= 1
       /\ Src[sent[p][n].pkt] = p
       /\ sent[p][n].before = Upto(p, n - 1)
  /\ \A m, n \in DOMAIN sent[p] : sent[p][m].pkt = sent[p][n].pkt => m = n
  /\ \A m, n \in 0 .. Len(sent[p]) : m < n => Upto(p, m) < Upto(p, n)

\* f is the frame of number m of peer p.
IsFrame(p, f, m) ==
  \E n \in DOMAIN sent[p] :
    /\ f.pkt = sent[p][n].pkt
    /\ f.total = sent[p][n].total
    /\ f.idx \in 1 .. f.total
    /\ m = sent[p][n].before + f.idx

\* The first d frames of p are in its blobs and slots.
Assembled(p, d) ==
  LET n == Len(received[p]) IN
  /\ n <= Len(sent[p])
  /\ \A i \in 1 .. n : Whole(received[p][i], sent[p][i])
  /\ \/ assembly[p] = <<>> /\ d = Upto(p, n)
     \/ /\ n + 1 \in DOMAIN sent[p]
        /\ \E j \in 1 .. sent[p][n + 1].total - 1 :
             /\ d = Upto(p, n) + j
             /\ Len(assembly[p]) = sent[p][n + 1].total
             /\ \A i \in DOMAIN assembly[p] :
                  IF i <= j THEN assembly[p][i].pkt = sent[p][n + 1].pkt /\ assembly[p][i].idx = i
                            ELSE assembly[p][i] = NoFrame

\* The receiver's queue, in the order in which it is reassembled
Line == incoming \o rxQueue

\* Among the frames of a line, those of p are its frames d + 1 to t, in order.
Has(line, p, d, t) ==
  /\ \A i \in DOMAIN line : Src[line[i].pkt] = p => \E m \in d + 1 .. t : IsFrame(p, line[i], m)
  /\ \A m \in d + 1 .. t : \E i \in DOMAIN line : IsFrame(p, line[i], m)
  /\ \A i, j \in DOMAIN line : \A l, m \in d + 1 .. t :
       i < j /\ IsFrame(p, line[i], l) /\ IsFrame(p, line[j], m) => l < m

\* The last frames of p wait in its queue.
Waiting(p, t) ==
  /\ t + Len(txQueue[p]) = FramesOf(p)
  /\ \A i \in DOMAIN txQueue[p] : IsFrame(p, txQueue[p][i], t + i)

\* No frame of p is missing anywhere.
InStep(p) ==
  \E d, t \in Nat : d <= t /\ Assembled(p, d) /\ Has(Line, p, d, t) /\ Waiting(p, t)

Placed == FramesAreInRange /\ SlotsAreInPlace /\ BlobsAreWellFormed
Streams == \A p \in Peer : Numbered(p) /\ (p \notin lost => InStep(p))

\* The inductive invariant.
IInv == TypeOK /\ Placed /\ Streams

-----------------------------------------------------------------------------
(* Frames and their numbers                                                *)

\* What the types say of one peer.
LEMMA PeerTypes ==
  ASSUME TypeOK, NEW p \in Peer
  PROVE  /\ sent[p] \in Seq(Cut) /\ Len(sent[p]) \in Nat /\ DOMAIN sent[p] = 1 .. Len(sent[p])
         /\ \A n \in DOMAIN sent[p] : /\ sent[p][n].pkt \in Pkt /\ sent[p][n].total \in Nat
                                      /\ sent[p][n].before \in Nat
         /\ \A n \in 0 .. Len(sent[p]) : Upto(p, n) \in Nat
         /\ FramesOf(p) = Upto(p, Len(sent[p]))
<1>1. sent[p] \in Seq(Cut) /\ Len(sent[p]) \in Nat /\ DOMAIN sent[p] = 1 .. Len(sent[p])
  BY DEF TypeOK
<1>2. \A c \in Cut : c.pkt \in Pkt /\ c.total \in Nat /\ c.before \in Nat
  BY DEF Cut
<1>3. \A n \in DOMAIN sent[p] : sent[p][n] \in Cut
  BY <1>1
<1>4. \A n \in DOMAIN sent[p] : /\ sent[p][n].pkt \in Pkt /\ sent[p][n].total \in Nat
                                /\ sent[p][n].before \in Nat
  BY <1>2, <1>3
<1>5. \A n \in 0 .. Len(sent[p]) : Upto(p, n) \in Nat
  BY <1>1, <1>4 DEF Upto
<1>6. FramesOf(p) = Upto(p, Len(sent[p]))
  BY <1>1 DEF FramesOf, Upto, Last
<1>7. QED
  BY <1>1, <1>4, <1>5, <1>6

\* A frame has one number.
LEMMA OneNumber ==
  ASSUME TypeOK, NEW p \in Peer, Numbered(p), NEW f, NEW l, NEW m,
         IsFrame(p, f, l), IsFrame(p, f, m)
  PROVE  l = m
BY DEF Numbered, IsFrame

\* The frames of number 1 to j behind n packets are the first of the next packet.
LEMMA Located ==
  ASSUME TypeOK, NEW p \in Peer, Numbered(p), NEW n \in Nat, n + 1 \in DOMAIN sent[p],
         NEW j \in 1 .. sent[p][n + 1].total, NEW f, IsFrame(p, f, Upto(p, n) + j)
  PROVE  f.pkt = sent[p][n + 1].pkt /\ f.total = sent[p][n + 1].total /\ f.idx = j
<1>1. PICK k \in DOMAIN sent[p] :
        /\ f.pkt = sent[p][k].pkt /\ f.total = sent[p][k].total
        /\ f.idx \in 1 .. f.total /\ Upto(p, n) + j = sent[p][k].before + f.idx
  BY DEF IsFrame
<1>2. /\ k \in 1 .. Len(sent[p]) /\ n \in 0 .. Len(sent[p]) /\ n + 1 \in 1 .. Len(sent[p])
      /\ k - 1 \in 0 .. Len(sent[p]) /\ Len(sent[p]) \in Nat
      /\ sent[p][k].total \in Nat /\ sent[p][n + 1].total \in Nat
      /\ Upto(p, n) \in Nat /\ Upto(p, k - 1) \in Nat
  <2>1. PICK N \in Nat : N = Len(sent[p]) /\ DOMAIN sent[p] = 1 .. N
    BY PeerTypes
  <2>2. /\ k \in 1 .. N /\ n \in 0 .. N /\ n + 1 \in 1 .. N
        /\ k - 1 \in 0 .. N
    BY <2>1
  <2>3. sent[p][k].total \in Nat /\ sent[p][n + 1].total \in Nat
    BY PeerTypes
  <2>4. Upto(p, n) \in Nat /\ Upto(p, k - 1) \in Nat
    BY <2>1, <2>2, PeerTypes
  <2>5. QED
    BY <2>1, <2>2, <2>3, <2>4
<1>3. /\ sent[p][k].before = Upto(p, k - 1) /\ Upto(p, k) = Upto(p, k - 1) + sent[p][k].total
      /\ Upto(p, n + 1) = Upto(p, n) + sent[p][n + 1].total
  <2>1. sent[p][k].before = Upto(p, k - 1) /\ sent[p][n + 1].before = Upto(p, (n + 1) - 1)
    BY DEF Numbered
  <2>2. (n + 1) - 1 = n
    OBVIOUS
  <2>3. k # 0 /\ n + 1 # 0
    BY <1>2
  <2>4. QED
    BY <2>1, <2>2, <2>3 DEF Upto
<1>4. \A l, m \in 0 .. Len(sent[p]) : l < m => Upto(p, l) < Upto(p, m)
  BY DEF Numbered
<1>5. PICK i \in Nat, x \in Nat, y \in Nat, a \in Nat, b \in Nat :
        /\ i = f.idx /\ x = sent[p][k].total /\ y = sent[p][n + 1].total
        /\ a = Upto(p, n) /\ b = Upto(p, k - 1)
        /\ 1 <= i /\ i <= x /\ j \in Nat /\ 1 <= j /\ j <= y /\ a + j = b + i
  <2>1. j \in Nat /\ 1 <= j /\ j <= sent[p][n + 1].total
    BY <1>2
  <2>2. f.idx \in Nat /\ 1 <= f.idx /\ f.idx <= sent[p][k].total
    BY <1>1, <1>2
  <2>3. Upto(p, n) + j = Upto(p, k - 1) + f.idx
    BY <1>1, <1>3
  <2>4. QED
    BY <1>2, <2>1, <2>2, <2>3
<1>6. k = n + 1
  <2>1. CASE k < n + 1
    <3>1. k \in 0 .. Len(sent[p]) /\ (k = n \/ k < n)
      BY <1>2, <2>1
    <3>2. Upto(p, k) = Upto(p, n) \/ Upto(p, k) < Upto(p, n)
      BY <1>2, <1>4, <3>1
    <3>3. b + x <= a
      BY <1>3, <1>5, <3>2
    <3>4. QED
      BY <1>5, <3>3
  <2>2. CASE k > n + 1
    <3>1. n + 1 \in 0 .. Len(sent[p]) /\ (n + 1 = k - 1 \/ n + 1 < k - 1)
      BY <1>2, <2>2
    <3>2. Upto(p, n + 1) = Upto(p, k - 1) \/ Upto(p, n + 1) < Upto(p, k - 1)
      BY <1>2, <1>4, <3>1
    <3>3. a + y <= b
      BY <1>3, <1>5, <3>2
    <3>4. QED
      BY <1>5, <3>3
  <2>3. QED
    BY <1>2, <2>1, <2>2
<1>7. a = b
  BY <1>5, <1>6
<1>8. f.idx = j
  BY <1>5, <1>7
<1>9. QED
  BY <1>1, <1>6, <1>8

\* A frame of p behind the others.
LEMMA HasMore ==
  ASSUME TypeOK, NEW p \in Peer, Numbered(p), NEW line \in Seq(Frame), NEW f \in Frame,
         NEW d \in Nat, NEW t \in Nat, d <= t, Has(line, p, d, t), IsFrame(p, f, t + 1)
  PROVE  Has(Append(line, f), p, d, t + 1)
<1>1. PICK more : more = Append(line, f)
  OBVIOUS
<1>2. /\ Len(line) \in Nat /\ DOMAIN line = 1 .. Len(line) /\ DOMAIN more = 1 .. Len(line) + 1
      /\ more[Len(line) + 1] = f /\ \A i \in DOMAIN line : more[i] = line[i]
  BY <1>1
<1>3. ASSUME NEW i \in DOMAIN more, Src[more[i].pkt] = p
      PROVE  \E m \in d + 1 .. t + 1 : IsFrame(p, more[i], m)
  <2>1. CASE i \in DOMAIN line
    <3>1. PICK m \in d + 1 .. t : IsFrame(p, line[i], m)
      BY <1>2, <1>3, <2>1 DEF Has
    <3>2. m \in d + 1 .. t + 1 /\ more[i] = line[i]
      BY <1>2, <2>1
    <3>3. QED
      BY <3>1, <3>2
  <2>2. CASE i = Len(line) + 1
    <3>1. t + 1 \in d + 1 .. t + 1
      OBVIOUS
    <3>2. QED
      BY <1>2, <2>2, <3>1
  <2>3. QED
    BY <1>2, <2>1, <2>2
<1>4. ASSUME NEW m \in d + 1 .. t + 1 PROVE \E i \in DOMAIN more : IsFrame(p, more[i], m)
  <2>1. CASE m = t + 1
    BY <1>2, <2>1
  <2>2. CASE m # t + 1
    <3>1. m \in d + 1 .. t
      BY <2>2
    <3>2. PICK i \in DOMAIN line : IsFrame(p, line[i], m)
      BY <3>1 DEF Has
    <3>3. QED
      BY <1>2, <3>2
  <2>3. QED
    BY <2>1, <2>2
<1>5. ASSUME NEW i \in DOMAIN more, NEW j \in DOMAIN more, NEW l \in d + 1 .. t + 1,
             NEW m \in d + 1 .. t + 1, i < j, IsFrame(p, more[i], l), IsFrame(p, more[j], m)
      PROVE  l < m
  <2>1. i \in DOMAIN line /\ more[i] = line[i]
    BY <1>2, <1>5
  <2>2. Src[line[i].pkt] = p
    BY <1>5, <2>1 DEF IsFrame, Numbered
  <2>3. PICK k \in d + 1 .. t : IsFrame(p, line[i], k)
    BY <2>1, <2>2 DEF Has
  <2>4. l = k
    BY <1>5, <2>1, <2>3, OneNumber
  <2>5. CASE j \in DOMAIN line
    <3>1. Src[line[j].pkt] = p /\ more[j] = line[j]
      <4>1. more[j] = line[j] /\ IsFrame(p, line[j], m)
        BY <1>2, <1>5, <2>5
      <4>2. QED
        BY <4>1 DEF IsFrame, Numbered
    <3>2. PICK h \in d + 1 .. t : IsFrame(p, line[j], h)
      BY <2>5, <3>1 DEF Has
    <3>3. m = h
      BY <1>5, <3>1, <3>2, OneNumber
    <3>4. QED
      BY <1>5, <2>1, <2>3, <2>4, <2>5, <3>1, <3>2, <3>3 DEF Has
  <2>6. CASE j = Len(line) + 1
    <3>1. m = t + 1
      BY <1>2, <1>5, <2>6, OneNumber
    <3>2. QED
      BY <2>3, <2>4, <3>1
  <2>7. QED
    BY <1>2, <2>5, <2>6
<1>6. Has(more, p, d, t + 1)
  BY <1>3, <1>4, <1>5 DEF Has
<1>7. QED
  BY <1>1, <1>6

\* A frame of another peer behind the others.
LEMMA HasOther ==
  ASSUME NEW p \in Peer, Numbered(p), NEW line \in Seq(Frame), NEW f \in Frame,
         NEW d \in Nat, NEW t \in Nat, Has(line, p, d, t), Src[f.pkt] # p
  PROVE  Has(Append(line, f), p, d, t)
<1>1. PICK more : more = Append(line, f)
  OBVIOUS
<1>2. /\ Len(line) \in Nat /\ DOMAIN line = 1 .. Len(line) /\ DOMAIN more = 1 .. Len(line) + 1
      /\ more[Len(line) + 1] = f /\ \A i \in DOMAIN line : more[i] = line[i]
  BY <1>1
<1>3. \A m : ~IsFrame(p, f, m)
  BY DEF IsFrame, Numbered
<1>4. \A i \in DOMAIN more : i \in DOMAIN line \/ more[i] = f
  BY <1>2
<1>5. DOMAIN line \subseteq DOMAIN more
  BY <1>2
<1>6. \A i \in DOMAIN more : Src[more[i].pkt] = p => \E m \in d + 1 .. t : IsFrame(p, more[i], m)
  BY <1>2, <1>4 DEF Has
<1>7. \A m \in d + 1 .. t : \E i \in DOMAIN more : IsFrame(p, more[i], m)
  BY <1>2, <1>5 DEF Has
<1>8. ASSUME NEW i \in DOMAIN more, NEW j \in DOMAIN more, NEW l \in d + 1 .. t,
             NEW m \in d + 1 .. t, i < j, IsFrame(p, more[i], l), IsFrame(p, more[j], m)
      PROVE  l < m
  <2>1. i \in DOMAIN line /\ j \in DOMAIN line
    BY <1>3, <1>4, <1>8
  <2>2. IsFrame(p, line[i], l) /\ IsFrame(p, line[j], m)
    BY <1>2, <1>8, <2>1
  <2>3. QED
    BY <1>8, <2>1, <2>2 DEF Has
<1>9. Has(more, p, d, t)
  BY <1>6, <1>7, <1>8 DEF Has
<1>10. QED
  BY <1>1, <1>9

\* The first frame of a line is taken.  If it is of p, it is the next one of p.
LEMMA HasTail ==
  ASSUME TypeOK, NEW p \in Peer, Numbered(p), NEW line \in Seq(Frame), line # <<>>,
         NEW d \in Nat, NEW t \in Nat, Has(line, p, d, t)
  PROVE  /\ Src[line[1].pkt] # p => Has(Tail(line), p, d, t)
         /\ Src[line[1].pkt] = p =>
              d + 1 \in d + 1 .. t /\ IsFrame(p, line[1], d + 1) /\ Has(Tail(line), p, d + 1, t)
<1>1. PICK rest : rest = Tail(line)
  OBVIOUS
<1>2. /\ Len(line) \in Nat /\ DOMAIN line = 1 .. Len(line) /\ DOMAIN rest = 1 .. Len(line) - 1
      /\ 1 \in DOMAIN line /\ \A i \in DOMAIN rest : i + 1 \in DOMAIN line /\ rest[i] = line[i + 1]
  BY <1>1
<1>3. ASSUME NEW i \in DOMAIN line, i # 1 PROVE i - 1 \in DOMAIN rest /\ rest[i - 1] = line[i]
  <2>1. i - 1 \in DOMAIN rest /\ (i - 1) + 1 = i
    BY <1>2, <1>3
  <2>2. QED
    BY <1>2, <2>1
<1>4. ASSUME NEW i \in DOMAIN rest, NEW j \in DOMAIN rest, NEW l \in d + 1 .. t,
             NEW m \in d + 1 .. t, i < j, IsFrame(p, rest[i], l), IsFrame(p, rest[j], m)
      PROVE  l < m
  <2>1. i + 1 \in DOMAIN line /\ j + 1 \in DOMAIN line /\ i + 1 < j + 1
    BY <1>2, <1>4
  <2>2. IsFrame(p, line[i + 1], l) /\ IsFrame(p, line[j + 1], m)
    BY <1>2, <1>4
  <2>3. QED
    BY <2>1, <2>2 DEF Has
<1>5. CASE Src[line[1].pkt] # p
  <2>1. \A m : ~IsFrame(p, line[1], m)
    BY <1>5 DEF IsFrame, Numbered
  <2>2. \A i \in DOMAIN rest : Src[rest[i].pkt] = p => \E m \in d + 1 .. t : IsFrame(p, rest[i], m)
    BY <1>2 DEF Has
  <2>3. \A m \in d + 1 .. t : \E i \in DOMAIN rest : IsFrame(p, rest[i], m)
    BY <1>3, <2>1 DEF Has
  <2>4. Has(rest, p, d, t)
    BY <1>4, <2>2, <2>3 DEF Has
  <2>5. QED
    BY <1>1, <1>5, <2>4
<1>6. CASE Src[line[1].pkt] = p
  <2>1. PICK n \in d + 1 .. t : IsFrame(p, line[1], n)
    BY <1>2, <1>6 DEF Has
  <2>2. d + 1 \in d + 1 .. t
    BY <2>1
  <2>3. n = d + 1
    <3>1. PICK i \in DOMAIN line : IsFrame(p, line[i], d + 1)
      BY <2>2 DEF Has
    <3>2. CASE i = 1
      BY <2>1, <3>1, <3>2, OneNumber
    <3>3. CASE i # 1
      <4>1. 1 < i
        BY <1>2, <3>3
      <4>2. n < d + 1
        BY <1>2, <2>1, <2>2, <3>1, <4>1 DEF Has
      <4>3. QED
        BY <2>1, <4>2
    <3>4. QED
      BY <3>2, <3>3
  <2>4. ASSUME NEW i \in DOMAIN rest, Src[rest[i].pkt] = p
        PROVE  \E m \in (d + 1) + 1 .. t : IsFrame(p, rest[i], m)
    <3>1. i + 1 \in DOMAIN line /\ rest[i] = line[i + 1] /\ 1 < i + 1
      BY <1>2
    <3>2. PICK m \in d + 1 .. t : IsFrame(p, line[i + 1], m)
      BY <2>4, <3>1 DEF Has
    <3>3. d + 1 < m
      BY <1>2, <2>1, <2>2, <2>3, <3>1, <3>2 DEF Has
    <3>4. m \in (d + 1) + 1 .. t
      BY <3>3
    <3>5. QED
      BY <3>1, <3>2, <3>4
  <2>5. ASSUME NEW m \in (d + 1) + 1 .. t PROVE \E i \in DOMAIN rest : IsFrame(p, rest[i], m)
    <3>1. m \in d + 1 .. t /\ m # d + 1
      OBVIOUS
    <3>2. PICK i \in DOMAIN line : IsFrame(p, line[i], m)
      BY <3>1 DEF Has
    <3>3. i # 1
      BY <2>1, <2>3, <3>1, <3>2, OneNumber
    <3>4. QED
      BY <1>3, <3>2, <3>3
  <2>6. \A l \in (d + 1) + 1 .. t : l \in d + 1 .. t
    OBVIOUS
  <2>7. Has(rest, p, d + 1, t)
    BY <1>4, <2>4, <2>5, <2>6 DEF Has
  <2>8. QED
    BY <1>1, <1>6, <2>1, <2>2, <2>3, <2>7
<1>7. QED
  BY <1>5, <1>6

-----------------------------------------------------------------------------
(* What stays                                                              *)

\* The numbers of a peer's frames depend on what it sent.
LEMMA SameNumbers ==
  ASSUME NEW p \in Peer, sent'[p] = sent[p]
  PROVE  /\ Numbered(p)' <=> Numbered(p)
         /\ \A f, m : IsFrame(p, f, m)' <=> IsFrame(p, f, m)
         /\ \A n : Upto(p, n)' = Upto(p, n)
         /\ FramesOf(p)' = FramesOf(p)
BY DEF Numbered, IsFrame, Upto, FramesOf

\* What the blobs and slots of a peer hold depends on these.
LEMMA SameAssembled ==
  ASSUME NEW p \in Peer, sent'[p] = sent[p], received'[p] = received[p],
         assembly'[p] = assembly[p], NEW d, Assembled(p, d)
  PROVE  Assembled(p, d)'
BY SameNumbers DEF Assembled

\* What a line has of a peer depends on what the peer sent.
LEMMA SameHas ==
  ASSUME NEW p \in Peer, sent'[p] = sent[p], NEW line, Line' = line,
         NEW d, NEW t, Has(line, p, d, t)
  PROVE  Has(Line, p, d, t)'
<1>1. \A f, m : IsFrame(p, f, m)' <=> IsFrame(p, f, m)
  BY SameNumbers
<1>2. \A i \in DOMAIN Line' : Src[Line'[i].pkt] = p =>
        \E m \in d + 1 .. t : IsFrame(p, line[i], m)'
  BY <1>1 DEF Has
<1>3. \A m \in d + 1 .. t : \E i \in DOMAIN Line' : IsFrame(p, line[i], m)'
  BY <1>1 DEF Has
<1>4. ASSUME NEW i \in DOMAIN Line', NEW j \in DOMAIN Line', NEW l \in d + 1 .. t,
             NEW m \in d + 1 .. t, i < j, IsFrame(p, line[i], l)', IsFrame(p, line[j], m)'
      PROVE  l < m
  BY <1>1, <1>4 DEF Has
<1>5. QED
  BY <1>2, <1>3, <1>4 DEF Has

\* A peer stays in step if nothing of it changes.
LEMMA StaysInStep ==
  ASSUME NEW p \in Peer, sent'[p] = sent[p], received'[p] = received[p],
         assembly'[p] = assembly[p], txQueue'[p] = txQueue[p], Line' = Line
  PROVE  /\ Numbered(p) => Numbered(p)'
         /\ InStep(p) => InStep(p)'
<1>1. ASSUME NEW t, Waiting(p, t) PROVE Waiting(p, t)'
  BY <1>1, SameNumbers DEF Waiting
<1>2. QED
  BY <1>1, SameNumbers, SameAssembled, SameHas DEF InStep

\* A step that moves no frame keeps the invariant of the frames.
LEMMA StillStep ==
  ASSUME Placed, Streams, UNCHANGED <<txQueue, rxQueue, incoming, asmVars, sent, lost>>
  PROVE  Placed' /\ Streams'
<1>1. Line' = Line
  BY DEF Line
<1>2. Streams'
  BY <1>1, StaysInStep DEF Streams, asmVars
<1>3. Placed'
  BY DEF Placed, FramesAreInRange, SlotsAreInPlace, BlobsAreWellFormed, Of, asmVars
<1>4. QED
  BY <1>2, <1>3

\* What the types say of the frames.
LEMMA LineFacts ==
  ASSUME TypeOK
  PROVE  /\ Line \in Seq(Frame)
         /\ incoming \in Seq(Frame) /\ rxQueue \in Seq(Frame)
         /\ \A p \in Peer : txQueue[p] \in Seq(Frame)
         /\ \A f \in Frame : /\ f.pkt \in Pkt /\ f.idx \in Nat /\ f.total \in Nat
                             /\ f.limit \in Nat /\ Src[f.pkt] \in Peer /\ f # NoFrame
<1>1. /\ incoming \in Seq(Frame) /\ rxQueue \in Seq(Frame)
      /\ \A p \in Peer : txQueue[p] \in Seq(Frame)
  BY DEF TypeOK
<1>2. \A f \in Frame : /\ f.pkt \in Pkt /\ f.idx \in Nat /\ f.total \in Nat /\ f.limit \in Nat
  BY DEF Frame
<1>3. \A f \in Frame : Src[f.pkt] \in Peer /\ f # NoFrame
  BY <1>2, SrcAssumption, NoPktAssumption DEF NoFrame
<1>4. QED
  BY <1>1, <1>2, <1>3 DEF Line

-----------------------------------------------------------------------------
(* The steps of the connections and of the radio                           *)

\* A packet is cut into at least one segment.
LEMMA SomeSegs ==
  ASSUME NEW size \in Nat \ {0}, NEW limit \in Nat \ {0}
  PROVE  TotalSegs(size, limit) \in Nat /\ TotalSegs(size, limit) >= 1
<1>1. CASE size <= limit
  BY <1>1 DEF TotalSegs
<1>2. CASE ~(size <= limit)
  <2> DEFINE sum == size + limit - 1
             q == sum \div limit
  <2>1. sum \in Nat /\ sum >= limit
    BY <1>2
  <2> HIDE DEF sum
  <2>2. q \in Int /\ sum = limit * q + (sum % limit) /\ sum % limit \in 0 .. limit - 1
    BY <2>1
  <2>3. q >= 1
    BY <2>1, <2>2
  <2>4. TotalSegs(size, limit) = q
    BY <1>2 DEF TotalSegs, sum
  <2> HIDE DEF q
  <2>5. QED
    BY <2>2, <2>3, <2>4
<1>3. QED
  BY <1>1, <1>2

\* Connections, registrations and write limits move no frame.
LEMMA ConnectionStep ==
  ASSUME IInv, NEW p \in Peer,
         LinkUp(p) \/ NegotiateMtu(p) \/ Register(p) \/ LinkDown(p)
  PROVE  IInv'
<1>1. UNCHANGED <<txQueue, rxQueue, incoming, rxRate, asmVars, sent, lost, losses>>
  BY DEF LinkUp, NegotiateMtu, Register, LinkDown, rxVars
<1>2. Placed' /\ Streams'
  BY <1>1, StillStep DEF IInv
<1>3. link' \in [Peer -> Limits \cup {0}] /\ peerMtu' \in [Peer -> Limits \cup {0}]
  BY DEF LinkUp, NegotiateMtu, Register, LinkDown, IInv, TypeOK
<1>4. blePeers' \subseteq Peer
  BY DEF LinkUp, NegotiateMtu, Register, LinkDown, IInv, TypeOK
<1>5. connects' \in 0 .. MaxConnects
  <2>1. connects \in 0 .. MaxConnects /\ MaxConnects \in Nat
    BY BleBoundsAssumption DEF IInv, TypeOK
  <2>2. connects' = connects \/ (connects < MaxConnects /\ connects' = connects + 1)
    BY DEF LinkUp, NegotiateMtu, Register, LinkDown
  <2>3. QED
    BY <2>1, <2>2
<1>6. TypeOK'
  BY <1>1, <1>3, <1>4, <1>5 DEF IInv, TypeOK, asmVars
<1>7. QED
  BY <1>2, <1>6 DEF IInv

\* The rest of the queue of a peer.
LEMMA TailFacts ==
  ASSUME TypeOK, NEW p \in Peer, txQueue[p] # <<>>,
         txQueue' = [txQueue EXCEPT ![p] = Tail(@)]
  PROVE  /\ txQueue' \in [Peer -> Seq(Frame)]
         /\ \A q \in Peer \ {p} : txQueue'[q] = txQueue[q]
         /\ Head(txQueue[p]) = txQueue[p][1] /\ txQueue[p][1] \in Frame
         /\ 1 \in DOMAIN txQueue[p] /\ Len(txQueue[p]) \in Nat
         /\ Len(txQueue'[p]) = Len(txQueue[p]) - 1
         /\ \A i \in DOMAIN txQueue'[p] : /\ i \in Nat /\ i + 1 \in DOMAIN txQueue[p]
                                          /\ txQueue'[p][i] = txQueue[p][i + 1]
<1>1. txQueue[p] \in Seq(Frame) /\ txQueue \in [Peer -> Seq(Frame)]
  BY DEF TypeOK
<1>2. txQueue'[p] = Tail(txQueue[p]) /\ Tail(txQueue[p]) \in Seq(Frame)
  BY <1>1
<1>3. txQueue' \in [Peer -> Seq(Frame)] /\ \A q \in Peer \ {p} : txQueue'[q] = txQueue[q]
  BY <1>1, <1>2
<1>4. QED
  BY <1>1, <1>2, <1>3

\* A frame that is refused or lost takes its peer out of step, and no other.
LEMMA DropStep ==
  ASSUME IInv, NEW p \in Peer, RefuseFrame(p) \/ LoseFrame(p)
  PROVE  IInv'
<1>1. /\ UNCHANGED <<connVars, rxVars, asmVars, sent>>
      /\ txQueue[p] # <<>> /\ txQueue' = [txQueue EXCEPT ![p] = Tail(@)]
      /\ lost' = lost \cup {p} /\ losses' \in 0 .. MaxLosses
  BY BleBoundsAssumption DEF RefuseFrame, LoseFrame, IInv, TypeOK
<1>2. /\ txQueue' \in [Peer -> Seq(Frame)]
      /\ \A q \in Peer \ {p} : txQueue'[q] = txQueue[q]
      /\ \A i \in DOMAIN txQueue'[p] : /\ i + 1 \in DOMAIN txQueue[p]
                                       /\ txQueue'[p][i] = txQueue[p][i + 1]
  BY <1>1, TailFacts DEF IInv
<1>3. TypeOK'
  BY <1>1, <1>2 DEF IInv, TypeOK, connVars, rxVars, asmVars
<1>4. Placed'
  BY <1>1, <1>2 DEF IInv, Placed, FramesAreInRange, SlotsAreInPlace, BlobsAreWellFormed, Of,
    rxVars, asmVars
<1>5. ASSUME NEW q \in Peer PROVE Numbered(q)' /\ (q \notin lost' => InStep(q)')
  <2>1. sent'[q] = sent[q] /\ received'[q] = received[q] /\ assembly'[q] = assembly[q] /\ Line' = Line
    BY <1>1 DEF asmVars, rxVars, Line
  <2>2. Numbered(q)'
    BY <2>1, SameNumbers DEF IInv, Streams
  <2>3. ASSUME q \notin lost' PROVE InStep(q)'
    BY <1>1, <1>2, <2>1, <2>3, StaysInStep DEF IInv, Streams
  <2>4. QED
    BY <2>2, <2>3
<1>6. QED
  BY <1>3, <1>4, <1>5 DEF IInv, Streams

\* The poll moves the queue as it is.
LEMMA PollStep ==
  ASSUME IInv, PollRx
  PROVE  IInv'
<1>1. /\ UNCHANGED <<connVars, txQueue, rxRate, asmVars, sent, lost, losses>>
      /\ incoming = <<>> /\ incoming' = rxQueue /\ rxQueue' = <<>>
  BY DEF PollRx
<1>2. rxQueue \in Seq(Frame) /\ Len(rxQueue) <= RxQueueMax /\ RxQueueMax \in Nat
  BY BleBoundsAssumption DEF IInv, TypeOK
<1>3. Line' = Line
  BY <1>1, <1>2 DEF Line
<1>4. Streams'
  BY <1>1, <1>3, StaysInStep DEF IInv, Streams, asmVars
<1>5. TypeOK'
  BY <1>1, <1>2 DEF IInv, TypeOK, connVars, asmVars
<1>6. Placed'
  BY <1>1 DEF IInv, Placed, FramesAreInRange, SlotsAreInPlace, BlobsAreWellFormed, Of, asmVars
<1>7. QED
  BY <1>4, <1>5, <1>6 DEF IInv

\* The rate stays below its limit.
LEMMA RateType ==
  ASSUME TypeOK, NEW p \in Peer, NEW count \in {1, rxRate[p] + 1},
         rxRate' = [rxRate EXCEPT ![p] = Min({count, RxPpsLimit})]
  PROVE  rxRate' \in [Peer -> 0 .. RxPpsLimit]
<1>1. count \in Nat /\ RxPpsLimit \in Nat
  BY BleBoundsAssumption DEF TypeOK
<1>2. PICK m \in {count, RxPpsLimit} : \A y \in {count, RxPpsLimit} : m <= y
  BY <1>1
<1>3. Min({count, RxPpsLimit}) \in 0 .. RxPpsLimit
  BY <1>1, <1>2 DEF Min
<1>4. QED
  BY <1>3 DEF TypeOK

\* A frame arrives, in the order of its peer, or its peer is out of step.
LEMMA ArriveStep ==
  ASSUME IInv, NEW p \in Peer, ArriveFrame(p)
  PROVE  IInv'
<1>0. TypeOK /\ Placed /\ Streams
  BY DEF IInv
<1>1. /\ UNCHANGED <<connVars, incoming, asmVars, sent, losses>>
      /\ txQueue[p] # <<>> /\ txQueue' = [txQueue EXCEPT ![p] = Tail(@)]
  BY DEF ArriveFrame
<1>2. /\ txQueue' \in [Peer -> Seq(Frame)]
      /\ \A q \in Peer \ {p} : txQueue'[q] = txQueue[q]
      /\ Head(txQueue[p]) = txQueue[p][1] /\ txQueue[p][1] \in Frame /\ 1 \in DOMAIN txQueue[p]
      /\ Len(txQueue[p]) \in Nat /\ Len(txQueue'[p]) = Len(txQueue[p]) - 1
      /\ \A i \in DOMAIN txQueue'[p] : /\ i \in Nat /\ i + 1 \in DOMAIN txQueue[p]
                                       /\ txQueue'[p][i] = txQueue[p][i + 1]
  BY <1>0, <1>1, TailFacts
<1>3. PICK f \in Frame : f = txQueue[p][1] /\ Of(p, f)
  BY <1>0, <1>2 DEF Placed, FramesAreInRange
<1>4. /\ rxRate' \in [Peer -> 0 .. RxPpsLimit]
      /\ \/ /\ rxQueue' = Append(rxQueue, f) /\ lost' = lost /\ Len(rxQueue) < RxQueueMax
         \/ /\ rxQueue' = rxQueue /\ lost' = lost \cup {p}
  <2>1. PICK count \in {1, rxRate[p] + 1} :
          /\ rxRate' = [rxRate EXCEPT ![p] = Min({count, RxPpsLimit})]
          /\ IF Accepts(count)
               THEN rxQueue' = Append(rxQueue, f) /\ UNCHANGED lost
               ELSE lost' = lost \cup {p} /\ UNCHANGED rxQueue
    BY <1>2, <1>3 DEF ArriveFrame
  <2>2. QED
    BY <1>0, <2>1, RateType DEF Accepts
<1>5. rxQueue \in Seq(Frame) /\ incoming \in Seq(Frame) /\ Len(rxQueue) <= RxQueueMax
      /\ RxQueueMax \in Nat
  BY <1>0, BleBoundsAssumption DEF TypeOK
<1>6. rxQueue' \in Seq(Frame) /\ Len(rxQueue') <= RxQueueMax
  <2>1. CASE rxQueue' = rxQueue
    BY <1>5, <2>1
  <2>2. CASE rxQueue' = Append(rxQueue, f) /\ Len(rxQueue) < RxQueueMax
    BY <1>5, <2>2
  <2>3. QED
    BY <1>4, <2>1, <2>2
<1>7. TypeOK'
  BY <1>0, <1>1, <1>2, <1>4, <1>6 DEF TypeOK, connVars, asmVars
<1>8. Placed'
  <2>1. \A i \in DOMAIN rxQueue' : rxQueue'[i] = f \/ (i \in DOMAIN rxQueue /\ rxQueue'[i] = rxQueue[i])
    <3>1. CASE rxQueue' = rxQueue
      BY <3>1
    <3>2. CASE rxQueue' = Append(rxQueue, f)
      BY <1>5, <3>2
    <3>3. QED
      BY <1>4, <3>1, <3>2
  <2>2. \A i \in DOMAIN rxQueue' : rxQueue'[i].idx \in 1 .. rxQueue'[i].total
    BY <1>0, <1>3, <2>1 DEF Placed, FramesAreInRange, Of
  <2>3. \A q \in Peer : \A i \in DOMAIN txQueue'[q] : Of(q, txQueue'[q][i])
    <3>1. ASSUME NEW q \in Peer, NEW i \in DOMAIN txQueue'[q] PROVE Of(q, txQueue'[q][i])
      BY <1>0, <1>2 DEF Placed, FramesAreInRange
    <3>2. QED
      BY <3>1
  <2>4. SlotsAreInPlace' /\ BlobsAreWellFormed'
    BY <1>0, <1>1 DEF Placed, SlotsAreInPlace, BlobsAreWellFormed, asmVars
  <2>5. QED
    BY <1>0, <1>1, <2>2, <2>3, <2>4 DEF Placed, FramesAreInRange, Of
<1>9. \A q \in Peer : /\ sent'[q] = sent[q] /\ received'[q] = received[q]
                      /\ assembly'[q] = assembly[q]
  BY <1>1 DEF asmVars
<1>10. ASSUME NEW q \in Peer, q \notin lost' PROVE InStep(q)'
  <2>1. q \notin lost /\ Numbered(q) /\ InStep(q)
    BY <1>0, <1>4, <1>10 DEF Streams
  <2>2. PICK d \in Nat, t \in Nat :
          d <= t /\ Assembled(q, d) /\ Has(Line, q, d, t) /\ Waiting(q, t)
    BY <2>1 DEF InStep
  <2>3. Assembled(q, d)'
    BY <1>9, <2>2, SameAssembled
  <2>4. CASE rxQueue' = rxQueue /\ lost' = lost \cup {p}
    <3>1. q # p /\ Line' = Line
      BY <1>1, <1>10, <2>4 DEF Line
    <3>2. QED
      BY <1>2, <1>9, <2>1, <3>1, StaysInStep
  <2>5. CASE rxQueue' = Append(rxQueue, f) /\ lost' = lost
    <3>1. Line' = Append(Line, f) /\ Line \in Seq(Frame)
      BY <1>1, <1>2, <1>5, <2>5 DEF Line
    <3>2. CASE q = p
      <4>1. PICK u \in Nat : u = t + 1 /\ d <= u
        BY <2>2
      <4>2. IsFrame(p, f, u) /\ t + Len(txQueue[p]) = FramesOf(p)
        BY <1>2, <1>3, <2>2, <3>2, <4>1 DEF Waiting
      <4>3. Has(Append(Line, f), p, d, u)
        BY <1>0, <2>1, <2>2, <3>1, <3>2, <4>1, <4>2, HasMore
      <4>4. Has(Line, p, d, u)'
        <5>1. sent'[p] = sent[p]
          BY <1>9
        <5>2. PICK line : line = Append(Line, f)
          OBVIOUS
        <5>3. Line' = line /\ Has(line, p, d, u)
          BY <3>1, <4>3, <5>2
        <5>4. QED
          BY <5>1, <5>3, SameHas
      <4>5. u + Len(txQueue'[p]) = FramesOf(p)'
        <5>1. sent'[p] = sent[p]
          BY <1>9
        <5>2. FramesOf(p)' = FramesOf(p)
          BY <5>1, SameNumbers
        <5>3. \A n \in Nat : u + (n - 1) = t + n
          BY <2>2, <4>1
        <5>4. QED
          BY <1>2, <4>2, <5>2, <5>3
      <4>6. ASSUME NEW i \in DOMAIN txQueue'[p] PROVE IsFrame(p, txQueue[p][i], u + i)'
        <5>1. IsFrame(p, txQueue[p][i + 1], t + (i + 1))
          BY <1>2, <2>2, <3>2 DEF Waiting
        <5>2. t + (i + 1) = u + i /\ txQueue'[p][i] = txQueue[p][i + 1]
          BY <1>2, <4>1
        <5>3. PICK g, m : g = txQueue'[p][i] /\ m = u + i /\ IsFrame(p, g, m)
          BY <5>1, <5>2
        <5>4. IsFrame(p, g, m)'
          BY <1>9, <5>3, SameNumbers
        <5>5. QED
          BY <5>3, <5>4
      <4>7. Waiting(p, u)'
        BY <4>5, <4>6 DEF Waiting
      <4>8. QED
        BY <2>3, <3>2, <4>1, <4>4, <4>7 DEF InStep
    <3>3. CASE q # p
      <4>1. Src[f.pkt] # q
        BY <1>3, <3>3 DEF Of
      <4>2. Has(Append(Line, f), q, d, t)
        BY <2>1, <2>2, <3>1, <4>1, HasOther
      <4>3. Has(Line, q, d, t)'
        <5>1. PICK line : line = Append(Line, f)
          OBVIOUS
        <5>2. Line' = line /\ Has(line, q, d, t) /\ sent'[q] = sent[q]
          BY <1>9, <3>1, <4>2, <5>1
        <5>3. QED
          BY <5>2, SameHas
      <4>4. Waiting(q, t)'
        BY <1>2, <1>9, <2>2, <3>3, SameNumbers DEF Waiting
      <4>5. QED
        BY <2>2, <2>3, <4>3, <4>4 DEF InStep
    <3>4. QED
      BY <3>2, <3>3
  <2>6. QED
    BY <1>4, <2>4, <2>5
<1>11. \A q \in Peer : Numbered(q)'
  BY <1>0, <1>9, SameNumbers DEF Streams
<1>12. QED
  BY <1>7, <1>8, <1>10, <1>11 DEF IInv, Streams

-----------------------------------------------------------------------------
(* A packet is sent                                                        *)

\* What a peer queues for a packet: its segments, behind those it has cut.
LEMMA CutFacts ==
  ASSUME IInv, NEW k \in Pkt, SendPacket(k)
  PROVE  \E p \in Peer : \E total \in Nat \ {0} : \E segs \in Seq(Frame) : \E cut \in Cut :
           /\ p = Src[k] /\ \A n \in DOMAIN sent[p] : sent[p][n].pkt # k
           /\ cut.pkt = k /\ cut.total = total /\ cut.before = FramesOf(p)
           /\ sent' = [sent EXCEPT ![p] = Append(@, cut)]
           /\ txQueue' = [txQueue EXCEPT ![p] = @ \o segs]
           /\ Len(segs) = total
           /\ \A i \in 1 .. total : segs[i].pkt = k /\ segs[i].idx = i /\ segs[i].total = total
<1>0. TypeOK
  BY DEF IInv
<1>1. PICK p \in Peer : p = Src[k]
  BY SrcAssumption
<1>2. PICK limit \in Nat \ {0} : limit = PeerLimit(p)
  BY <1>0, LimitAssumption DEF TypeOK, PeerLimit
<1>3. Size[k] \in Nat \ {0}
  BY SizeAssumption
<1>4. PICK total \in Nat \ {0} : total = TotalSegs(Size[k], limit)
  BY <1>3, SomeSegs
<1>5. PICK lim \in Nat : lim = IF total = 1 THEN Size[k] ELSE limit
  BY <1>3
<1>6. PICK cut \in Cut : cut = [pkt |-> k, total |-> total, before |-> FramesOf(p)]
  <2>1. FramesOf(p) \in Nat
    <3>1. Len(sent[p]) \in 0 .. Len(sent[p])
      BY <1>0, PeerTypes
    <3>2. QED
      BY <1>0, <3>1, PeerTypes
  <2>2. QED
    BY <2>1 DEF Cut
<1>7. PICK segs \in Seq(Frame) :
        segs = [i \in 1 .. total |-> [pkt |-> k, idx |-> i, total |-> total, limit |-> lim]]
  <2> DEFINE s == [i \in 1 .. total |-> [pkt |-> k, idx |-> i, total |-> total, limit |-> lim]]
  <2>1. \A i \in 1 .. total : [pkt |-> k, idx |-> i, total |-> total, limit |-> lim] \in Frame
    BY DEF Frame
  <2>2. s \in [1 .. total -> Frame]
    BY <2>1
  <2>3. s \in Seq(Frame)
    BY <2>2
  <2>4. QED
    BY <2>3
<1>8. /\ sent' = [sent EXCEPT ![p] = Append(@, cut)]
      /\ txQueue' = [txQueue EXCEPT ![p] = @ \o segs]
      /\ \A n \in DOMAIN sent[p] : sent[p][n].pkt # k
  BY <1>1, <1>2, <1>4, <1>5, <1>6, <1>7 DEF SendPacket
<1>9. /\ Len(segs) = total
      /\ \A i \in 1 .. total : segs[i].pkt = k /\ segs[i].idx = i /\ segs[i].total = total
  BY <1>7
<1>10. cut.pkt = k /\ cut.total = total /\ cut.before = FramesOf(p)
  BY <1>6
<1>11. \E sq \in Seq(Frame) : \E ct \in Cut :
         /\ p = Src[k] /\ \A n \in DOMAIN sent[p] : sent[p][n].pkt # k
         /\ ct.pkt = k /\ ct.total = total /\ ct.before = FramesOf(p)
         /\ sent' = [sent EXCEPT ![p] = Append(@, ct)]
         /\ txQueue' = [txQueue EXCEPT ![p] = @ \o sq]
         /\ Len(sq) = total
         /\ \A i \in 1 .. total : sq[i].pkt = k /\ sq[i].idx = i /\ sq[i].total = total
  BY <1>1, <1>8, <1>9, <1>10, ZenonT(30)
<1>12. QED
  BY <1>11, Zenon

\* A packet goes behind all others of its peer, and is no other's business.
LEMMA SendStep ==
  ASSUME IInv, NEW k \in Pkt, SendPacket(k)
  PROVE  IInv'
<1>0. TypeOK /\ Placed /\ Streams
  BY DEF IInv
<1>1. PICK p \in Peer, total \in Nat \ {0}, segs \in Seq(Frame), cut \in Cut :
           /\ p = Src[k] /\ \A n \in DOMAIN sent[p] : sent[p][n].pkt # k
           /\ cut.pkt = k /\ cut.total = total /\ cut.before = FramesOf(p)
           /\ sent' = [sent EXCEPT ![p] = Append(@, cut)]
           /\ txQueue' = [txQueue EXCEPT ![p] = @ \o segs]
           /\ Len(segs) = total
           /\ \A i \in 1 .. total : segs[i].pkt = k /\ segs[i].idx = i /\ segs[i].total = total
  BY CutFacts
<1>2. UNCHANGED <<connVars, rxVars, asmVars, lost, losses>>
  BY DEF SendPacket
<1>3. PICK n \in Nat : n = Len(sent[p])
  BY <1>0, PeerTypes
<1>4. /\ sent' \in [Peer -> Seq(Cut)]
      /\ \A q \in Peer \ {p} : sent'[q] = sent[q]
      /\ DOMAIN sent[p] = 1 .. n /\ Len(sent'[p]) = n + 1 /\ DOMAIN sent'[p] = 1 .. n + 1
      /\ sent'[p][n + 1] = cut /\ \A i \in 1 .. n : sent'[p][i] = sent[p][i]
  <2>1. sent \in [Peer -> Seq(Cut)] /\ sent[p] \in Seq(Cut)
    BY <1>0 DEF TypeOK
  <2>2. sent'[p] = Append(sent[p], cut) /\ \A q \in Peer \ {p} : sent'[q] = sent[q]
    BY <1>1, <2>1
  <2>3. Append(sent[p], cut) \in Seq(Cut)
    BY <2>1
  <2>4. sent' \in [Peer -> Seq(Cut)]
    BY <1>1, <2>1, <2>3
  <2>5. QED
    BY <1>3, <2>1, <2>2, <2>4
<1>5. PICK c \in Nat : c = Len(txQueue[p])
  BY <1>0 DEF TypeOK
<1>6. /\ txQueue' \in [Peer -> Seq(Frame)]
      /\ \A q \in Peer \ {p} : txQueue'[q] = txQueue[q]
      /\ DOMAIN txQueue[p] = 1 .. c /\ DOMAIN txQueue'[p] = 1 .. c + total
      /\ Len(txQueue'[p]) = c + total
      /\ \A i \in 1 .. c : txQueue'[p][i] = txQueue[p][i]
      /\ \A i \in 1 .. c + total : i > c => i - c \in 1 .. total /\ txQueue'[p][i] = segs[i - c]
  <2>1. txQueue \in [Peer -> Seq(Frame)] /\ txQueue[p] \in Seq(Frame)
    BY <1>0 DEF TypeOK
  <2>2. txQueue'[p] = txQueue[p] \o segs /\ \A q \in Peer \ {p} : txQueue'[q] = txQueue[q]
    BY <1>1, <2>1
  <2>3. txQueue[p] \o segs \in Seq(Frame)
    BY <2>1
  <2>4. txQueue' \in [Peer -> Seq(Frame)]
    BY <1>1, <2>1, <2>3
  <2>5. /\ DOMAIN txQueue[p] = 1 .. c /\ Len(txQueue'[p]) = c + total
        /\ DOMAIN txQueue'[p] = 1 .. c + total
    <3>1. DOMAIN txQueue[p] = 1 .. c
      BY <1>5, <2>1
    <3>2. Len(txQueue'[p]) = c + total
      <4>1. Len(txQueue[p] \o segs) = Len(txQueue[p]) + Len(segs)
        BY <2>1
      <4>2. Len(segs) = total
        BY <1>1
      <4>3. QED
        BY <1>5, <2>2, <4>1, <4>2
    <3>3. QED
      BY <2>2, <2>3, <3>1, <3>2
  <2>6. \A i \in 1 .. c : txQueue'[p][i] = txQueue[p][i]
    BY <1>1, <1>5, <2>1, <2>2
  <2>7. \A i \in 1 .. c + total : i > c => i - c \in 1 .. total /\ txQueue'[p][i] = segs[i - c]
    BY <1>1, <1>5, <2>1, <2>2
  <2>8. QED
    BY <2>2, <2>4, <2>5, <2>6, <2>7
<1>7. TypeOK'
  BY <1>0, <1>2, <1>4, <1>6 DEF TypeOK, connVars, rxVars, asmVars
<1>8. Placed'
  <2>1. ASSUME NEW q \in Peer, NEW i \in DOMAIN txQueue'[q] PROVE Of(q, txQueue'[q][i])
    <3>1. CASE q = p /\ i > c
      <4>1. i \in 1 .. c + total
        BY <1>6, <3>1
      <4>2. i - c \in 1 .. total /\ txQueue'[p][i] = segs[i - c]
        BY <1>6, <3>1, <4>1
      <4>3. PICK j \in 1 .. total : txQueue'[p][i] = segs[j]
        BY <4>2
      <4>4. segs[j].pkt = k /\ segs[j].idx = j /\ segs[j].total = total
        BY <1>1
      <4>5. QED
        <5>1. segs[j].idx \in 1 .. segs[j].total
          BY <4>4
        <5>2. Src[segs[j].pkt] = p
          BY <1>1, <4>4
        <5>3. QED
          BY <3>1, <4>3, <5>1, <5>2 DEF Of
    <3>2. CASE ~(q = p /\ i > c)
      <4>1. i \in DOMAIN txQueue[q] /\ txQueue'[q][i] = txQueue[q][i]
        <5>1. CASE q # p
          BY <1>6, <5>1
        <5>2. CASE q = p
          <6>1. i \in 1 .. c + total /\ ~(i > c)
            BY <1>6, <3>2, <5>2
          <6>2. i \in 1 .. c
            BY <6>1
          <6>3. QED
            BY <1>6, <5>2, <6>2
        <5>3. QED
          BY <5>1, <5>2
      <4>2. QED
        BY <1>0, <4>1 DEF Placed, FramesAreInRange
    <3>3. QED
      BY <3>1, <3>2
  <2>2. SlotsAreInPlace' /\ BlobsAreWellFormed'
    BY <1>0, <1>2 DEF Placed, SlotsAreInPlace, BlobsAreWellFormed, asmVars
  <2>3. QED
    BY <1>0, <1>2, <2>1, <2>2 DEF Placed, FramesAreInRange, Of, rxVars
<1>9. /\ \A q \in Peer : received'[q] = received[q] /\ assembly'[q] = assembly[q]
      /\ Line' = Line /\ lost' = lost
  BY <1>2 DEF asmVars, rxVars, Line
<1>10. ASSUME NEW q \in Peer, q # p PROVE Numbered(q)' /\ (q \notin lost' => InStep(q)')
  <2>1. sent'[q] = sent[q] /\ txQueue'[q] = txQueue[q]
    BY <1>4, <1>6, <1>10
  <2>2. QED
    BY <1>0, <1>9, <2>1, StaysInStep DEF Streams
<1>11. /\ \A m \in 0 .. n : Upto(p, m)' = Upto(p, m) /\ Upto(p, m) \in Nat
       /\ FramesOf(p) = Upto(p, n) /\ FramesOf(p)' = Upto(p, n + 1)'
       /\ Upto(p, n + 1)' = Upto(p, n) + total
  <2>1. (\A m \in 0 .. n : Upto(p, m) \in Nat) /\ FramesOf(p) = Upto(p, n)
    BY <1>0, <1>3, PeerTypes
  <2>2. \A m \in 0 .. n : Upto(p, m)' = Upto(p, m)
    BY <1>4 DEF Upto
  <2>3. Upto(p, n + 1)' = Upto(p, n) + total
    BY <1>1, <1>4, <2>1 DEF Upto
  <2>4. FramesOf(p)' = Upto(p, n + 1)'
    <3>1. sent'[p] # <<>> /\ sent'[p][Len(sent'[p])] = cut
      BY <1>4
    <3>2. FramesOf(p)' = cut.before + cut.total
      BY <3>1 DEF FramesOf, Last
    <3>3. QED
      BY <1>1, <2>1, <2>3, <3>2
  <2>5. QED
    BY <2>1, <2>2, <2>3, <2>4
<1>12. Numbered(p)'
  <2>1. Numbered(p)
    BY <1>0 DEF Streams
  <2>2. ASSUME NEW i \in DOMAIN sent'[p]
        PROVE  /\ sent'[p][i].total >= 1 /\ Src[sent'[p][i].pkt] = p
               /\ sent'[p][i].before = Upto(p, i - 1)'
    <3>1. CASE i \in 1 .. n
      <4>1. sent[p][i].before = Upto(p, i - 1) /\ sent[p][i].total >= 1 /\ Src[sent[p][i].pkt] = p
        BY <1>4, <2>1, <3>1 DEF Numbered
      <4>2. i - 1 \in 0 .. n
        BY <3>1
      <4>3. QED
        BY <1>4, <1>11, <3>1, <4>1, <4>2
    <3>2. CASE i = n + 1
      <4>1. i - 1 = n /\ n \in 0 .. n
        BY <3>2
      <4>2. QED
        BY <1>1, <1>4, <1>11, <3>2, <4>1
    <3>3. QED
      BY <1>4, <2>2, <3>1, <3>2
  <2>3. ASSUME NEW i \in DOMAIN sent'[p], NEW j \in DOMAIN sent'[p],
               sent'[p][i].pkt = sent'[p][j].pkt
        PROVE  i = j
    <3>1. i \in 1 .. n + 1 /\ j \in 1 .. n + 1
      BY <1>4
    <3>2. CASE i \in 1 .. n /\ j \in 1 .. n
      BY <1>4, <2>1, <2>3, <3>2 DEF Numbered
    <3>3. sent'[p][n + 1].pkt = k /\ \A l \in 1 .. n : sent'[p][l].pkt # k
      BY <1>1, <1>4
    <3>4. \A l \in 1 .. n + 1 : l \in 1 .. n \/ l = n + 1
      OBVIOUS
    <3>5. QED
      BY <2>3, <3>1, <3>2, <3>3, <3>4
  <2>4. ASSUME NEW i \in 0 .. n + 1, NEW j \in 0 .. n + 1, i < j
        PROVE  Upto(p, i)' < Upto(p, j)'
    <3>1. CASE j \in 0 .. n
      <4>1. i \in 0 .. n
        BY <2>4, <3>1
      <4>2. Upto(p, i) < Upto(p, j)
        BY <1>3, <2>1, <2>4, <3>1, <4>1 DEF Numbered
      <4>3. QED
        BY <1>11, <3>1, <4>1, <4>2
    <3>2. CASE j = n + 1
      <4>1. i \in 0 .. n /\ n \in 0 .. n /\ (i < n \/ i = n)
        BY <2>4, <3>2
      <4>2. Upto(p, i) < Upto(p, n) \/ i = n
        BY <1>3, <2>1, <4>1 DEF Numbered
      <4>3. PICK x \in Nat, y \in Nat : x = Upto(p, i) /\ y = Upto(p, n)
        BY <1>11, <4>1
      <4>4. x < y + total
        BY <4>2, <4>3
      <4>5. QED
        BY <1>11, <3>2, <4>1, <4>3, <4>4
    <3>3. QED
      BY <3>1, <3>2
  <2>5. QED
    BY <1>4, <2>2, <2>3, <2>4 DEF Numbered
<1>13. \A f, m : f.pkt # k => (IsFrame(p, f, m)' <=> IsFrame(p, f, m))
  <2>1. ASSUME NEW f, NEW m, f.pkt # k, IsFrame(p, f, m)' PROVE IsFrame(p, f, m)
    <3>1. PICK i \in DOMAIN sent'[p] :
            /\ f.pkt = sent'[p][i].pkt /\ f.total = sent'[p][i].total
            /\ f.idx \in 1 .. f.total /\ m = sent'[p][i].before + f.idx
      BY <2>1 DEF IsFrame
    <3>2. i # n + 1
      <4>1. sent'[p][n + 1] = cut /\ cut.pkt = k
        BY <1>1, <1>4
      <4>2. QED
        BY <2>1, <3>1, <4>1
    <3>3. i \in DOMAIN sent[p] /\ sent'[p][i] = sent[p][i]
      BY <1>4, <3>2
    <3>4. QED
      BY <3>1, <3>3 DEF IsFrame
  <2>2. ASSUME NEW f, NEW m, IsFrame(p, f, m) PROVE IsFrame(p, f, m)'
    <3>1. \A i \in DOMAIN sent[p] : i \in DOMAIN sent'[p] /\ sent'[p][i] = sent[p][i]
      BY <1>4
    <3>2. QED
      BY <2>2, <3>1 DEF IsFrame
  <2>3. QED
    BY <2>1, <2>2
<1>14. \A f, m : IsFrame(p, f, m) => f.pkt # k
  BY <1>1 DEF IsFrame
<1>15. ASSUME p \notin lost' PROVE InStep(p)'
  <2>1. PICK d \in Nat, t \in Nat :
          d <= t /\ Assembled(p, d) /\ Has(Line, p, d, t) /\ Waiting(p, t)
    BY <1>0, <1>9, <1>15 DEF Streams, InStep
  <2>2. Assembled(p, d)'
    <3>1. PICK r \in Nat : r = Len(received[p]) /\ r \in 0 .. n
      BY <1>0, <1>3, <2>1 DEF Assembled, TypeOK
    <3>2. \A i \in 1 .. r : Whole(received[p][i], sent[p][i])
      BY <2>1, <3>1 DEF Assembled
    <3>3. \A i \in 1 .. r : i \in 1 .. n
      BY <3>1
    <3>4. \A i \in 1 .. r : Whole(received[p][i], sent'[p][i])
      BY <1>4, <3>2, <3>3
    <3>5. received'[p] = received[p] /\ assembly'[p] = assembly[p] /\ Upto(p, r)' = Upto(p, r)
      BY <1>9, <1>11, <3>1
    <3>6. r <= Len(sent'[p])
      BY <1>4, <3>1
    <3>7. r + 1 \in DOMAIN sent[p] => r + 1 \in DOMAIN sent'[p] /\ sent'[p][r + 1] = sent[p][r + 1]
      BY <1>4
    <3>8. \A i \in 1 .. r : Whole(received[p][i], sent[p][i])'
      BY <1>9, <3>4 DEF Whole
    <3>9. CASE assembly[p] = <<>> /\ d = Upto(p, r)
      BY <3>1, <3>5, <3>6, <3>8, <3>9 DEF Assembled
    <3>10. CASE /\ r + 1 \in DOMAIN sent[p]
                /\ \E j \in 1 .. sent[p][r + 1].total - 1 :
                     /\ d = Upto(p, r) + j
                     /\ Len(assembly[p]) = sent[p][r + 1].total
                     /\ \A i \in DOMAIN assembly[p] :
                          IF i <= j
                            THEN assembly[p][i].pkt = sent[p][r + 1].pkt /\ assembly[p][i].idx = i
                            ELSE assembly[p][i] = NoFrame
      BY <3>1, <3>5, <3>6, <3>7, <3>8, <3>10, SMTT(30) DEF Assembled
    <3>11. QED
      BY <2>1, <3>1, <3>9, <3>10 DEF Assembled
  <2>3. Has(Line, p, d, t)'
    <3>1. \A i \in DOMAIN Line : Src[Line[i].pkt] = p => Line[i].pkt # k
      BY <1>14, <2>1 DEF Has
    <3>2. \A f, m : IsFrame(p, f, m) => IsFrame(p, f, m)'
      BY <1>13, <1>14
    <3>3. \A f, m : IsFrame(p, f, m)' => Src[f.pkt] = p
      BY <1>12 DEF IsFrame, Numbered
    <3>4. \A i \in DOMAIN Line : \A m : IsFrame(p, Line[i], m)' <=> IsFrame(p, Line[i], m)
      BY <1>9, <1>13, <3>1, <3>2, <3>3
    <3>5. QED
      BY <1>9, <2>1, <3>4 DEF Has
  <2>4. Waiting(p, t)'
    <3>1. t + c = Upto(p, n)
      BY <1>5, <1>11, <2>1 DEF Waiting
    <3>2. t + Len(txQueue'[p]) = FramesOf(p)'
      BY <1>6, <1>11, <3>1
    <3>3. ASSUME NEW i \in DOMAIN txQueue'[p] PROVE IsFrame(p, txQueue[p][i], t + i)'
      <4>1. CASE i \in 1 .. c
        <5>1. PICK f, m : f = txQueue'[p][i] /\ m = t + i /\ IsFrame(p, f, m)
          BY <1>6, <2>1, <4>1 DEF Waiting
        <5>2. IsFrame(p, f, m)'
          BY <1>13, <1>14, <5>1
        <5>3. QED
          BY <5>1, <5>2
      <4>2. CASE ~(i \in 1 .. c)
        <5>1. i \in 1 .. c + total /\ i > c
          BY <1>6, <4>2
        <5>2. i - c \in 1 .. total /\ txQueue'[p][i] = segs[i - c]
          BY <1>6, <5>1
        <5>3. PICK f, m : f = txQueue'[p][i] /\ m = t + i
          OBVIOUS
        <5>4. f.pkt = k /\ f.idx = i - c /\ f.total = total
          BY <1>1, <5>2, <5>3, SMTT(30)
        <5>5. m = cut.before + f.idx
          BY <1>1, <1>11, <3>1, <5>1, <5>3, <5>4
        <5>6. n + 1 \in DOMAIN sent'[p]
          BY <1>4
        <5>7. IsFrame(p, f, m)'
          <6>1. f.idx \in 1 .. f.total
            BY <5>2, <5>4
          <6>2. f.pkt = sent'[p][n + 1].pkt /\ f.total = sent'[p][n + 1].total
            BY <1>1, <1>4, <5>4
          <6>3. m = sent'[p][n + 1].before + f.idx
            BY <1>4, <5>5
          <6>4. QED
            BY <5>6, <6>1, <6>2, <6>3 DEF IsFrame
        <5>8. QED
          BY <5>3, <5>7
      <4>3. QED
        BY <4>1, <4>2
    <3>4. QED
      BY <3>2, <3>3 DEF Waiting
  <2>5. QED
    BY <2>1, <2>2, <2>3, <2>4 DEF InStep
<1>16. QED
  BY <1>7, <1>8, <1>10, <1>12, <1>15 DEF IInv, Streams

-----------------------------------------------------------------------------
(* A frame is reassembled                                                  *)

\* What the slots hold after a frame: the frame, what was there before if the
\* packet has as many segments, and nothing else.
LEMMA SlotFacts ==
  ASSUME IInv, NEW f \in Frame, f.idx \in 1 .. f.total, NEW p \in Peer, p = Src[f.pkt]
  PROVE  \E slots \in Seq(Frame \cup {NoFrame}) :
           /\ slots = IF f.total = 1 THEN <<f>>
                                     ELSE [Slots(assembly[p], f.total) EXCEPT ![f.idx] = f]
           /\ Len(slots) = f.total /\ DOMAIN slots = 1 .. f.total
           /\ slots[f.idx] = f
           /\ \A i \in DOMAIN slots : i # f.idx =>
                slots[i] = IF Len(assembly[p]) = f.total THEN assembly[p][i] ELSE NoFrame
<1>0. TypeOK
  BY DEF IInv
<1>1. f.total \in Nat /\ f.idx \in Nat
  BY <1>0, LineFacts
<1>2. PICK n \in Nat : n = f.total /\ f.idx \in 1 .. n
  BY <1>1
<1> DEFINE S == Frame \cup {NoFrame}
<1>3. CASE n = 1
  <2>1. f.idx = 1
    BY <1>2, <1>3
  <2>2. PICK slots : slots = <<f>>
    OBVIOUS
  <2>3. slots \in Seq(S) /\ Len(slots) = 1 /\ DOMAIN slots = 1 .. 1 /\ slots[1] = f
    BY <2>2
  <2>4. \A i \in DOMAIN slots : i = 1
    BY <2>3
  <2>5. QED
    BY <1>2, <1>3, <2>1, <2>2, <2>3, <2>4
<1>4. CASE n # 1
  <2>1. assembly[p] \in Seq(S)
    BY <1>0 DEF TypeOK
  <2>2. PICK old : old = Slots(assembly[p], n)
    OBVIOUS
  <2>3. old \in [1 .. n -> S]
    <3>1. CASE Len(assembly[p]) = n
      BY <2>1, <2>2, <3>1 DEF Slots
    <3>2. CASE Len(assembly[p]) # n
      BY <2>2, <3>2 DEF Slots
    <3>3. QED
      BY <3>1, <3>2
  <2>4. \A i \in 1 .. n : old[i] = IF Len(assembly[p]) = n THEN assembly[p][i] ELSE NoFrame
    BY <2>2 DEF Slots
  <2>5. PICK slots : slots = [old EXCEPT ![f.idx] = f]
    OBVIOUS
  <2>6. /\ slots \in [1 .. n -> S] /\ slots[f.idx] = f
        /\ \A i \in 1 .. n : i # f.idx => slots[i] = old[i]
    BY <1>2, <2>3, <2>5
  <2>7. slots \in Seq(S) /\ Len(slots) = n /\ DOMAIN slots = 1 .. n
    <3> HIDE DEF S
    <3>1. QED
      BY <2>6
  <2>8. QED
    BY <1>2, <1>4, <2>2, <2>4, <2>5, <2>6, <2>7, SMTT(30)
<1>5. QED
  BY <1>3, <1>4

\* The slots of the peer's packet with one more frame; what is complete is handed
\* to the transport, and the rest of the line waits.
LEMMA TakeFacts ==
  ASSUME IInv, ReassembleFrame
  PROVE  \E f \in Frame : \E p \in Peer : \E slots \in Seq(Frame \cup {NoFrame}) :
           /\ f = Line[1] /\ f = incoming[1] /\ p = Src[f.pkt] /\ f.idx \in 1 .. f.total
           /\ Line # <<>> /\ Line' = Tail(Line)
           /\ incoming # <<>> /\ incoming' = Tail(incoming)
           /\ Len(slots) = f.total /\ DOMAIN slots = 1 .. f.total
           /\ slots[f.idx] = f
           /\ \A i \in DOMAIN slots : i # f.idx =>
                slots[i] = IF Len(assembly[p]) = f.total THEN assembly[p][i] ELSE NoFrame
           /\ \/ /\ \A i \in DOMAIN slots : slots[i] # NoFrame
                 /\ assembly' = [assembly EXCEPT ![p] = <<>>]
                 /\ received' = [received EXCEPT ![p] = Append(@, slots)]
              \/ /\ \E i \in DOMAIN slots : slots[i] = NoFrame
                 /\ assembly' = [assembly EXCEPT ![p] = slots]
                 /\ received' = received
<1>0. TypeOK
  BY DEF IInv
<1>1. /\ incoming # <<>> /\ incoming' = Tail(incoming) /\ rxQueue' = rxQueue
      /\ incoming \in Seq(Frame) /\ rxQueue \in Seq(Frame)
  BY <1>0 DEF ReassembleFrame, TypeOK
<1>2. PICK f \in Frame : f = incoming[1] /\ f = Head(incoming) /\ 1 \in DOMAIN incoming
  BY <1>1
<1>3. f = Line[1] /\ Line # <<>>
  BY <1>1, <1>2 DEF Line
<1>4. Line' = Tail(Line)
  BY <1>1 DEF Line
<1>5. f.idx \in 1 .. f.total
  BY <1>2 DEF IInv, Placed, FramesAreInRange
<1>6. PICK p \in Peer : p = Src[f.pkt]
  BY <1>0, LineFacts
<1>7. PICK slots \in Seq(Frame \cup {NoFrame}) :
           /\ slots = IF f.total = 1 THEN <<f>>
                                     ELSE [Slots(assembly[p], f.total) EXCEPT ![f.idx] = f]
           /\ Len(slots) = f.total /\ DOMAIN slots = 1 .. f.total
           /\ slots[f.idx] = f
           /\ \A i \in DOMAIN slots : i # f.idx =>
                slots[i] = IF Len(assembly[p]) = f.total THEN assembly[p][i] ELSE NoFrame
  BY <1>5, <1>6, SlotFacts
<1>8. \/ /\ Complete(slots)
         /\ assembly' = [assembly EXCEPT ![p] = <<>>]
         /\ received' = [received EXCEPT ![p] = Append(@, slots)]
      \/ /\ ~Complete(slots)
         /\ assembly' = [assembly EXCEPT ![p] = slots]
         /\ received' = received
  BY <1>2, <1>6, <1>7 DEF ReassembleFrame, AssemblyOf
<1>9. \/ /\ \A i \in DOMAIN slots : slots[i] # NoFrame
         /\ assembly' = [assembly EXCEPT ![p] = <<>>]
         /\ received' = [received EXCEPT ![p] = Append(@, slots)]
      \/ /\ \E i \in DOMAIN slots : slots[i] = NoFrame
         /\ assembly' = [assembly EXCEPT ![p] = slots]
         /\ received' = received
  BY <1>8 DEF Complete
<1>10. \E sl \in Seq(Frame \cup {NoFrame}) :
           /\ f = Line[1] /\ f = incoming[1] /\ p = Src[f.pkt] /\ f.idx \in 1 .. f.total
           /\ Line # <<>> /\ Line' = Tail(Line)
           /\ incoming # <<>> /\ incoming' = Tail(incoming)
           /\ Len(sl) = f.total /\ DOMAIN sl = 1 .. f.total
           /\ sl[f.idx] = f
           /\ \A i \in DOMAIN sl : i # f.idx =>
                sl[i] = IF Len(assembly[p]) = f.total THEN assembly[p][i] ELSE NoFrame
           /\ \/ /\ \A i \in DOMAIN sl : sl[i] # NoFrame
                 /\ assembly' = [assembly EXCEPT ![p] = <<>>]
                 /\ received' = [received EXCEPT ![p] = Append(@, sl)]
              \/ /\ \E i \in DOMAIN sl : sl[i] = NoFrame
                 /\ assembly' = [assembly EXCEPT ![p] = sl]
                 /\ received' = received
  BY <1>1, <1>2, <1>3, <1>4, <1>5, <1>6, <1>7, <1>9, Zenon
<1>11. QED
  BY <1>10, Zenon

\* slots: those of peer p with one more frame
Filled(p, f, slots) ==
  /\ DOMAIN slots = 1 .. f.total /\ slots[f.idx] = f
  /\ \A i \in DOMAIN slots : i # f.idx =>
       slots[i] = IF Len(assembly[p]) = f.total THEN assembly[p][i] ELSE NoFrame

\* The first j + 1 slots of p's packet n + 1 are filled, and frame d is in the one before.
FilledUpTo(p, d, f, slots, n, j, total) ==
  /\ n = Len(received[p]) /\ n + 1 \in DOMAIN sent[p] /\ total = sent[p][n + 1].total
  /\ j + 1 <= total /\ d = Upto(p, n) + j /\ f.total = total
  /\ \A i \in DOMAIN slots :
       IF i <= j + 1 THEN slots[i].pkt = sent[p][n + 1].pkt /\ slots[i].idx = i
                     ELSE slots[i] = NoFrame

\* The next frame of p fills the next slot.
LEMMA NextSlot ==
  ASSUME TypeOK, NEW p \in Peer, Numbered(p), NEW d \in Nat, Assembled(p, d),
         d + 1 <= FramesOf(p), NEW f \in Frame, IsFrame(p, f, d + 1), NEW slots, Filled(p, f, slots)
  PROVE  \E n \in Nat : \E j \in Nat : \E total \in Nat :
           FilledUpTo(p, d, f, slots, n, j, total)
<1>0. /\ DOMAIN slots = 1 .. f.total /\ slots[f.idx] = f
      /\ \A i \in DOMAIN slots : i # f.idx =>
           slots[i] = IF Len(assembly[p]) = f.total THEN assembly[p][i] ELSE NoFrame
  BY DEF Filled
<1>1. PICK n \in Nat : n = Len(received[p]) /\ n \in 0 .. Len(sent[p])
  BY DEF Assembled, TypeOK
<1>2. PICK N \in Nat : N = Len(sent[p]) /\ DOMAIN sent[p] = 1 .. N /\ FramesOf(p) = Upto(p, N)
  BY PeerTypes
<1>3. Upto(p, n) \in Nat /\ n \in 0 .. N
  BY <1>1, <1>2, PeerTypes
<1>4. CASE assembly[p] = <<>> /\ d = Upto(p, n)
  <2>1. n # N
    BY <1>2, <1>4
  <2>2. n + 1 \in DOMAIN sent[p]
    BY <1>2, <1>3, <2>1
  <2>3. PICK total \in Nat : total = sent[p][n + 1].total /\ 1 <= total
    BY <2>2, PeerTypes DEF Numbered
  <2>4. f.pkt = sent[p][n + 1].pkt /\ f.total = total /\ f.idx = 1
    <3>1. 1 \in 1 .. sent[p][n + 1].total /\ IsFrame(p, f, Upto(p, n) + 1)
      BY <1>4, <2>3
    <3>2. QED
      BY <2>2, <2>3, <3>1, Located
  <2>5. Len(assembly[p]) # f.total
    BY <1>4, <2>3, <2>4
  <2>6. \A i \in DOMAIN slots :
          IF i <= 0 + 1 THEN slots[i].pkt = sent[p][n + 1].pkt /\ slots[i].idx = i
                        ELSE slots[i] = NoFrame
    <3>1. \A i \in DOMAIN slots : i <= 0 + 1 => i = f.idx
      BY <1>0, <2>3, <2>4
    <3>2. \A i \in DOMAIN slots : ~(i <= 0 + 1) => i # f.idx
      BY <1>0, <2>4
    <3>3. QED
      BY <1>0, <2>4, <2>5, <3>1, <3>2
  <2>7. 0 \in Nat /\ 0 + 1 <= total /\ d = Upto(p, n) + 0
    BY <1>3, <1>4, <2>3
  <2>8. FilledUpTo(p, d, f, slots, n, 0, total)
    BY <1>1, <2>2, <2>3, <2>4, <2>6, <2>7 DEF FilledUpTo
  <2>9. QED
    BY <2>7, <2>8
<1>5. ASSUME n + 1 \in DOMAIN sent[p], NEW j \in 1 .. sent[p][n + 1].total - 1,
             d = Upto(p, n) + j, Len(assembly[p]) = sent[p][n + 1].total,
             \A i \in DOMAIN assembly[p] :
               IF i <= j THEN assembly[p][i].pkt = sent[p][n + 1].pkt /\ assembly[p][i].idx = i
                         ELSE assembly[p][i] = NoFrame
      PROVE  \E h \in Nat : \E total \in Nat : FilledUpTo(p, d, f, slots, n, h, total)
  <2>1. PICK total \in Nat : total = sent[p][n + 1].total
    BY <1>5, PeerTypes
  <2>2. j \in Nat /\ j + 1 <= total /\ j + 1 \in 1 .. total
    BY <2>1
  <2>3. f.pkt = sent[p][n + 1].pkt /\ f.total = total /\ f.idx = j + 1
    <3>1. (Upto(p, n) + j) + 1 = Upto(p, n) + (j + 1)
      BY <1>3, <2>2
    <3>2. IsFrame(p, f, Upto(p, n) + (j + 1))
      BY <1>5, <3>1
    <3>3. QED
      BY <1>5, <2>1, <2>2, <3>2, Located
  <2>4. DOMAIN assembly[p] = 1 .. total
    <3>1. DOMAIN assembly[p] = 1 .. Len(assembly[p])
      BY DEF TypeOK
    <3>2. QED
      BY <1>5, <2>1, <3>1
  <2>5. ASSUME NEW i \in DOMAIN slots
        PROVE  IF i <= j + 1 THEN slots[i].pkt = sent[p][n + 1].pkt /\ slots[i].idx = i
                             ELSE slots[i] = NoFrame
    <3>1. i \in 1 .. total
      BY <1>0, <2>3
    <3>2. CASE i = j + 1
      BY <1>0, <2>2, <2>3, <3>2
    <3>3. CASE i # j + 1
      <4>1. slots[i] = assembly[p][i] /\ i \in DOMAIN assembly[p]
        BY <1>0, <1>5, <2>1, <2>3, <2>4, <3>1, <3>3
      <4>2. i <= j + 1 <=> i <= j
        BY <2>2, <3>1, <3>3
      <4>3. QED
        BY <1>5, <4>1, <4>2
    <3>4. QED
      BY <3>2, <3>3
  <2>6. FilledUpTo(p, d, f, slots, n, j, total)
    BY <1>1, <1>5, <2>1, <2>2, <2>3, <2>5 DEF FilledUpTo
  <2>7. QED
    BY <2>2, <2>6
<1>6. QED
  BY <1>1, <1>4, <1>5 DEF Assembled

\* The packet of a peer gets one segment further, or is handed over whole.
LEMMA ReassembleStep ==
  ASSUME IInv, ReassembleFrame
  PROVE  IInv'
<1>0. TypeOK /\ Placed /\ Streams
  BY DEF IInv
<1>1. /\ UNCHANGED <<connVars, txQueue, rxQueue, rxRate, sent, lost, losses>>
  BY DEF ReassembleFrame
<1>2. PICK f \in Frame, p \in Peer, slots \in Seq(Frame \cup {NoFrame}) :
           /\ f = Line[1] /\ f = incoming[1] /\ p = Src[f.pkt] /\ f.idx \in 1 .. f.total
           /\ Line # <<>> /\ Line' = Tail(Line)
           /\ incoming # <<>> /\ incoming' = Tail(incoming)
           /\ Len(slots) = f.total /\ DOMAIN slots = 1 .. f.total
           /\ slots[f.idx] = f
           /\ \A i \in DOMAIN slots : i # f.idx =>
                slots[i] = IF Len(assembly[p]) = f.total THEN assembly[p][i] ELSE NoFrame
           /\ \/ /\ \A i \in DOMAIN slots : slots[i] # NoFrame
                 /\ assembly' = [assembly EXCEPT ![p] = <<>>]
                 /\ received' = [received EXCEPT ![p] = Append(@, slots)]
              \/ /\ \E i \in DOMAIN slots : slots[i] = NoFrame
                 /\ assembly' = [assembly EXCEPT ![p] = slots]
                 /\ received' = received
  BY TakeFacts
<1>3. f # NoFrame
  BY <1>0, LineFacts
<1>4. assembly \in [Peer -> Seq(Frame \cup {NoFrame})] /\ received \in [Peer -> Seq(Seq(Frame))]
  BY <1>0 DEF TypeOK
<1>5. \A q \in Peer \ {p} : received'[q] = received[q] /\ assembly'[q] = assembly[q]
  BY <1>2, <1>4
<1>6. /\ incoming \in Seq(Frame) /\ Len(incoming) <= RxQueueMax /\ RxQueueMax \in Nat
      /\ incoming' \in Seq(Frame) /\ Len(incoming') <= RxQueueMax
      /\ \A i \in DOMAIN incoming' : i + 1 \in DOMAIN incoming /\ incoming'[i] = incoming[i + 1]
  <2>1. incoming \in Seq(Frame) /\ Len(incoming) <= RxQueueMax /\ RxQueueMax \in Nat
    BY <1>0, BleBoundsAssumption DEF TypeOK
  <2>2. incoming # <<>> /\ incoming' = Tail(incoming)
    BY <1>2
  <2>3. Len(incoming') = Len(incoming) - 1 /\ Len(incoming) \in Nat /\ incoming' \in Seq(Frame)
    BY <2>1, <2>2
  <2>4. \A i \in DOMAIN incoming' : i + 1 \in DOMAIN incoming /\ incoming'[i] = incoming[i + 1]
    BY <2>1, <2>2
  <2>5. QED
    BY <2>1, <2>3, <2>4
<1>7. (\A i \in DOMAIN slots : slots[i] # NoFrame) => slots \in Seq(Frame)
  <2>1. ASSUME \A i \in DOMAIN slots : slots[i] # NoFrame PROVE slots \in Seq(Frame)
    <3>1. \A i \in 1 .. Len(slots) : slots[i] \in Frame
      BY <2>1
    <3>2. QED
      BY <3>1
  <2>2. QED
    BY <2>1
<1>8. /\ assembly' \in [Peer -> Seq(Frame \cup {NoFrame})]
      /\ received' \in [Peer -> Seq(Seq(Frame))]
  <2> DEFINE A == Seq(Frame \cup {NoFrame})
             B == Seq(Frame)
  <2>1. <<>> \in A /\ slots \in A /\ assembly \in [Peer -> A] /\ received \in [Peer -> Seq(B)]
    BY <1>4
  <2>2. (\A i \in DOMAIN slots : slots[i] # NoFrame) => slots \in B
    BY <1>7
  <2> HIDE DEF A, B
  <2>3. assembly' \in [Peer -> A]
    BY <1>2, <2>1
  <2>4. received' \in [Peer -> Seq(B)]
    <3>1. CASE received' = received
      BY <2>1, <3>1
    <3>2. CASE received' = [received EXCEPT ![p] = Append(@, slots)] /\ slots \in B
      <4>1. Append(received[p], slots) \in Seq(B)
        BY <2>1, <3>2
      <4>2. QED
        BY <2>1, <3>2, <4>1
    <3>3. QED
      BY <1>2, <2>2, <3>1, <3>2
  <2>5. QED
    BY <2>3, <2>4 DEF A, B
<1>9. TypeOK'
  BY <1>0, <1>1, <1>6, <1>8 DEF TypeOK, connVars
<1>10. \A i \in DOMAIN slots :
         slots[i] # NoFrame =>
           slots[i].idx = i /\ slots[i].total = Len(slots) /\ Src[slots[i].pkt] = p
  <2>1. ASSUME NEW i \in DOMAIN slots, slots[i] # NoFrame, i # f.idx
        PROVE  slots[i].idx = i /\ slots[i].total = Len(slots) /\ Src[slots[i].pkt] = p
    <3>1. Len(assembly[p]) = f.total /\ slots[i] = assembly[p][i]
      BY <1>2, <2>1
    <3>2. i \in DOMAIN assembly[p]
      <4>1. DOMAIN assembly[p] = 1 .. Len(assembly[p])
        BY <1>4
      <4>2. QED
        BY <1>2, <3>1, <4>1
    <3>3. assembly[p][i] # NoFrame
      BY <2>1, <3>1
    <3>4. /\ assembly[p][i].idx = i /\ assembly[p][i].total = Len(assembly[p])
          /\ Src[assembly[p][i].pkt] = p
      BY <1>0, <3>2, <3>3 DEF Placed, SlotsAreInPlace
    <3>5. Len(assembly[p]) = Len(slots)
      BY <1>2, <3>1
    <3>6. QED
      BY <3>1, <3>4, <3>5
  <2>2. f.idx \in DOMAIN slots /\ f.total = Len(slots) /\ Src[f.pkt] = p /\ slots[f.idx] = f
    BY <1>2
  <2>3. QED
    BY <2>1, <2>2
<1>11. /\ assembly'[p] = <<>> \/ assembly'[p] = slots
       /\ \/ received'[p] = received[p]
          \/ received'[p] = Append(received[p], slots) /\ \A i \in DOMAIN slots : slots[i] # NoFrame
  BY <1>2, <1>4
<1>12. Placed'
  <2>1. FramesAreInRange'
    BY <1>0, <1>1, <1>6 DEF Placed, FramesAreInRange, Of
  <2>2. SlotsAreInPlace'
    <3>1. ASSUME NEW q \in Peer, NEW i \in DOMAIN assembly'[q], assembly'[q][i] # NoFrame
          PROVE  /\ assembly'[q][i].idx = i
                 /\ assembly'[q][i].total = Len(assembly'[q])
                 /\ Src[assembly'[q][i].pkt] = q
      <4>1. CASE q = p
        <5>1. assembly'[p] = slots
          BY <1>11, <3>1, <4>1
        <5>2. QED
          BY <1>10, <3>1, <4>1, <5>1
      <4>2. CASE q # p
        BY <1>0, <1>5, <3>1, <4>2 DEF Placed, SlotsAreInPlace
      <4>3. QED
        BY <4>1, <4>2
    <3>2. QED
      BY <3>1 DEF SlotsAreInPlace
  <2>3. BlobsAreWellFormed'
    <3>1. ASSUME NEW q \in Peer, NEW n \in DOMAIN received'[q], NEW i \in DOMAIN received'[q][n]
          PROVE  /\ received'[q][n][i].idx = i
                 /\ received'[q][n][i].total = Len(received'[q][n])
                 /\ Src[received'[q][n][i].pkt] = q
      <4>1. CASE received'[q] = received[q]
        BY <1>0, <3>1, <4>1 DEF Placed, BlobsAreWellFormed
      <4>2. CASE /\ q = p /\ received'[p] = Append(received[p], slots)
                 /\ \A h \in DOMAIN slots : slots[h] # NoFrame
        <5>1. received[p] \in Seq(Seq(Frame))
          BY <1>4
        <5>2. \/ n \in DOMAIN received[p] /\ received'[p][n] = received[p][n]
              \/ received'[p][n] = slots
          BY <4>2, <5>1
        <5>3. CASE n \in DOMAIN received[p] /\ received'[p][n] = received[p][n]
          BY <1>0, <3>1, <4>2, <5>3 DEF Placed, BlobsAreWellFormed
        <5>4. CASE received'[p][n] = slots
          BY <1>10, <3>1, <4>2, <5>4
        <5>5. QED
          BY <5>2, <5>3, <5>4
      <4>3. QED
        BY <1>5, <1>11, <4>1, <4>2
    <3>2. QED
      BY <3>1 DEF BlobsAreWellFormed
  <2>4. QED
    BY <2>1, <2>2, <2>3 DEF Placed
<1>13. sent' = sent /\ txQueue' = txQueue /\ lost' = lost
  BY <1>1
<1>14. Line \in Seq(Frame)
  BY <1>0, LineFacts
<1>15. ASSUME NEW q \in Peer, q \notin lost' PROVE InStep(q)'
  <2>1. Numbered(q)
    BY <1>0 DEF Streams
  <2>2. PICK d \in Nat, t \in Nat :
          d <= t /\ Assembled(q, d) /\ Has(Line, q, d, t) /\ Waiting(q, t)
    BY <1>0, <1>13, <1>15 DEF Streams, InStep
  <2>3. Waiting(q, t)'
    BY <1>13, <2>2, SameNumbers DEF Waiting
  <2>4. ASSUME NEW l, NEW m, Has(Tail(Line), q, l, m) PROVE Has(Line, q, l, m)'
    <3>1. PICK line : line = Tail(Line)
      OBVIOUS
    <3>2. Line' = line /\ Has(line, q, l, m) /\ sent'[q] = sent[q]
      BY <1>2, <1>13, <2>4, <3>1
    <3>3. QED
      BY <3>2, SameHas
  <2>5. CASE q # p
    <3>1. Has(Tail(Line), q, d, t)
      BY <1>0, <1>2, <1>14, <2>1, <2>2, <2>5, HasTail
    <3>2. Assembled(q, d)'
      BY <1>5, <1>13, <2>2, <2>5, SameAssembled
    <3>3. QED
      BY <2>2, <2>3, <2>4, <3>1, <3>2 DEF InStep
  <2>6. CASE q = p
    <3>0. /\ Numbered(p) /\ Assembled(p, d) /\ Has(Line, p, d, t) /\ Waiting(p, t)
          /\ Src[Line[1].pkt] = p /\ f = Line[1] /\ Line # <<>>
      BY <1>2, <2>1, <2>2, <2>6
    <3>1. d + 1 \in d + 1 .. t /\ IsFrame(p, f, d + 1) /\ Has(Tail(Line), p, d + 1, t)
      BY <1>0, <1>14, <3>0, HasTail
    <3>2. d + 1 <= FramesOf(p)
      <4>1. t + Len(txQueue[p]) = FramesOf(p) /\ Len(txQueue[p]) \in Nat
        BY <1>0, <2>2, <2>6 DEF Waiting, TypeOK
      <4>2. QED
        BY <3>1, <4>1
    <3>3. PICK u \in Nat : u = d + 1 /\ u <= t
      BY <3>1
    <3>4. PICK n \in Nat, j \in Nat, total \in Nat :
           /\ n = Len(received[p]) /\ n + 1 \in DOMAIN sent[p] /\ total = sent[p][n + 1].total
           /\ j + 1 <= total /\ d = Upto(p, n) + j /\ f.total = total
           /\ \A i \in DOMAIN slots :
                IF i <= j + 1 THEN slots[i].pkt = sent[p][n + 1].pkt /\ slots[i].idx = i
                              ELSE slots[i] = NoFrame
      <4>1. Filled(p, f, slots)
        BY <1>2 DEF Filled
      <4>2. PICK n \in Nat, j \in Nat, total \in Nat : FilledUpTo(p, d, f, slots, n, j, total)
        BY <1>0, <3>0, <3>1, <3>2, <4>1, NextSlot
      <4>3. QED
        BY <4>2 DEF FilledUpTo
    <3>5. /\ \A i \in 1 .. n : Whole(received[p][i], sent[p][i])
          /\ Upto(p, n) \in Nat /\ Len(sent[p]) \in Nat /\ n + 1 \in 1 .. Len(sent[p])
          /\ sent[p][n + 1].pkt \in Pkt
          /\ Upto(p, n + 1) = Upto(p, n) + total
      <4>1. DOMAIN sent[p] = 1 .. Len(sent[p]) /\ Len(sent[p]) \in Nat
        BY <1>0, PeerTypes
      <4>2. n + 1 \in 1 .. Len(sent[p]) /\ n \in 0 .. Len(sent[p]) /\ (n + 1) - 1 = n /\ n + 1 # 0
        BY <3>4, <4>1
      <4>3. sent[p][n + 1].before = Upto(p, n)
        BY <2>1, <2>6, <3>4, <4>2 DEF Numbered
      <4>4. Upto(p, n + 1) = Upto(p, n) + total
        BY <3>4, <4>2, <4>3 DEF Upto
      <4>5. QED
        BY <1>0, <2>2, <2>6, <3>4, <4>1, <4>2, <4>4, PeerTypes DEF Assembled
    <3>6. \A m : Upto(p, m)' = Upto(p, m)
      BY <1>13, SameNumbers
    <3>7. Assembled(p, u)'
      <4>1. CASE j + 1 = total
        <5>1. DOMAIN slots = 1 .. total
          BY <1>2, <3>4
        <5>2. \A i \in DOMAIN slots : slots[i].pkt = sent[p][n + 1].pkt /\ slots[i].idx = i
          <6>1. \A i \in DOMAIN slots : i <= j + 1
            BY <4>1, <5>1
          <6>2. QED
            BY <3>4, <6>1
        <5>3. \A i \in DOMAIN slots : slots[i] # NoFrame
          BY <3>5, <5>2, NoPktAssumption DEF NoFrame
        <5>4. assembly'[p] = <<>> /\ received'[p] = Append(received[p], slots)
          BY <1>2, <1>4, <5>3
        <5>5. received[p] \in Seq(Seq(Frame)) /\ n = Len(received[p])
          BY <1>4, <3>4
        <5>6. /\ Len(received'[p]) = n + 1 /\ received'[p][n + 1] = slots
              /\ \A i \in 1 .. n : received'[p][i] = received[p][i]
          BY <5>4, <5>5
        <5>7. Whole(slots, sent[p][n + 1])
          BY <1>2, <3>4, <5>2 DEF Whole
        <5>8. \A i \in 1 .. n + 1 : Whole(received'[p][i], sent[p][i])
          <6>1. \A i \in 1 .. n + 1 : i \in 1 .. n \/ i = n + 1
            OBVIOUS
          <6>2. QED
            BY <3>5, <5>6, <5>7, <6>1
        <5>9. \A i \in 1 .. n + 1 : Whole(received[p][i], sent[p][i])'
          BY <1>13, <5>8 DEF Whole
        <5>10. u = Upto(p, n + 1)
          BY <3>3, <3>4, <3>5, <4>1
        <5>11. n + 1 <= Len(sent'[p])
          BY <1>13, <3>5
        <5>12. PICK r : r = n + 1
          OBVIOUS
        <5>13. /\ r = Len(received'[p]) /\ r <= Len(sent'[p])
               /\ \A i \in 1 .. r : Whole(received[p][i], sent[p][i])'
               /\ u = Upto(p, r)'
          BY <3>6, <5>6, <5>9, <5>10, <5>11, <5>12
        <5>14. QED
          BY <5>4, <5>13 DEF Assembled
      <4>2. CASE j + 1 # total
        <5>1. PICK h \in 1 .. total - 1 : h = j + 1
          BY <3>4, <4>2
        <5>2. j + 2 \in DOMAIN slots /\ ~(j + 2 <= j + 1)
          <6>1. DOMAIN slots = 1 .. total
            BY <1>2, <3>4
          <6>2. j + 2 \in 1 .. total /\ ~(j + 2 <= j + 1)
            <7>1. total \in Nat /\ j \in Nat /\ j + 1 <= total
              BY <3>4
            <7>2. QED
              BY <4>2, <7>1
          <6>3. QED
            BY <6>1, <6>2
        <5>3. slots[j + 2] = NoFrame
          BY <3>4, <5>2
        <5>4. assembly'[p] = slots /\ received' = received
          BY <1>2, <1>4, <5>2, <5>3
        <5>5. u = Upto(p, n) + h
          BY <3>3, <3>4, <3>5, <5>1
        <5>6. \A i \in DOMAIN slots :
                IF i <= h THEN slots[i].pkt = sent[p][n + 1].pkt /\ slots[i].idx = i
                          ELSE slots[i] = NoFrame
          BY <3>4, <5>1
        <5>7. n = Len(received'[p]) /\ n <= Len(sent'[p]) /\ n + 1 \in DOMAIN sent'[p]
              /\ total = sent'[p][n + 1].total
          BY <1>13, <3>4, <3>5, <5>4
        <5>8. \A i \in 1 .. n : Whole(received[p][i], sent[p][i])'
          BY <1>13, <3>5, <5>4 DEF Whole
        <5>9. u = Upto(p, n)' + h /\ Len(assembly'[p]) = total
          BY <1>2, <3>4, <3>6, <5>4, <5>5
        <5>10. \A i \in DOMAIN assembly'[p] :
                 IF i <= h THEN assembly'[p][i].pkt = sent'[p][n + 1].pkt /\ assembly'[p][i].idx = i
                           ELSE assembly'[p][i] = NoFrame
          BY <1>13, <5>4, <5>6
        <5>11. QED
          BY <5>7, <5>8, <5>9, <5>10 DEF Assembled
      <4>3. QED
        BY <4>1, <4>2
    <3>8. Has(Line, p, u, t)'
      BY <2>4, <2>6, <3>1, <3>3
    <3>9. QED
      BY <2>3, <2>6, <3>3, <3>7, <3>8 DEF InStep
  <2>7. QED
    BY <2>5, <2>6
<1>16. \A q \in Peer : Numbered(q)'
  BY <1>0, <1>13, SameNumbers DEF Streams
<1>17. QED
  BY <1>9, <1>12, <1>15, <1>16 DEF IInv, Streams

-----------------------------------------------------------------------------
(* The theorems                                                            *)

\* Before the first step there is no frame anywhere.
LEMMA InitIInv == Init => IInv
<1> SUFFICES ASSUME Init PROVE IInv
  OBVIOUS
<1>1. TypeOK
  BY BleBoundsAssumption DEF Init, TypeOK
<1>2. \A p \in Peer : /\ txQueue[p] = <<>> /\ sent[p] = <<>>
                      /\ assembly[p] = <<>> /\ received[p] = <<>>
  BY DEF Init
<1>3. rxQueue = <<>> /\ incoming = <<>>
  BY DEF Init
<1>4. Placed
  BY <1>2, <1>3 DEF Placed, FramesAreInRange, SlotsAreInPlace, BlobsAreWellFormed
<1>5. Line = <<>>
  BY <1>3 DEF Line
<1>6. ASSUME NEW p \in Peer PROVE Numbered(p) /\ InStep(p)
  <2>1. Numbered(p)
    BY <1>2 DEF Numbered
  <2>2. Assembled(p, 0)
    BY <1>2 DEF Assembled, Upto
  <2>3. Has(Line, p, 0, 0)
    BY <1>5 DEF Has
  <2>4. Waiting(p, 0)
    BY <1>2 DEF Waiting, FramesOf
  <2>5. QED
    BY <2>1, <2>2, <2>3, <2>4 DEF InStep
<1>7. QED
  BY <1>1, <1>4, <1>6 DEF IInv, Streams

\* Every step keeps the invariant.
LEMMA StepIInv == IInv /\ [Next]_vars => IInv'
<1> SUFFICES ASSUME IInv, [Next]_vars PROVE IInv'
  OBVIOUS
<1>1. ASSUME NEW p \in Peer, LinkUp(p) \/ NegotiateMtu(p) \/ Register(p) \/ LinkDown(p)
      PROVE  IInv'
  BY <1>1, ConnectionStep
<1>2. ASSUME NEW p \in Peer, RefuseFrame(p) \/ LoseFrame(p) PROVE IInv'
  BY <1>2, DropStep
<1>3. ASSUME NEW p \in Peer, ArriveFrame(p) PROVE IInv'
  BY <1>3, ArriveStep
<1>4. ASSUME NEW k \in Pkt, SendPacket(k) PROVE IInv'
  BY <1>4, SendStep
<1>5. CASE PollRx
  BY <1>5, PollStep
<1>6. CASE ReassembleFrame
  BY <1>6, ReassembleStep
<1>7. CASE UNCHANGED vars
  <2>1. UNCHANGED <<connVars, txQueue, rxQueue, incoming, rxRate, asmVars, sent, lost, losses>>
    BY <1>7 DEF vars, rxVars
  <2>2. TypeOK'
    BY <2>1 DEF IInv, TypeOK, connVars, asmVars
  <2>3. Placed' /\ Streams'
    BY <2>1, StillStep DEF IInv
  <2>4. QED
    BY <2>2, <2>3 DEF IInv
<1>8. QED
  BY <1>1, <1>2, <1>3, <1>4, <1>5, <1>6, <1>7 DEF Next

\* The invariant holds throughout.
LEMMA SpecIInv == Spec => []IInv
BY InitIInv, StepIInv, PTL DEF Spec

\* The state has its types: the queue of the receiver, what the poll took from
\* it and the rate window of a peer keep their bounds, and no slot of an
\* assembly and no blob holds anything but frames.
THEOREM TypeCorrect == Spec => []TypeOK
<1>1. IInv => TypeOK
  BY DEF IInv
<1>2. QED
  BY <1>1, SpecIInv, PTL

\* After any loss, reconnection and change of the write limit: a blob has the
\* segments of one peer, each in its place (BleInterface::spawn, PeerAssembly).
THEOREM BlobsHoldOnePeer == Spec => []BlobsAreWellFormed
<1>1. IInv => BlobsAreWellFormed
  BY DEF IInv, Placed
<1>2. QED
  BY <1>1, SpecIInv, PTL

\* While no frame of a peer was lost, the transport gets its packets whole, once
\* and in order, whatever the other peers send and lose.
THEOREM InOrder == Spec => []InOrderUnlessLost
<1>1. ASSUME IInv, NEW p \in Peer \ lost, NEW n \in DOMAIN received[p]
      PROVE  n \in DOMAIN sent[p] /\ Whole(received[p][n], sent[p][n])
  <2>1. PICK d \in Nat : Assembled(p, d)
    BY <1>1 DEF IInv, Streams, InStep
  <2>2. n \in 1 .. Len(received[p]) /\ Len(received[p]) \in Nat
    <3>1. received[p] \in Seq(Seq(Frame))
      BY <1>1 DEF IInv, TypeOK
    <3>2. QED
      BY <1>1, <3>1
  <2>3. DOMAIN sent[p] = 1 .. Len(sent[p]) /\ Len(sent[p]) \in Nat
    BY <1>1, PeerTypes DEF IInv
  <2>4. /\ Len(received[p]) <= Len(sent[p])
        /\ \A i \in 1 .. Len(received[p]) : Whole(received[p][i], sent[p][i])
    BY <2>1 DEF Assembled
  <2>5. QED
    BY <2>2, <2>3, <2>4
<1>2. IInv => InOrderUnlessLost
  BY <1>1 DEF InOrderUnlessLost
<1>3. QED
  BY <1>2, SpecIInv, PTL
=============================================================================
