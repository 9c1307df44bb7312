------------------------- MODULE FrameStreamProofs -------------------------
(***************************************************************************)
(* Lemmas about the frame buffer and the packets of a film that the proofs  *)
(* about both receivers rest on.                                           *)
(***************************************************************************)
EXTENDS FrameStream, SequenceTheorems, TLAPS

Places == {"free", "held", "queued", "playing"}
Copied == [seq : SeqNos, len : Nat]

LEMMA PacketType ==
  /\ Len(Stream) \in Nat
  /\ \A k \in SeqNos : k \in Nat /\ Packet(k) \in Packets /\ Packet(k).subframe_total \in Nat
                       /\ Packet(k).payload_len \in Nat /\ Packet(k).timecode \in Nat
                       /\ Video(k) \in BOOLEAN
<1>1. Stream \in Seq(Packets)
  BY StreamAssumption
<1>2. Len(Stream) \in Nat
  BY <1>1
<1>3. \A k \in SeqNos : k \in Nat /\ Packet(k) \in Packets
  BY <1>1, <1>2 DEF SeqNos, Packet
<1>4. QED
  BY <1>2, <1>3 DEF Packets, Video

(* The frame of an info packet, and what comes after it. *)
LEMMA FrameOfInfo ==
  ASSUME NEW k \in SeqNos, Packet(k).pkt_type = "info"
  PROVE  /\ \A j \in 1 .. Packet(k).subframe_total : k + j \in SeqNos =>
              Packet(k + j).pkt_type = "data" /\ Packet(k + j).frame_seq_no = Packet(k).frame_seq_no
         /\ k + Packet(k).subframe_total + 1 \in SeqNos =>
              Packet(k + Packet(k).subframe_total + 1).pkt_type = "info"
  BY StreamAssumption, PacketType

LEMMA FirstInfo == 0 \in SeqNos => Packet(0).pkt_type = "info"
  BY StreamAssumption

LEMMA PoolInitOK ==
  ASSUME PoolInit
  PROVE  PoolTypeOK /\ OnePlace(NULL) /\ InUse = {}
  BY BuffersAssumption DEF PoolInit, PoolTypeOK, OnePlace, InUse

(* The frame that is put away is the one in hand, or a free one when there is none. *)
LEMMA PutAwayOnePlace ==
  ASSUME PoolTypeOK, NEW hand, OnePlace(hand),
         NEW f \in Buffers, hand = f \/ (hand = NULL /\ place[f] = "free"),
         NEW queueIt \in BOOLEAN, PutAway(f, queueIt)
  PROVE  /\ place' \in [Buffers -> Places] /\ queue' \in Seq(Buffers)
         /\ OnePlace(NULL)'
         /\ place'[f] = (IF queueIt THEN "queued" ELSE "free")
         /\ \A g \in Buffers \ {f} : place'[g] = place[g]
<1> USE BuffersAssumption
<1>1. /\ place \in [Buffers -> Places] /\ queue \in Seq(Buffers) /\ place[f] \in {"free", "held"}
      /\ place' = [place EXCEPT ![f] = IF queueIt THEN "queued" ELSE "free"]
      /\ queue' = IF queueIt THEN Append(queue, f) ELSE queue
  BY DEF PoolTypeOK, PutAway, OnePlace, Places
<1>2. /\ place' \in [Buffers -> Places]
      /\ place'[f] = (IF queueIt THEN "queued" ELSE "free")
      /\ \A g \in Buffers \ {f} : place'[g] = place[g]
  BY <1>1 DEF Places
<1>3. \A g \in Buffers : place'[g] # "held"
  BY <1>1, <1>2 DEF OnePlace
<1>4. \A j \in DOMAIN queue : queue[j] # f
  BY <1>1 DEF OnePlace
<1>5. CASE queueIt
  <2>1. /\ queue' \in Seq(Buffers) /\ Len(queue') = Len(queue) + 1 /\ queue'[Len(queue) + 1] = f
        /\ \A j \in 1 .. Len(queue) : queue'[j] = queue[j]
        /\ Len(queue) \in Nat /\ DOMAIN queue = 1 .. Len(queue)
        /\ DOMAIN queue' = 1 .. Len(queue) + 1
    BY <1>1, <1>5, AppendProperties
  <2>2. \A g \in Buffers : place'[g] = "queued" <=> \E j \in DOMAIN queue' : queue'[j] = g
    BY <1>2, <1>5, <2>1 DEF OnePlace
  <2>3. \A j, k \in DOMAIN queue' : queue'[j] = queue'[k] => j = k
    BY <1>4, <2>1 DEF OnePlace
  <2>4. QED
    BY <1>2, <1>3, <2>1, <2>2, <2>3 DEF OnePlace
<1>6. CASE ~ queueIt
  <2>1. queue' = queue /\ place'[f] = "free"
    BY <1>1, <1>2, <1>6
  <2>2. QED
    BY <1>1, <1>2, <1>3, <1>4, <2>1 DEF OnePlace
<1>7. QED
  BY <1>5, <1>6

LEMMA HoldOnePlace ==
  ASSUME PoolTypeOK, NEW hand, OnePlace(hand),
         NEW f \in Buffers, hand = f \/ (hand = NULL /\ place[f] = "free"),
         Hold(f)
  PROVE  /\ place' \in [Buffers -> Places] /\ queue' \in Seq(Buffers)
         /\ OnePlace(f)'
         /\ place'[f] = "held"
         /\ \A g \in Buffers \ {f} : place'[g] = place[g]
<1> USE BuffersAssumption
<1>1. /\ place \in [Buffers -> Places] /\ queue \in Seq(Buffers) /\ queue' = queue
      /\ place' = [place EXCEPT ![f] = "held"] /\ place[f] \in {"free", "held"}
  BY DEF PoolTypeOK, Hold, OnePlace, Places
<1>2. /\ place' \in [Buffers -> Places] /\ place'[f] = "held"
      /\ \A g \in Buffers \ {f} : place'[g] = place[g]
  BY <1>1 DEF Places
<1>3. OnePlace(f)'
  BY <1>1, <1>2 DEF OnePlace
<1>4. QED
  BY <1>1, <1>2, <1>3

(* The player touches neither the frame in hand nor what is in the frames. *)
LEMMA PlayerOnePlace ==
  ASSUME PoolTypeOK, NEW hand, OnePlace(hand), PlayerNext
  PROVE  /\ PoolTypeOK' /\ OnePlace(hand)' /\ UNCHANGED <<m_Info, m_pData>>
         /\ \A f \in Buffers : place[f] = "free" => place'[f] = "free"
         /\ \A f \in Buffers : place'[f] # "free" =>
              place[f] # "free" /\ (place'[f] = "held" <=> place[f] = "held")
         /\ queue' = queue \/ (queue # <<>> /\ queue' = Tail(queue))
<1>1. CASE Play
  <2>1. /\ place \in [Buffers -> Places] /\ queue \in Seq(Buffers) /\ queue # <<>>
        /\ place' = [place EXCEPT ![Head(queue)] = "playing"] /\ queue' = Tail(queue)
        /\ UNCHANGED <<m_Info, m_pData>>
    BY <1>1 DEF PoolTypeOK, Play, Places
  <2>2. /\ Head(queue) = queue[1] /\ Head(queue) \in Buffers
        /\ queue' \in Seq(Buffers) /\ Len(queue) \in Nat \ {0}
        /\ DOMAIN queue = 1 .. Len(queue) /\ DOMAIN queue' = 1 .. Len(queue) - 1
        /\ \A j \in 1 .. Len(queue) - 1 : queue'[j] = queue[j + 1]
    BY <2>1, HeadTailProperties
  <2>3. place[Head(queue)] = "queued"
    BY <2>2 DEF OnePlace
  <2>4. /\ place' \in [Buffers -> Places] /\ place'[Head(queue)] = "playing"
        /\ \A g \in Buffers \ {Head(queue)} : place'[g] = place[g]
    BY <2>1, <2>2 DEF Places
  <2>5. PoolTypeOK'
    BY <2>1, <2>2, <2>4 DEF PoolTypeOK, Places
  <2>6. \A f \in Buffers : place'[f] = "held" <=> f = hand
    BY <2>2, <2>3, <2>4 DEF OnePlace
  <2>7. \A j \in 2 .. Len(queue) : queue[j] # Head(queue)
    BY <2>2 DEF OnePlace
  <2>8. ASSUME NEW f \in Buffers, place'[f] = "queued"
        PROVE  \E j \in DOMAIN queue' : queue'[j] = f
    <3>1. f # Head(queue) /\ place[f] = "queued"
      BY <2>2, <2>4, <2>8
    <3>2. PICK j \in DOMAIN queue : queue[j] = f
      BY <3>1 DEF OnePlace
    <3>3. j - 1 \in DOMAIN queue' /\ queue'[j - 1] = f
      BY <2>2, <3>1, <3>2
    <3>4. QED
      BY <3>3
  <2>9. ASSUME NEW j \in DOMAIN queue'
        PROVE  queue'[j] \in Buffers /\ place'[queue'[j]] = "queued"
    <3>1. j + 1 \in 2 .. Len(queue) /\ queue'[j] = queue[j + 1]
      BY <2>2
    <3>2. queue[j + 1] \in Buffers /\ queue[j + 1] # Head(queue) /\ place[queue[j + 1]] = "queued"
      BY <2>1, <2>2, <2>7, <3>1 DEF OnePlace
    <3>3. QED
      BY <2>4, <3>1, <3>2
  <2>10. ASSUME NEW j \in DOMAIN queue', NEW k \in DOMAIN queue', queue'[j] = queue'[k]
         PROVE  j = k
    <3>1. /\ j + 1 \in DOMAIN queue /\ k + 1 \in DOMAIN queue /\ j \in Int /\ k \in Int
          /\ queue[j + 1] = queue[k + 1]
      BY <2>2, <2>10
    <3>2. j + 1 = k + 1
      BY <3>1 DEF OnePlace
    <3>3. QED
      BY <3>1, <3>2
  <2>11. \A f \in Buffers : place'[f] = "queued" <=> \E j \in DOMAIN queue' : queue'[j] = f
    BY <2>8, <2>9
  <2>12. OnePlace(hand)'
    BY <2>6, <2>10, <2>11 DEF OnePlace
  <2>13. \A f \in Buffers : place[f] = "free" => place'[f] = "free"
    BY <2>3, <2>4
  <2>14. \A f \in Buffers : place'[f] # "free" =>
           place[f] # "free" /\ (place'[f] = "held" <=> place[f] = "held")
    BY <2>3, <2>4
  <2>15. QED
    BY <2>1, <2>5, <2>12, <2>13, <2>14
<1>2. CASE \E g \in Buffers : Played(g)
  <2>1. PICK g \in Buffers : Played(g)
    BY <1>2
  <2>2. queue' = queue /\ m_Info' = m_Info /\ m_pData' = m_pData
    BY <2>1 DEF Played
  <2>3. PoolTypeOK' /\ OnePlace(hand)'
    BY <2>1 DEF Played, PoolTypeOK, OnePlace
  <2>4. /\ \A f \in Buffers : place[f] = "free" => place'[f] = "free"
        /\ \A f \in Buffers : place'[f] # "free" =>
             place[f] # "free" /\ (place'[f] = "held" <=> place[f] = "held")
    BY <2>1 DEF Played, PoolTypeOK
  <2>5. QED
    BY <2>2, <2>3, <2>4
<1>3. QED
  BY <1>1, <1>2 DEF PlayerNext

=============================================================================
