------------------------- MODULE FpgaReceiverProofs -------------------------
(***************************************************************************)
(* Proofs about fpgas/udpreceiver.cpp, for any film, any number of buffers  *)
(* and any AckEvery.                                                       *)
(***************************************************************************)
EXTENDS FpgaReceiver, FrameStreamProofs

(* The inductive invariant. *)

StateInv ==
  /\ states = "data" <=> frame # NULL
  /\ frame = NULL => subframe_count = 0

(* The frame in hand has been given what its counts say, and not yet all of it. *)
HandInv ==
  frame # NULL =>
    /\ m_Info[frame] \in SeqNos
    /\ subframe_total = Packet(m_Info[frame]).subframe_total
    /\ Len(m_pData[frame]) = subframe_count
    /\ subframe_count < subframe_total
    /\ received_pkt_seq_no = m_Info[frame] + subframe_count + 1

(* Between two frames the next packet in order is an info packet. *)
StepInv ==
  states = "info" /\ received_pkt_seq_no \in SeqNos => Packet(received_pkt_seq_no).pkt_type = "info"

(* What is in use was begun before the next packet in order. *)
BegunInv == \A f \in InUse : m_Info[f] \in SeqNos /\ m_Info[f] < received_pkt_seq_no

IInv ==
  TypeOK /\ FramesAccounted /\ StateInv /\ HandInv /\ StepInv /\ BegunInv /\ FramesWhole /\ QueueInOrder

LEMMA InitInv == Init => IInv /\ AckIsLastInOrder
<1> SUFFICES ASSUME Init PROVE IInv /\ AckIsLastInOrder
  OBVIOUS
<1>1. PoolTypeOK /\ OnePlace(NULL) /\ InUse = {} /\ queue = <<>>
  BY PoolInitOK DEF Init, PoolInit
<1>2. TypeOK
  <2>1. received_pkt_seq_no \in 0 .. Len(Stream) /\ packet_count \in 0 .. AckEvery - 1
    BY PacketType, AckAssumption DEF Init
  <2>2. ack \subseteq Int
    BY DEF Init
  <2>3. QED
    BY <1>1, <2>1, <2>2 DEF Init, TypeOK
<1>3. FramesAccounted /\ StateInv /\ HandInv /\ FramesWhole /\ BegunInv
  BY <1>1 DEF Init, FramesAccounted, StateInv, HandInv, FramesWhole, BegunInv
<1>4. StepInv /\ AckIsLastInOrder
  BY FirstInfo DEF Init, StepInv, AckIsLastInOrder
<1>5. QueueInOrder
  BY <1>1 DEF Init, QueueInOrder
<1>6. QED
  BY <1>2, <1>3, <1>4, <1>5 DEF IInv

LEMMA Counted ==
  ASSUME TypeOK, NEW seq \in Int, CountForAck(seq)
  PROVE  packet_count' \in 0 .. AckEvery - 1 /\ ack' \subseteq Int
  BY AckAssumption DEF CountForAck, TypeOK

(* A step that leaves the frames alone. *)
LEMMA SameFrames ==
  ASSUME IInv, UNCHANGED <<poolVars, frameVars, received_pkt_seq_no>>
  PROVE  FramesAccounted' /\ StateInv' /\ HandInv' /\ StepInv' /\ BegunInv' /\ FramesWhole' /\ QueueInOrder'
<1>1. FramesAccounted'
  BY DEF IInv, FramesAccounted, OnePlace, poolVars, frameVars
<1>2. StateInv' /\ HandInv' /\ StepInv'
  BY DEF IInv, StateInv, HandInv, StepInv, poolVars, frameVars
<1>3. BegunInv'
  BY DEF IInv, BegunInv, InUse, poolVars
<1>4. FramesWhole'
  BY DEF IInv, FramesWhole, FrameWhole, FrameOfOnePiece, InUse, poolVars
<1>5. QueueInOrder'
  BY DEF IInv, QueueInOrder, InUse, poolVars, frameVars
<1>6. QED
  BY <1>1, <1>2, <1>3, <1>4, <1>5

LEMMA MissingStep ==
  ASSUME IInv, NEW k \in SeqNos, Missing(k)
  PROVE  IInv'
<1>1. UNCHANGED <<poolVars, frameVars, received_pkt_seq_no>> /\ packet_count' = 0
      /\ ack' = {received_pkt_seq_no - 1}
  BY DEF Missing
<1>2. received_pkt_seq_no - 1 \in Int /\ 0 \in 0 .. AckEvery - 1
  BY AckAssumption DEF IInv, TypeOK
<1>3. TypeOK'
  BY <1>1, <1>2 DEF IInv, TypeOK, PoolTypeOK, poolVars, frameVars
<1>4. QED
  BY <1>1, <1>3, SameFrames DEF IInv

LEMMA CrashStep ==
  ASSUME IInv, NEW k \in SeqNos, FrameInfoCrash(k)
  PROVE  IInv'
<1>1. /\ frame = NULL /\ states' = "crash" /\ ack' = {} /\ k = received_pkt_seq_no
      /\ received_pkt_seq_no' = k + 1
      /\ UNCHANGED <<poolVars, frame, subframe_total, subframe_count, packet_count>>
  BY DEF FrameInfoCrash, InOrder, IInv, StateInv
<1>2. k \in Nat /\ k + 1 \in 0 .. Len(Stream)
  BY PacketType DEF SeqNos
<1>3. TypeOK'
  BY <1>1, <1>2 DEF IInv, TypeOK, PoolTypeOK, poolVars
<1>4. FramesAccounted' /\ StateInv' /\ HandInv' /\ StepInv'
  BY <1>1 DEF IInv, FramesAccounted, OnePlace, StateInv, HandInv, StepInv, poolVars
<1>5. BegunInv'
  BY <1>1, <1>2, PacketType DEF IInv, BegunInv, InUse, poolVars
<1>6. FramesWhole'
  BY <1>1 DEF IInv, FramesWhole, FrameWhole, FrameOfOnePiece, InUse, poolVars
<1>7. QueueInOrder'
  BY <1>1 DEF IInv, QueueInOrder, InUse, poolVars
<1>8. QED
  BY <1>3, <1>4, <1>5, <1>6, <1>7 DEF IInv

-----------------------------------------------------------------------------
(* A step that ends in lines 224-244 with the frame f, whose info is packet info, and
   count of total packets, the last one packet k, in it. *)
Finishing(f, count, total, info, k, data) ==
  /\ frame = f \/ (frame = NULL /\ place[f] = "free")
  /\ count <= total
  /\ Finish(f, count, total, info)
  /\ received_pkt_seq_no' = k + 1
  /\ k = info + count
  /\ packet_count' \in 0 .. AckEvery - 1 /\ ack' \subseteq Int
  /\ m_Info' = [m_Info EXCEPT ![f] = info]
  /\ m_pData' = [m_pData EXCEPT ![f] = data]
  /\ total = Packet(info).subframe_total
  /\ Len(data) = count
  /\ Packet(info).pkt_type = "info"
  /\ \A j \in DOMAIN data : /\ data[j].seq = info + j
                            /\ Packet(data[j].seq).pkt_type = "data"
                            /\ Packet(data[j].seq).frame_seq_no = Packet(info).frame_seq_no
  /\ \A g \in InUse \ {f} : m_Info[g] < info

LEMMA FinishStep ==
  ASSUME IInv, NEW f \in Buffers, NEW count \in Nat, NEW total \in Nat,
         NEW info \in SeqNos, NEW k \in SeqNos, NEW data \in Seq(Copied),
         Finishing(f, count, total, info, k, data)
  PROVE  IInv'
<1>0. /\ frame = f \/ (frame = NULL /\ place[f] = "free")
      /\ count <= total
      /\ Finish(f, count, total, info)
      /\ received_pkt_seq_no' = k + 1
      /\ k = info + count
      /\ packet_count' \in 0 .. AckEvery - 1 /\ ack' \subseteq Int
      /\ m_Info' = [m_Info EXCEPT ![f] = info]
      /\ m_pData' = [m_pData EXCEPT ![f] = data]
      /\ total = Packet(info).subframe_total
      /\ Len(data) = count
      /\ Packet(info).pkt_type = "info"
      /\ \A j \in DOMAIN data : /\ data[j].seq = info + j
                                /\ Packet(data[j].seq).pkt_type = "data"
                                /\ Packet(data[j].seq).frame_seq_no = Packet(info).frame_seq_no
      /\ \A g \in InUse \ {f} : m_Info[g] < info
  BY DEF Finishing
<1> USE <1>0, BuffersAssumption
<1>1. /\ m_Info' \in [Buffers -> SeqNos \cup {-1}] /\ m_Info'[f] = info
      /\ m_pData' \in [Buffers -> Seq(Copied)] /\ m_pData'[f] = data
      /\ \A g \in Buffers \ {f} : m_Info'[g] = m_Info[g] /\ m_pData'[g] = m_pData[g]
  BY DEF IInv, TypeOK, PoolTypeOK, Copied
<1>2. k + 1 \in 0 .. Len(Stream) /\ info \in Int /\ info \in Nat /\ info < k + 1
  BY PacketType DEF SeqNos
<1>3. /\ subframe_total' = total /\ states' \in {"info", "data"} /\ frame' \in Buffers \cup {NULL}
      /\ count = total => subframe_count' = 0 /\ states' = "info" /\ frame' = NULL
      /\ count # total => subframe_count' = count /\ states' = "data" /\ frame' = f
  BY DEF Finish
<1>4. /\ place' \in [Buffers -> Places] /\ queue' \in Seq(Buffers)
      /\ \A g \in Buffers \ {f} : place'[g] = place[g]
      /\ place'[f] = "held" => count # total
      /\ FramesAccounted'
  <2>1. CASE count = total
    <3>1. PutAway(f, Video(info)) /\ Video(info) \in BOOLEAN
      BY <2>1, PacketType DEF Finish
    <3>2. /\ place' \in [Buffers -> Places] /\ queue' \in Seq(Buffers) /\ OnePlace(NULL)'
          /\ \A g \in Buffers \ {f} : place'[g] = place[g]
          /\ place'[f] = (IF Video(info) THEN "queued" ELSE "free")
      BY <3>1, PutAwayOnePlace DEF IInv, TypeOK, FramesAccounted
    <3>3. FramesAccounted'
      BY <1>3, <2>1, <3>2 DEF FramesAccounted, OnePlace
    <3>4. QED
      BY <3>2, <3>3
  <2>2. CASE count # total
    <3>1. Hold(f)
      BY <2>2 DEF Finish
    <3>2. /\ place' \in [Buffers -> Places] /\ queue' \in Seq(Buffers) /\ OnePlace(f)'
          /\ \A g \in Buffers \ {f} : place'[g] = place[g]
      BY <3>1, HoldOnePlace DEF IInv, TypeOK, FramesAccounted
    <3>3. FramesAccounted'
      BY <1>3, <2>2, <3>2 DEF FramesAccounted, OnePlace
    <3>4. QED
      BY <2>2, <3>2, <3>3
  <2>3. QED
    BY <2>1, <2>2
<1>5. TypeOK'
  <2>1. PoolTypeOK'
    BY <1>1, <1>4 DEF PoolTypeOK, Copied, Places
  <2>2. subframe_total' \in Nat /\ subframe_count' \in Nat
    BY <1>3
  <2>3. QED
    BY <1>2, <1>3, <2>1, <2>2 DEF TypeOK
<1>6. StateInv'
  BY <1>3 DEF StateInv
<1>7. HandInv'
  BY <1>1, <1>2, <1>3, PacketType DEF HandInv
<1>8. StepInv'
  <2>1. count = total /\ k + 1 \in SeqNos => Packet(k + 1).pkt_type = "info"
    <3>1. count = total => info + Packet(info).subframe_total + 1 = k + 1
      BY <1>2
    <3>2. QED
      BY <3>1, FrameOfInfo
  <2>2. QED
    BY <1>3, <2>1 DEF StepInv
<1>9. \A g \in Buffers \ {f} : place'[g] # "free" =>
        g \in InUse /\ m_Info'[g] = m_Info[g] /\ m_pData'[g] = m_pData[g]
  BY <1>1, <1>4 DEF InUse
<1>10. BegunInv'
  <2>1. ASSUME NEW g \in Buffers, place'[g] # "free"
        PROVE  m_Info'[g] \in SeqNos /\ m_Info'[g] < k + 1
    <3>1. CASE g = f
      BY <1>1, <1>2, <3>1
    <3>2. CASE g # f
      <4>1. m_Info[g] \in SeqNos /\ m_Info[g] < info /\ m_Info'[g] = m_Info[g]
        BY <1>9, <2>1, <3>2 DEF IInv, BegunInv
      <4>2. m_Info[g] \in Nat
        BY <4>1, PacketType
      <4>3. m_Info[g] < k + 1
        BY <1>2, <4>1, <4>2
      <4>4. QED
        BY <4>1, <4>3
    <3>3. QED
      BY <3>1, <3>2
  <2>2. QED
    BY <2>1 DEF BegunInv, InUse
<1>11. FramesWhole'
  <2>1. ASSUME NEW g \in Buffers, place'[g] # "free"
        PROVE  FrameOfOnePiece(g)' /\ FrameWhole(g)'
    <3>1. CASE g = f
      <4>1. place'[f] # "held" => count = total
        BY <1>3, <1>4 DEF FramesAccounted, OnePlace
      <4>2. QED
        BY <1>1, <3>1, <4>1 DEF FrameOfOnePiece, FrameWhole
    <3>2. CASE g # f
      <4>1. FrameOfOnePiece(g) /\ FrameWhole(g)
        BY <1>9, <2>1, <3>2 DEF IInv, FramesWhole
      <4>2. QED
        BY <1>1, <1>4, <3>2, <4>1 DEF FrameOfOnePiece, FrameWhole
    <3>3. QED
      BY <3>1, <3>2
  <2>2. QED
    BY <2>1 DEF FramesWhole, InUse
<1>12. QueueInOrder'
  <2>1. /\ \A j \in DOMAIN queue : queue[j] \in Buffers \ {f} /\ queue[j] \in InUse
        /\ queue \in Seq(Buffers) /\ Len(queue) \in Nat /\ DOMAIN queue = 1 .. Len(queue)
    <3>1. queue \in Seq(Buffers) /\ place[f] # "queued"
      BY DEF IInv, TypeOK, PoolTypeOK, FramesAccounted, OnePlace
    <3>2. \A j \in DOMAIN queue : queue[j] \in Buffers /\ place[queue[j]] = "queued"
      BY <3>1 DEF IInv, FramesAccounted, OnePlace
    <3>3. QED
      BY <3>1, <3>2 DEF InUse
  <2>2. queue' = queue \/ queue' = Append(queue, f)
    BY DEF Finish, PutAway, Hold
  <2>3. \A j, m \in DOMAIN queue : j < m => m_Info'[queue[j]] < m_Info'[queue[m]]
    BY <1>1, <2>1 DEF IInv, QueueInOrder
  <2>4. \A j, m \in DOMAIN queue' : j < m => m_Info'[queue'[j]] < m_Info'[queue'[m]]
    <3>1. CASE queue' = queue
      BY <2>3, <3>1
    <3>2. CASE queue' = Append(queue, f)
      <4>1. /\ DOMAIN queue' = 1 .. Len(queue) + 1 /\ queue'[Len(queue) + 1] = f
            /\ \A j \in 1 .. Len(queue) : queue'[j] = queue[j]
        BY <2>1, <3>2, AppendProperties
      <4>2. ASSUME NEW j \in 1 .. Len(queue)
            PROVE  m_Info'[queue'[j]] < m_Info'[f]
        <5>1. queue'[j] \in Buffers \ {f} /\ queue'[j] \in InUse
          BY <2>1, <4>1, <4>2
        <5>2. QED
          BY <1>1, <5>1
      <4>3. ASSUME NEW j \in DOMAIN queue', NEW m \in DOMAIN queue', j < m
            PROVE  m_Info'[queue'[j]] < m_Info'[queue'[m]]
        <5>1. CASE m = Len(queue) + 1
          BY <2>1, <4>1, <4>2, <4>3, <5>1
        <5>2. CASE m # Len(queue) + 1
          <6>1. j \in 1 .. Len(queue) /\ m \in 1 .. Len(queue)
            BY <2>1, <4>1, <4>3, <5>2
          <6>2. QED
            BY <2>1, <2>3, <4>1, <4>3, <6>1
        <5>3. QED
          BY <5>1, <5>2
      <4>4. QED
        BY <4>3
    <3>3. QED
      BY <2>2, <3>1, <3>2
  <2>5. \A g \in Buffers \ {f} : place'[g] # "free" => m_Info'[g] < m_Info'[f] /\ m_Info'[g] \in Int
    BY <1>1, <1>9, PacketType DEF IInv, BegunInv
  <2>6. ASSUME NEW g \in Buffers, NEW h \in Buffers, place'[g] # "free", place'[h] # "free",
               m_Info'[g] = m_Info'[h]
        PROVE  g = h
    <3>1. CASE g = f \/ h = f
      BY <1>1, <1>2, <2>5, <2>6, <3>1
    <3>2. CASE g # f /\ h # f
      BY <1>9, <2>6, <3>2 DEF IInv, QueueInOrder
    <3>3. QED
      BY <3>1, <3>2
  <2>7. frame' # NULL => \A g \in InUse' \ {frame'} : m_Info'[g] < m_Info'[frame']
    BY <1>3, <2>5 DEF InUse
  <2>8. QED
    BY <2>4, <2>6, <2>7 DEF QueueInOrder, InUse
<1>13. QED
  BY <1>4, <1>5, <1>6, <1>7, <1>8, <1>10, <1>11, <1>12 DEF IInv

LEMMA FrameInfoStep ==
  ASSUME IInv, NEW k \in SeqNos, FrameInfo(k)
  PROVE  IInv'
<1>1. /\ frame = NULL /\ subframe_count = 0 /\ k = received_pkt_seq_no /\ received_pkt_seq_no' = k + 1
      /\ Packet(k).pkt_type = "info"
  BY DEF FrameInfo, InOrder, IInv, StateInv, StepInv
<1>2. PICK f \in Buffers :
        /\ place[f] = "free"
        /\ m_Info' = [m_Info EXCEPT ![f] = k]
        /\ m_pData' = [m_pData EXCEPT ![f] = <<>>]
        /\ Finish(f, subframe_count, Packet(k).subframe_total, k)
  BY DEF FrameInfo
<1>3. packet_count' \in 0 .. AckEvery - 1 /\ ack' \subseteq Int
  BY PacketType, Counted DEF IInv, FrameInfo
<1>4. /\ k \in Nat /\ k = k + 0 /\ Packet(k).subframe_total \in Nat /\ 0 <= Packet(k).subframe_total
      /\ <<>> \in Seq(Copied) /\ Len(<<>>) = 0 /\ DOMAIN <<>> = {}
  BY PacketType
<1>5. \A g \in InUse \ {f} : m_Info[g] < k
  BY <1>1 DEF IInv, BegunInv
<1>6. Finishing(f, 0, Packet(k).subframe_total, k, k, <<>>)
  BY <1>1, <1>2, <1>3, <1>4, <1>5 DEF Finishing
<1>7. QED
  BY <1>4, <1>6, FinishStep

LEMMA FrameDataStep ==
  ASSUME IInv, NEW k \in SeqNos, FrameData(k)
  PROVE  IInv'
<1> USE BuffersAssumption
<1> DEFINE copied == [seq |-> k, len |-> Packet(k).payload_len]
           data == Append(m_pData[frame], copied)
           info == m_Info[frame]
<1>1. /\ frame \in Buffers /\ frame # NULL /\ k = received_pkt_seq_no /\ received_pkt_seq_no' = k + 1
      /\ m_pData' = [m_pData EXCEPT ![frame] = data] /\ m_Info' = m_Info
      /\ Finish(frame, subframe_count + 1, subframe_total, info)
  BY DEF FrameData, InOrder, IInv, TypeOK, StateInv
<1>2. packet_count' \in 0 .. AckEvery - 1 /\ ack' \subseteq Int
  BY PacketType, Counted DEF IInv, FrameData
<1>3. /\ info \in SeqNos /\ info \in Nat /\ subframe_count \in Nat /\ subframe_total \in Nat
      /\ subframe_total = Packet(info).subframe_total /\ Len(m_pData[frame]) = subframe_count
      /\ subframe_count + 1 <= subframe_total /\ k = info + (subframe_count + 1)
  <2>1. HandInv /\ subframe_count \in Nat /\ subframe_total \in Nat
    BY DEF IInv, TypeOK
  <2>2. /\ info \in SeqNos /\ subframe_total = Packet(info).subframe_total
        /\ Len(m_pData[frame]) = subframe_count /\ subframe_count < subframe_total
        /\ k = info + subframe_count + 1
    BY <1>1, <2>1 DEF HandInv
  <2>3. info \in Nat
    BY <2>2, PacketType
  <2>4. QED
    BY <2>1, <2>2, <2>3
<1>4. m_pData[frame] \in Seq(Copied) /\ copied \in Copied /\ copied.seq = k
  BY <1>1, PacketType DEF IInv, TypeOK, PoolTypeOK, Copied
<1>5. /\ data \in Seq(Copied) /\ Len(data) = subframe_count + 1
      /\ DOMAIN data = 1 .. subframe_count + 1 /\ data[subframe_count + 1] = copied
      /\ DOMAIN m_pData[frame] = 1 .. subframe_count
      /\ \A j \in 1 .. subframe_count : data[j] = m_pData[frame][j]
  BY <1>3, <1>4, AppendProperties
<1>6. frame \in InUse /\ FrameOfOnePiece(frame) /\ FrameWhole(frame)
  BY <1>1 DEF IInv, FramesAccounted, OnePlace, InUse, FramesWhole
<1>7. Packet(info).pkt_type = "info" /\ \A g \in InUse \ {frame} : m_Info[g] < info
  BY <1>1, <1>6 DEF FrameOfOnePiece, IInv, QueueInOrder
<1>8. /\ Packet(k).pkt_type = "data" /\ Packet(k).frame_seq_no = Packet(info).frame_seq_no
  <2>1. subframe_count + 1 \in 1 .. Packet(info).subframe_total /\ info + (subframe_count + 1) \in SeqNos
    BY <1>3
  <2>2. \A j \in 1 .. Packet(info).subframe_total : info + j \in SeqNos =>
          Packet(info + j).pkt_type = "data" /\ Packet(info + j).frame_seq_no = Packet(info).frame_seq_no
    BY <1>3, <1>7, FrameOfInfo
  <2>3. QED
    BY <1>3, <2>1, <2>2
<1>9. \A j \in DOMAIN data : /\ data[j].seq = info + j
                             /\ Packet(data[j].seq).pkt_type = "data"
                             /\ Packet(data[j].seq).frame_seq_no = Packet(info).frame_seq_no
  <2>1. \A j \in 1 .. subframe_count :
          /\ data[j].seq = info + j
          /\ Packet(data[j].seq).pkt_type = "data"
          /\ Packet(data[j].seq).frame_seq_no = Packet(info).frame_seq_no
    BY <1>5, <1>6 DEF FrameOfOnePiece, FrameWhole
  <2>2. \A j \in DOMAIN data : j \in 1 .. subframe_count \/ j = subframe_count + 1
    BY <1>3, <1>5
  <2>3. data[subframe_count + 1].seq = info + (subframe_count + 1) /\ data[subframe_count + 1].seq = k
    BY <1>3, <1>4, <1>5
  <2>4. QED
    BY <1>8, <2>1, <2>2, <2>3
<1>10. m_Info' = [m_Info EXCEPT ![frame] = info]
  BY <1>1 DEF IInv, TypeOK, PoolTypeOK
<1> HIDE DEF data, copied, info
<1>11. Finishing(frame, subframe_count + 1, subframe_total, info, k, data)
  BY <1>1, <1>2, <1>3, <1>5, <1>7, <1>9, <1>10 DEF Finishing
<1>12. QED
  BY <1>1, <1>3, <1>5, <1>11, FinishStep

LEMMA PlayerKeeps ==
  ASSUME IInv, PlayerStep
  PROVE  IInv'
<1>1. /\ UNCHANGED <<frameVars, received_pkt_seq_no, packet_count, ack>>
      /\ PlayerNext
  BY DEF PlayerStep
<1>2. /\ PoolTypeOK' /\ OnePlace(frame)' /\ m_Info' = m_Info /\ m_pData' = m_pData
      /\ \A f \in Buffers : place'[f] # "free" =>
           place[f] # "free" /\ (place'[f] = "held" <=> place[f] = "held")
      /\ queue' = queue \/ (queue # <<>> /\ queue' = Tail(queue))
  <2>1. PoolTypeOK /\ OnePlace(frame) /\ frame' = frame
    BY <1>1 DEF IInv, TypeOK, FramesAccounted, frameVars
  <2>2. PICK hand : hand = frame
    OBVIOUS
  <2>3. OnePlace(hand)
    BY <2>1, <2>2 DEF OnePlace
  <2>4. /\ PoolTypeOK' /\ OnePlace(hand)' /\ UNCHANGED <<m_Info, m_pData>>
        /\ \A f \in Buffers : place'[f] # "free" =>
             place[f] # "free" /\ (place'[f] = "held" <=> place[f] = "held")
        /\ queue' = queue \/ (queue # <<>> /\ queue' = Tail(queue))
    BY <1>1, <2>1, <2>3, PlayerOnePlace
  <2>5. OnePlace(frame)'
    BY <2>1, <2>2, <2>4 DEF OnePlace
  <2>6. QED
    BY <2>4, <2>5
<1>3. TypeOK'
  BY <1>1, <1>2 DEF IInv, TypeOK, frameVars
<1>4. BegunInv' /\ FramesWhole'
  BY <1>1, <1>2 DEF IInv, BegunInv, FramesWhole, FrameWhole, FrameOfOnePiece, InUse
<1>5. FramesAccounted' /\ StateInv' /\ HandInv' /\ StepInv'
  BY <1>1, <1>2 DEF IInv, FramesAccounted, OnePlace, StateInv, HandInv, StepInv, frameVars
<1>6. QueueInOrder'
  <2>1. \A j, k \in DOMAIN queue' : j < k => m_Info[queue'[j]] < m_Info[queue'[k]]
    <3>1. CASE queue' = queue
      BY <3>1 DEF IInv, QueueInOrder
    <3>2. CASE queue # <<>> /\ queue' = Tail(queue)
      <4>1. /\ DOMAIN queue' = 1 .. Len(queue) - 1 /\ DOMAIN queue = 1 .. Len(queue) /\ Len(queue) \in Nat
            /\ \A j \in 1 .. Len(queue) - 1 : queue'[j] = queue[j + 1]
        <5>1. queue \in Seq(Buffers)
          BY DEF IInv, TypeOK, PoolTypeOK
        <5>2. QED
          BY <3>2, <5>1, HeadTailProperties
      <4>2. ASSUME NEW j \in DOMAIN queue', NEW k \in DOMAIN queue', j < k
            PROVE  m_Info[queue'[j]] < m_Info[queue'[k]]
        <5>1. j + 1 \in DOMAIN queue /\ k + 1 \in DOMAIN queue /\ j + 1 < k + 1
          BY <4>1, <4>2
        <5>2. m_Info[queue[j + 1]] < m_Info[queue[k + 1]]
          BY <5>1 DEF IInv, QueueInOrder
        <5>3. QED
          BY <4>1, <5>2
      <4>3. QED
        BY <4>2
    <3>3. QED
      BY <1>2, <3>1, <3>2
  <2>2. \A f, g \in InUse' : m_Info[f] = m_Info[g] => f = g
    BY <1>2 DEF IInv, QueueInOrder, InUse
  <2>3. frame # NULL => \A f \in InUse' \ {frame} : m_Info[f] < m_Info[frame]
    BY <1>2 DEF IInv, QueueInOrder, InUse
  <2>4. QED
    BY <1>1, <1>2, <2>1, <2>2, <2>3 DEF QueueInOrder, frameVars
<1>7. QED
  BY <1>3, <1>4, <1>5, <1>6 DEF IInv

LEMMA NextInv == IInv /\ [Next]_vars => IInv'
<1> SUFFICES ASSUME IInv, [Next]_vars PROVE IInv'
  OBVIOUS
<1>1. ASSUME NEW k \in SeqNos, Missing(k) \/ FrameInfo(k) \/ FrameInfoCrash(k) \/ FrameData(k)
      PROVE  IInv'
  BY <1>1, MissingStep, FrameInfoStep, CrashStep, FrameDataStep
<1>2. CASE PlayerStep
  BY <1>2, PlayerKeeps
<1>3. CASE UNCHANGED vars
  <2>1. UNCHANGED <<poolVars, frameVars, received_pkt_seq_no>>
    BY <1>3 DEF vars
  <2>2. TypeOK'
    BY <1>3 DEF vars, poolVars, frameVars, IInv, TypeOK, PoolTypeOK
  <2>3. QED
    BY <2>1, <2>2, SameFrames DEF IInv
<1>4. QED
  BY <1>1, <1>2, <1>3 DEF Next, Iteration, Crashed

LEMMA AckStep == AckIsLastInOrder /\ IInv /\ [Next]_vars => AckIsLastInOrder'
<1> SUFFICES ASSUME AckIsLastInOrder, IInv, [Next]_vars PROVE AckIsLastInOrder'
  OBVIOUS
<1>1. ASSUME NEW k \in SeqNos, Missing(k) PROVE AckIsLastInOrder'
  BY <1>1 DEF Missing, AckIsLastInOrder
<1>2. ASSUME NEW k \in SeqNos, CountForAck(k), received_pkt_seq_no' = k + 1 PROVE AckIsLastInOrder'
  BY <1>2, PacketType DEF CountForAck, AckIsLastInOrder
<1>3. ASSUME NEW k \in SeqNos, FrameInfoCrash(k) PROVE AckIsLastInOrder'
  BY <1>3 DEF FrameInfoCrash, AckIsLastInOrder
<1>4. CASE PlayerStep \/ UNCHANGED vars
  BY <1>4 DEF PlayerStep, vars, AckIsLastInOrder
<1>5. QED
  BY <1>1, <1>2, <1>3, <1>4 DEF Next, Iteration, Crashed, FrameInfo, FrameData, InOrder

LEMMA AlwaysInv == Spec => [](IInv /\ AckIsLastInOrder)
  BY InitInv, NextInv, AckStep, PTL DEF Spec

(* What the receiver's variables and the frames range over. *)
THEOREM TypeCorrect == Spec => []TypeOK
<1>1. IInv => TypeOK
  BY DEF IInv
<1>2. QED
  BY <1>1, AlwaysInv, PTL

(* No frame is lost to the pool, given away twice or queued twice. *)
THEOREM Accounted == Spec => []FramesAccounted
<1>1. IInv => FramesAccounted
  BY DEF IInv
<1>2. QED
  BY <1>1, AlwaysInv, PTL

(* What is delivered is complete and of one piece. *)
THEOREM Whole == Spec => []FramesWhole
<1>1. IInv => FramesWhole
  BY DEF IInv
<1>2. QED
  BY <1>1, AlwaysInv, PTL

(* The player gets the frames in the order of the film, each once. *)
THEOREM InOrderOfFilm == Spec => []QueueInOrder
<1>1. IInv => QueueInOrder
  BY DEF IInv
<1>2. QED
  BY <1>1, AlwaysInv, PTL

(* Both kinds of ack name the last packet received in order. *)
THEOREM LastInOrder == Spec => []AckIsLastInOrder
  BY AlwaysInv, PTL

=============================================================================
