------------------------- MODULE UdpReceiverProofs -------------------------
(***************************************************************************)
(* Proofs about c_plus_plus/udpreceiver.cpp, for any film, any number of    *)
(* buffers and hosts and any AckEvery.                                     *)
(***************************************************************************)
EXTENDS UdpReceiver, FrameStreamProofs

(* The inductive invariant. *)

StateInv == states = "info" <=> frame = NULL

(* Counts that differ without a frame are left by a setup packet, which released one. *)
SpareInv == frame = NULL /\ subframe_count # subframe_total => ~ Exhausted

(* The frame in hand has been given what its counts say, and not yet all of it. *)
HandInv ==
  frame # NULL =>
    /\ m_Info[frame] \in SeqNos
    /\ subframe_total = Packet(m_Info[frame]).subframe_total
    /\ Len(m_pData[frame]) = subframe_count
    /\ subframe_count < subframe_total
    /\ received_pkt_seq_no = m_Info[frame] + subframe_count + 1

(* Between two frames the next packet in order is an info packet. *)
StepInv ==
  ~ starved =>
    IF frame = NULL THEN received_pkt_seq_no \in SeqNos => Packet(received_pkt_seq_no).pkt_type = "info"
                    ELSE FrameOfOnePiece(frame)

IInv == TypeOK /\ FramesAccounted /\ StateInv /\ SpareInv /\ HandInv /\ FramesWhole /\ StepInv

(* The transmit socket. *)
SocketInv == transmit.ok => transmit.host = nSocketNum /\ transmit.host = caller

LEMMA InitInv == Init => IInv /\ SocketInv
<1> SUFFICES ASSUME Init PROVE IInv /\ SocketInv
  OBVIOUS
<1>1. PoolTypeOK /\ OnePlace(NULL) /\ InUse = {}
  BY PoolInitOK DEF Init
<1>2. TypeOK
  <2>1. received_pkt_seq_no \in 0 .. Len(Stream) /\ packet_count \in 0 .. AckEvery - 1
    BY PacketType, AckAssumption DEF Init
  <2>2. ack \subseteq Int /\ transmit \in [host : Hosts \cup {NULL}, ok : BOOLEAN]
    BY DEF Init
  <2>3. QED
    BY <1>1, <2>1, <2>2 DEF Init, TypeOK
<1>3. FramesAccounted /\ StateInv /\ SpareInv /\ HandInv /\ FramesWhole /\ SocketInv
  BY <1>1 DEF Init, FramesAccounted, StateInv, SpareInv, HandInv, FramesWhole, SocketInv
<1>4. StepInv
  BY FirstInfo DEF Init, StepInv
<1>5. QED
  BY <1>2, <1>3, <1>4 DEF IInv

(* What an iteration does to the variables that only the acks depend on. *)
LEMMA Detected ==
  ASSUME TypeOK, NEW h \in Hosts, Detect(h)
  PROVE  /\ caller' \in Hosts \cup {NULL} /\ nSocketNum' \in Hosts \cup {NULL}
         /\ transmit' \in [host : Hosts \cup {NULL}, ok : BOOLEAN]
<1>1. CASE h = nSocketNum
  BY <1>1 DEF Detect, TypeOK
<1>2. CASE h # nSocketNum
  BY <1>2, CreatesAssumption DEF Detect, TypeOK
<1>3. QED
  BY <1>1, <1>2

LEMMA Counted ==
  ASSUME TypeOK, NEW seq \in Int, CountForAck(seq)
  PROVE  packet_count' \in 0 .. AckEvery - 1 /\ ack' \subseteq Int
  BY AckAssumption DEF CountForAck, TypeOK

-----------------------------------------------------------------------------
(* One lemma for each thing that an iteration may do with a packet. *)

ReceiverTypeOK ==
  /\ PoolTypeOK
  /\ states \in {"info", "data"}
  /\ frame \in Buffers \cup {NULL}
  /\ subframe_total \in Nat /\ subframe_count \in Nat
  /\ received_pkt_seq_no \in 0 .. Len(Stream)
  /\ packet_count \in 0 .. AckEvery - 1
  /\ ack \subseteq Int

RInv == ReceiverTypeOK /\ FramesAccounted /\ StateInv /\ SpareInv /\ HandInv /\ FramesWhole

LEMMA SetupStep ==
  ASSUME IInv, Setup
  PROVE  RInv' /\ StepInv'
<1> USE BuffersAssumption
<1>1. /\ packet_count' = 0 /\ received_pkt_seq_no' = 0 /\ ack' = {} /\ states' = "info" /\ frame' = NULL
      /\ UNCHANGED <<m_Info, m_pData, subframe_total, subframe_count>>
  BY DEF Setup
<1>2. /\ place' \in [Buffers -> Places] /\ queue' \in Seq(Buffers) /\ OnePlace(NULL)'
      /\ \A g \in Buffers : place'[g] # "free" => place[g] # "free" /\ place[g] # "held" /\ place'[g] = place[g]
      /\ (\A g \in Buffers : place'[g] # "free") => subframe_count = subframe_total
  <2>1. CASE frame # NULL
    <3>1. PutAway(frame, FALSE) /\ frame \in Buffers
      BY <2>1 DEF Setup, IInv, TypeOK
    <3>2. /\ place' \in [Buffers -> Places] /\ queue' \in Seq(Buffers) /\ OnePlace(NULL)'
          /\ place'[frame] = "free" /\ \A g \in Buffers \ {frame} : place'[g] = place[g]
      BY <3>1, PutAwayOnePlace DEF IInv, TypeOK, FramesAccounted
    <3>3. QED
      BY <3>1, <3>2 DEF IInv, FramesAccounted, OnePlace
  <2>2. CASE frame = NULL
    <3>1. place' = place /\ queue' = queue
      BY <2>2 DEF Setup
    <3>2. /\ place \in [Buffers -> Places] /\ queue \in Seq(Buffers) /\ OnePlace(NULL)
          /\ \A g \in Buffers : place[g] # "held"
      BY <2>2 DEF IInv, TypeOK, PoolTypeOK, Places, FramesAccounted, OnePlace
    <3>3. OnePlace(NULL)'
      BY <3>1, <3>2 DEF OnePlace
    <3>4. (\A g \in Buffers : place'[g] # "free") => subframe_count = subframe_total
      BY <2>2, <3>1 DEF IInv, SpareInv, Exhausted
    <3>5. QED
      BY <3>1, <3>2, <3>3, <3>4
  <2>3. QED
    BY <2>1, <2>2
<1>3. ReceiverTypeOK'
  <2>1. received_pkt_seq_no' \in 0 .. Len(Stream) /\ packet_count' \in 0 .. AckEvery - 1
    BY <1>1, PacketType, AckAssumption
  <2>2. PoolTypeOK'
    BY <1>1, <1>2 DEF IInv, TypeOK, PoolTypeOK, Places
  <2>3. QED
    BY <1>1, <2>1, <2>2 DEF IInv, TypeOK, ReceiverTypeOK
<1>4. FramesAccounted' /\ StateInv' /\ HandInv'
  BY <1>1, <1>2 DEF FramesAccounted, OnePlace, StateInv, HandInv
<1>5. SpareInv'
  BY <1>1, <1>2 DEF SpareInv, Exhausted
<1>6. FramesWhole'
  BY <1>1, <1>2 DEF IInv, FramesWhole, FrameWhole, InUse
<1>7. StepInv'
  BY <1>1, FirstInfo DEF StepInv
<1>8. QED
  BY <1>3, <1>4, <1>5, <1>6, <1>7 DEF RInv

LEMMA SameFrames ==
  ASSUME IInv, UNCHANGED <<poolVars, frameVars, received_pkt_seq_no>>
  PROVE  /\ FramesAccounted' /\ StateInv' /\ SpareInv' /\ HandInv' /\ FramesWhole'
         /\ UNCHANGED starved => StepInv'
<1>1. FramesAccounted'
  BY DEF IInv, FramesAccounted, OnePlace, poolVars, frameVars
<1>2. StateInv' /\ SpareInv' /\ HandInv'
  BY DEF IInv, StateInv, SpareInv, Exhausted, HandInv, poolVars, frameVars
<1>3. FramesWhole'
  BY DEF IInv, FramesWhole, FrameWhole, InUse, poolVars
<1>4. UNCHANGED starved => StepInv'
  BY DEF IInv, StepInv, FrameOfOnePiece, poolVars, frameVars
<1>5. QED
  BY <1>1, <1>2, <1>3, <1>4

LEMMA MissingStep ==
  ASSUME IInv, NEW k \in SeqNos, Missing(k)
  PROVE  RInv' /\ (UNCHANGED starved => StepInv')
<1>1. received_pkt_seq_no - 1 \in Int /\ CountForAck(received_pkt_seq_no - 1)
  BY DEF Missing, IInv, TypeOK
<1>2. UNCHANGED <<poolVars, frameVars, received_pkt_seq_no>>
  BY DEF Missing
<1>3. packet_count' \in 0 .. AckEvery - 1 /\ ack' \subseteq Int
  BY <1>1, Counted DEF IInv
<1>4. ReceiverTypeOK'
  BY <1>2, <1>3 DEF IInv, TypeOK, ReceiverTypeOK, PoolTypeOK, poolVars, frameVars
<1>5. QED
  BY <1>2, <1>4, SameFrames DEF IInv, RInv

LEMMA NoBufferStep ==
  ASSUME IInv, NEW k \in SeqNos, FrameInfoNoBuffer(k)
  PROVE  RInv'
<1>1. frame = NULL /\ subframe_count = subframe_total /\ states' = "info"
  BY DEF FrameInfoNoBuffer, IInv, StateInv, SpareInv
<1>2. k \in Int /\ k \in Nat /\ received_pkt_seq_no' = k + 1 /\ k + 1 \in 0 .. Len(Stream)
  BY PacketType DEF FrameInfoNoBuffer, InOrder, SeqNos
<1>3. packet_count' \in 0 .. AckEvery - 1 /\ ack' \subseteq Int
  BY <1>2, Counted DEF IInv, FrameInfoNoBuffer
<1>4. UNCHANGED <<poolVars, frame, subframe_total, subframe_count>>
  BY DEF FrameInfoNoBuffer
<1>5. ReceiverTypeOK'
  BY <1>1, <1>2, <1>3, <1>4 DEF IInv, TypeOK, ReceiverTypeOK, PoolTypeOK, poolVars
<1>6. FramesAccounted' /\ StateInv' /\ SpareInv' /\ HandInv'
  BY <1>1, <1>4 DEF IInv, FramesAccounted, OnePlace, StateInv, SpareInv, HandInv, poolVars
<1>7. FramesWhole'
  BY <1>4 DEF IInv, FramesWhole, FrameWhole, InUse, poolVars
<1>8. QED
  BY <1>5, <1>6, <1>7 DEF RInv

(* A step that ends in lines 328-350 with the frame f, whose info is packet info, and
   count of total packets, the last one packet k, in it. *)
Finishing(f, count, total, info, k, data) ==
  /\ frame = f \/ (frame = NULL /\ place[f] = "free")
  /\ count <= total
  /\ Finish(f, count, total, info)
  /\ received_pkt_seq_no' = k + 1
  /\ k = info + count
  /\ packet_count' \in 0 .. AckEvery - 1 /\ ack' \subseteq Int
  /\ m_Info' = [m_Info EXCEPT ![f] = info]
  /\ m_pData' = [m_pData EXCEPT ![f] = data]
  /\ total = Packet(info).subframe_total
  /\ Len(data) = count
  /\ \A j \in DOMAIN data : data[j].seq = info + j

LEMMA FinishStep ==
  ASSUME IInv, NEW f \in Buffers, NEW count \in Nat, NEW total \in Nat,
         NEW info \in SeqNos, NEW k \in SeqNos, NEW data \in Seq(Copied),
         Finishing(f, count, total, info, k, data)
  PROVE  /\ RInv' /\ frame' = (IF count = total THEN NULL ELSE f)
         /\ m_Info'[f] = info /\ m_pData'[f] = data
<1>0. /\ frame = f \/ (frame = NULL /\ place[f] = "free")
      /\ count <= total
      /\ Finish(f, count, total, info)
      /\ received_pkt_seq_no' = k + 1
      /\ k = info + count
      /\ packet_count' \in 0 .. AckEvery - 1 /\ ack' \subseteq Int
      /\ m_Info' = [m_Info EXCEPT ![f] = info]
      /\ m_pData' = [m_pData EXCEPT ![f] = data]
      /\ total = Packet(info).subframe_total
      /\ Len(data) = count
      /\ \A j \in DOMAIN data : data[j].seq = info + j
  BY DEF Finishing
<1> USE <1>0
<1> USE BuffersAssumption
<1>1. /\ m_Info' \in [Buffers -> SeqNos \cup {-1}] /\ m_Info'[f] = info
      /\ m_pData' \in [Buffers -> Seq(Copied)] /\ m_pData'[f] = data
      /\ \A g \in Buffers \ {f} : m_Info'[g] = m_Info[g] /\ m_pData'[g] = m_pData[g]
  BY DEF IInv, TypeOK, PoolTypeOK, Copied
<1>2. k + 1 \in 0 .. Len(Stream) /\ info \in Int
  BY PacketType DEF SeqNos
<1>3. subframe_count' = count /\ subframe_total' = total
  BY DEF Finish
<1>4. /\ states' \in {"info", "data"} /\ frame' \in Buffers \cup {NULL}
      /\ states' = "info" <=> frame' = NULL
      /\ frame' = IF count = total THEN NULL ELSE f
  BY DEF Finish
<1>5. /\ place' \in [Buffers -> Places] /\ queue' \in Seq(Buffers)
      /\ place'[f] = "held" => count # total
      /\ \A g \in Buffers \ {f} : place'[g] = place[g]
  <2>1. CASE count = total
    <3>1. (SwappedContentType(info) = 1) \in BOOLEAN
      OBVIOUS
    <3>2. PutAway(f, SwappedContentType(info) = 1)
      BY <2>1 DEF Finish
    <3>3. QED
      BY <3>1, <3>2, PutAwayOnePlace DEF IInv, TypeOK, FramesAccounted
  <2>2. CASE count # total
    <3>1. Hold(f)
      BY <2>2 DEF Finish
    <3>2. QED
      BY <2>2, <3>1, HoldOnePlace DEF IInv, TypeOK, FramesAccounted
  <2>3. QED
    BY <2>1, <2>2
<1>6. FramesAccounted'
  <2>1. CASE count = total
    <3>1. (SwappedContentType(info) = 1) \in BOOLEAN /\ PutAway(f, SwappedContentType(info) = 1)
      BY <2>1 DEF Finish
    <3>2. OnePlace(NULL)' /\ frame' = NULL
      BY <2>1, <1>4, <3>1, PutAwayOnePlace DEF IInv, TypeOK, FramesAccounted
    <3>3. QED
      BY <3>2 DEF FramesAccounted, OnePlace
  <2>2. CASE count # total
    <3>1. Hold(f)
      BY <2>2 DEF Finish
    <3>2. OnePlace(f)' /\ frame' = f
      BY <2>2, <1>4, <3>1, HoldOnePlace DEF IInv, TypeOK, FramesAccounted
    <3>3. QED
      BY <3>2 DEF FramesAccounted, OnePlace
  <2>3. QED
    BY <2>1, <2>2
<1>7. ReceiverTypeOK'
  BY <1>1, <1>2, <1>3, <1>4, <1>5 DEF ReceiverTypeOK, PoolTypeOK, Copied, Places
<1>8. StateInv' /\ SpareInv'
  BY <1>3, <1>4 DEF StateInv, SpareInv
<1>9. HandInv'
  BY <1>1, <1>2, <1>3, <1>4, PacketType DEF HandInv
<1>10. ASSUME NEW g \in Buffers, place'[g] # "free" PROVE FrameWhole(g)'
  <2>1. CASE g = f
    <3>1. place'[f] # "held" => count = total
      BY <1>4, <1>6 DEF FramesAccounted, OnePlace
    <3>2. QED
      BY <2>1, <1>1, <3>1 DEF FrameWhole
  <2>2. CASE g # f
    <3>1. FrameWhole(g)
      BY <2>2, <1>5, <1>10 DEF IInv, FramesWhole, InUse
    <3>2. QED
      BY <2>2, <1>1, <1>5, <3>1 DEF FrameWhole
  <2>3. QED
    BY <2>1, <2>2
<1>11. FramesWhole'
  BY <1>10 DEF FramesWhole, InUse
<1>12. QED
  BY <1>1, <1>4, <1>6, <1>7, <1>8, <1>9, <1>11 DEF RInv

LEMMA FrameInfoStep ==
  ASSUME IInv, NEW k \in SeqNos, FrameInfo(k)
  PROVE  RInv' /\ (UNCHANGED starved => StepInv')
<1> USE BuffersAssumption
<1>1. frame = NULL /\ k = received_pkt_seq_no /\ received_pkt_seq_no' = k + 1
  BY DEF FrameInfo, InOrder, IInv, StateInv
<1>2. PICK f \in Buffers :
        /\ place[f] = "free"
        /\ m_Info' = [m_Info EXCEPT ![f] = k]
        /\ m_pData' = [m_pData EXCEPT ![f] = <<>>]
        /\ Finish(f, 0, Packet(k).subframe_total, k)
  BY DEF FrameInfo
<1>3. packet_count' \in 0 .. AckEvery - 1 /\ ack' \subseteq Int
  BY AckAssumption, Counted DEF IInv, FrameInfo, SwapHeader
<1>4. /\ k \in Nat /\ k = k + 0 /\ Packet(k).subframe_total \in Nat /\ 0 <= Packet(k).subframe_total
      /\ <<>> \in Seq(Copied) /\ Len(<<>>) = 0 /\ \A j \in DOMAIN <<>> : <<>>[j].seq = k + j
  BY PacketType
<1>5. /\ RInv' /\ frame' = (IF 0 = Packet(k).subframe_total THEN NULL ELSE f)
      /\ m_Info'[f] = k /\ m_pData'[f] = <<>>
  <2>1. Finishing(f, 0, Packet(k).subframe_total, k, k, <<>>)
    BY <1>1, <1>2, <1>3, <1>4 DEF Finishing
  <2>2. QED
    BY <1>4, <2>1, FinishStep
<1>6. ASSUME UNCHANGED starved PROVE StepInv'
  <2>1. SUFFICES ASSUME ~ starved
                 PROVE  IF frame' = NULL
                        THEN received_pkt_seq_no' \in SeqNos => Packet(received_pkt_seq_no').pkt_type = "info"
                        ELSE FrameOfOnePiece(frame)'
    BY <1>6 DEF StepInv
  <2>2. Packet(k).pkt_type = "info"
    BY <1>1, <2>1 DEF IInv, StepInv
  <2>3. 0 = Packet(k).subframe_total /\ k + 1 \in SeqNos => Packet(k + 1).pkt_type = "info"
    <3>1. 0 = Packet(k).subframe_total => k + Packet(k).subframe_total + 1 = k + 1
      BY <1>4
    <3>2. QED
      BY <2>2, <3>1, FrameOfInfo
  <2>4. frame' = f => FrameOfOnePiece(frame)'
    BY <1>5, <2>2 DEF FrameOfOnePiece
  <2>5. QED
    BY <1>1, <1>5, <2>3, <2>4
<1>7. QED
  BY <1>5, <1>6

LEMMA FrameDataStep ==
  ASSUME IInv, NEW k \in SeqNos, FrameData(k)
  PROVE  RInv' /\ (UNCHANGED starved => StepInv')
<1> USE BuffersAssumption
<1> DEFINE copied == [seq |-> k, len |-> SwapHeader(Packet(k)).payload_len]
           data == Append(m_pData[frame], copied)
           info == m_Info[frame]
<1>1. /\ frame \in Buffers /\ frame # NULL /\ k = received_pkt_seq_no /\ received_pkt_seq_no' = k + 1
      /\ m_pData' = [m_pData EXCEPT ![frame] = data] /\ m_Info' = m_Info
      /\ Finish(frame, subframe_count + 1, subframe_total, info)
  BY DEF FrameData, InOrder, IInv, TypeOK
<1>2. packet_count' \in 0 .. AckEvery - 1 /\ ack' \subseteq Int
  BY AckAssumption, Counted DEF IInv, FrameData, SwapHeader
<1>3. /\ info \in SeqNos /\ info \in Nat /\ subframe_count \in Nat /\ subframe_total \in Nat
      /\ subframe_total = Packet(info).subframe_total /\ Len(m_pData[frame]) = subframe_count
      /\ subframe_count + 1 <= subframe_total /\ k = info + (subframe_count + 1)
  <2>1. HandInv /\ subframe_count \in Nat /\ subframe_total \in Nat
    BY DEF IInv, TypeOK
  <2>2. /\ info \in SeqNos /\ subframe_total = Packet(info).subframe_total
        /\ Len(m_pData[frame]) = subframe_count /\ subframe_count < subframe_total
        /\ k = info + subframe_count + 1
    BY <1>1, <2>1 DEF HandInv
  <2>3. info \in Nat
    BY <2>2, PacketType
  <2>4. QED
    BY <2>1, <2>2, <2>3
<1>4. m_pData[frame] \in Seq(Copied) /\ copied \in Copied /\ copied.seq = k
  BY <1>1, PacketType DEF IInv, TypeOK, PoolTypeOK, Copied, SwapHeader
<1>5. /\ data \in Seq(Copied) /\ Len(data) = subframe_count + 1
      /\ DOMAIN data = 1 .. subframe_count + 1 /\ data[subframe_count + 1] = copied
      /\ DOMAIN m_pData[frame] = 1 .. subframe_count
      /\ \A j \in 1 .. subframe_count : data[j] = m_pData[frame][j]
  BY <1>3, <1>4, AppendProperties
<1>6. \A j \in 1 .. subframe_count : m_pData[frame][j].seq = info + j
  <2>1. frame \in InUse
    BY <1>1 DEF IInv, FramesAccounted, OnePlace, InUse
  <2>2. QED
    BY <1>5, <2>1 DEF IInv, FramesWhole, FrameWhole
<1>7. \A j \in DOMAIN data : data[j].seq = info + j
  BY <1>3, <1>4, <1>5, <1>6
<1>8. m_Info' = [m_Info EXCEPT ![frame] = info]
  BY <1>1 DEF IInv, TypeOK, PoolTypeOK
<1> HIDE DEF data, copied, info
<1>9. /\ RInv' /\ frame' = (IF subframe_count + 1 = subframe_total THEN NULL ELSE frame)
      /\ m_Info'[frame] = info /\ m_pData'[frame] = data
  <2>1. Finishing(frame, subframe_count + 1, subframe_total, info, k, data)
    BY <1>1, <1>2, <1>3, <1>5, <1>7, <1>8 DEF Finishing
  <2>2. QED
    BY <1>1, <1>3, <1>5, <2>1, FinishStep
<1>10. ASSUME UNCHANGED starved PROVE StepInv'
  <2>1. SUFFICES ASSUME ~ starved
                 PROVE  IF frame' = NULL
                        THEN received_pkt_seq_no' \in SeqNos => Packet(received_pkt_seq_no').pkt_type = "info"
                        ELSE FrameOfOnePiece(frame)'
    BY <1>10 DEF StepInv
  <2>2. /\ Packet(info).pkt_type = "info"
        /\ \A j \in 1 .. subframe_count :
             /\ Packet(m_pData[frame][j].seq).pkt_type = "data"
             /\ Packet(m_pData[frame][j].seq).frame_seq_no = Packet(info).frame_seq_no
    BY <1>1, <1>5, <2>1 DEF IInv, StepInv, FrameOfOnePiece, info
  <2>3. subframe_count + 1 = subframe_total /\ k + 1 \in SeqNos => Packet(k + 1).pkt_type = "info"
    <3>1. subframe_count + 1 = subframe_total => info + Packet(info).subframe_total + 1 = k + 1
      BY <1>3
    <3>2. QED
      BY <1>3, <2>2, <3>1, FrameOfInfo
  <2>4. ASSUME frame' = frame PROVE FrameOfOnePiece(frame)'
    <3>1. /\ Packet(k).pkt_type = "data" /\ Packet(k).frame_seq_no = Packet(info).frame_seq_no
      <4>1. subframe_count + 1 \in 1 .. Packet(info).subframe_total /\ info + (subframe_count + 1) \in SeqNos
        BY <1>3
      <4>2. \A j \in 1 .. Packet(info).subframe_total : info + j \in SeqNos =>
              Packet(info + j).pkt_type = "data" /\ Packet(info + j).frame_seq_no = Packet(info).frame_seq_no
        BY <1>3, <2>2, FrameOfInfo
      <4>3. QED
        BY <1>3, <4>1, <4>2
    <3>2. \A j \in DOMAIN data :
            /\ Packet(data[j].seq).pkt_type = "data"
            /\ Packet(data[j].seq).frame_seq_no = Packet(info).frame_seq_no
      <4>1. \A j \in DOMAIN data : j \in 1 .. subframe_count \/ j = subframe_count + 1
        BY <1>3, <1>5
      <4>2. QED
        BY <1>4, <1>5, <2>2, <3>1, <4>1
    <3>3. QED
      BY <1>9, <2>2, <2>4, <3>2 DEF FrameOfOnePiece
  <2>5. QED
    BY <1>1, <1>9, <2>3, <2>4
<1>11. QED
  BY <1>9, <1>10

LEMMA PlayerKeeps ==
  ASSUME IInv, PlayerStep
  PROVE  IInv'
<1>1. /\ UNCHANGED <<frameVars, received_pkt_seq_no, packet_count, ack, socketVars, starved>>
      /\ PlayerNext
  BY DEF PlayerStep
<1>2. /\ PoolTypeOK' /\ OnePlace(frame)' /\ m_Info' = m_Info /\ m_pData' = m_pData
      /\ \A f \in Buffers : place[f] = "free" => place'[f] = "free"
      /\ \A f \in Buffers : place'[f] # "free" =>
           place[f] # "free" /\ (place'[f] = "held" <=> place[f] = "held")
  <2>1. PoolTypeOK /\ OnePlace(frame) /\ frame' = frame
    BY <1>1 DEF IInv, TypeOK, FramesAccounted, frameVars
  <2>2. PICK hand : hand = frame
    OBVIOUS
  <2>3. OnePlace(hand)
    BY <2>1, <2>2 DEF OnePlace
  <2>4. /\ PoolTypeOK' /\ OnePlace(hand)' /\ UNCHANGED <<m_Info, m_pData>>
        /\ \A f \in Buffers : place[f] = "free" => place'[f] = "free"
        /\ \A f \in Buffers : place'[f] # "free" =>
             place[f] # "free" /\ (place'[f] = "held" <=> place[f] = "held")
    BY <1>1, <2>1, <2>3, PlayerOnePlace
  <2>5. OnePlace(frame)'
    BY <2>1, <2>2, <2>4 DEF OnePlace
  <2>6. QED
    BY <2>4, <2>5
<1>3. TypeOK'
  BY <1>1, <1>2 DEF IInv, TypeOK, frameVars, socketVars
<1>4. SpareInv'
  BY <1>1, <1>2 DEF IInv, SpareInv, Exhausted, frameVars
<1>5. FramesWhole'
  BY <1>2 DEF IInv, FramesWhole, FrameWhole, InUse
<1>6. FramesAccounted' /\ StateInv' /\ HandInv' /\ StepInv'
  BY <1>1, <1>2 DEF IInv, FramesAccounted, OnePlace, StateInv, HandInv, StepInv, FrameOfOnePiece, frameVars
<1>7. QED
  BY <1>3, <1>4, <1>5, <1>6 DEF IInv

LEMMA NextInv == IInv /\ [Next]_vars => IInv'
<1> SUFFICES ASSUME IInv, [Next]_vars PROVE IInv'
  OBVIOUS
<1>1. CASE Iteration
  <2>1. PICK h \in Hosts : Detect(h)
    BY <1>1 DEF Iteration
  <2>2. /\ caller' \in Hosts \cup {NULL} /\ nSocketNum' \in Hosts \cup {NULL}
        /\ transmit' \in [host : Hosts \cup {NULL}, ok : BOOLEAN]
    BY <2>1, Detected DEF IInv
  <2>3. RInv' /\ StepInv' /\ starved' \in BOOLEAN
    <3>1. CASE Setup /\ starved' = FALSE
      BY <3>1, SetupStep
    <3>2. ASSUME NEW k \in SeqNos, FrameInfoNoBuffer(k), starved' = TRUE
          PROVE  RInv' /\ StepInv' /\ starved' \in BOOLEAN
      BY <3>2, NoBufferStep DEF StepInv
    <3>3. ASSUME NEW k \in SeqNos, Missing(k) \/ FrameInfo(k) \/ FrameData(k), UNCHANGED starved
          PROVE  RInv' /\ StepInv' /\ starved' \in BOOLEAN
      BY <3>3, MissingStep, FrameInfoStep, FrameDataStep DEF IInv, TypeOK
    <3>4. QED
      BY <1>1, <3>1, <3>2, <3>3 DEF Iteration
  <2>4. QED
    BY <2>2, <2>3 DEF IInv, RInv, TypeOK, ReceiverTypeOK
<1>2. CASE PlayerStep
  BY <1>2, PlayerKeeps
<1>3. CASE UNCHANGED vars
  <2>1. UNCHANGED <<poolVars, frameVars, received_pkt_seq_no>> /\ UNCHANGED starved
    BY <1>3 DEF vars
  <2>2. TypeOK'
    BY <1>3 DEF vars, poolVars, frameVars, socketVars, IInv, TypeOK, PoolTypeOK
  <2>3. QED
    BY <2>1, <2>2, SameFrames DEF IInv
<1>4. QED
  BY <1>1, <1>2, <1>3 DEF Next

LEMMA SocketStep == SocketInv /\ [Next]_vars => SocketInv'
<1> SUFFICES ASSUME SocketInv, [Next]_vars PROVE SocketInv'
  OBVIOUS
<1>1. ASSUME NEW h \in Hosts, Detect(h) PROVE SocketInv'
  <2>1. CASE h = nSocketNum
    BY <1>1, <2>1 DEF SocketInv, Detect
  <2>2. CASE h # nSocketNum
    BY <1>1, <2>2 DEF SocketInv, Detect
  <2>3. QED
    BY <2>1, <2>2
<1>2. CASE PlayerStep \/ UNCHANGED vars
  BY <1>2 DEF SocketInv, PlayerStep, vars, socketVars
<1>3. QED
  BY <1>1, <1>2 DEF Next, Iteration

LEMMA AlwaysInv == Spec => [](IInv /\ SocketInv)
  BY InitInv, NextInv, SocketStep, PTL DEF Spec

(* What the receiver's variables and the frames range over. *)
THEOREM TypeCorrect == Spec => []TypeOK
<1>1. IInv => TypeOK
  BY DEF IInv
<1>2. QED
  BY <1>1, AlwaysInv, PTL

(* No frame is lost to the pool, given away twice or queued twice. *)
THEOREM Accounted == Spec => []FramesAccounted
<1>1. IInv => FramesAccounted
  BY DEF IInv
<1>2. QED
  BY <1>1, AlwaysInv, PTL

(* What is delivered is as many packets as the info says, each following the one
   before. *)
THEOREM Whole == Spec => []FramesWhole
<1>1. IInv => FramesWhole
  BY DEF IInv
<1>2. QED
  BY <1>1, AlwaysInv, PTL

(* As long as the buffers last, the frame in hand is of one piece. *)
THEOREM InStep == Spec => []FrameInStep
<1>1. IInv => FrameInStep
  BY DEF IInv, StepInv, FrameInStep
<1>2. QED
  BY <1>1, AlwaysInv, PTL

(* memcpy() is never given NULL. *)
THEOREM CopiesToFrame == Spec => []NeverCopiesToNull
<1>1. IInv => NeverCopiesToNull
  BY DEF IInv, StateInv, NeverCopiesToNull
<1>2. QED
  BY <1>1, AlwaysInv, PTL

(* Whatever create() answers, an ack goes to whom the last packet came from. *)
THEOREM AcksToCaller == Spec => []AckToCaller
<1>1. SocketInv => AckToCaller
  BY DEF SocketInv, AckToCaller
<1>2. QED
  BY <1>1, AlwaysInv, PTL

=============================================================================
