---------------------------- MODULE UdpReceiver ----------------------------
(***************************************************************************)
(* main() of c_plus_plus/udpreceiver.cpp: one step is one iteration of its  *)
(* endless loop, beside the player's thread.  content_data always points   *)
(* behind what m_pData holds of the current frame, and is NULL when there   *)
(* is no frame.  errorCount decides nothing and is left out.               *)
(***************************************************************************)
EXTENDS FrameStream

CONSTANTS Hosts,      \* where packets come from
          Creates,    \* what CUDPClientSocket::create() may answer
          AckEvery,   \* 16
          TypeWord    \* magic, version and pkt_type read as one number

ASSUME CreatesAssumption == Creates \subseteq BOOLEAN
ASSUME AckAssumption == AckEvery \in Nat \ {0} /\ TypeWord \in Nat

VARIABLES states,               \* "info" or "data": what the next packet is taken for
          frame,
          subframe_total,
          subframe_count,
          received_pkt_seq_no,  \* the next one in order
          packet_count,
          ack,                  \* ack_seq_no of this iteration's ack: {} or {n}
          caller,               \* socketReceive: the sender of the last packet
          nSocketNum,
          transmit,             \* *pSocketTransmit: its host and whether create() succeeded
          starved               \* history: getNewFrame() returned 0 since the last setup

frameVars == <<states, frame, subframe_total, subframe_count>>
socketVars == <<caller, nSocketNum, transmit>>
vars == <<poolVars, frameVars, received_pkt_seq_no, packet_count, ack, socketVars, starved>>

Init ==
  /\ PoolInit
  /\ states = "info"
  /\ frame = NULL
  /\ subframe_total = 0
  /\ subframe_count = 0
  /\ received_pkt_seq_no = 0
  /\ packet_count = 0
  /\ ack = {}
  /\ caller = NULL
  /\ nSocketNum = NULL
  /\ transmit = [host |-> NULL, ok |-> FALSE]
  /\ starved = FALSE

(* swap_every_64bit() of a common_header: the halves of each eight bytes change
   places, so pkt_seq_no gets what the type fields were and payload_len a part of
   timecode. *)
SwapHeader(h) == [pkt_seq_no |-> TypeWord, payload_len |-> h.timecode]

(* The same of a frame_info_header: content_type gets a byte of len_encrypt. *)
SwappedContentType(k) == LenByte(k)

(* Mutant: a caller is looked at only once. *)
DetectOnce(h) ==
  /\ caller' = h
  /\ IF nSocketNum # NULL THEN UNCHANGED <<nSocketNum, transmit>>
     ELSE \E ok \in Creates : /\ transmit' = [host |-> h, ok |-> ok]
                              /\ nSocketNum' = IF ok THEN h ELSE nSocketNum

Detect(h) ==
  /\ caller' = h
  /\ IF h = nSocketNum THEN UNCHANGED <<nSocketNum, transmit>>
     ELSE \E ok \in Creates : /\ transmit' = [host |-> h, ok |-> ok]
                              /\ nSocketNum' = IF ok THEN h ELSE nSocketNum

(* if (++packet_count == 16) set_ack(seq) and send it. *)
CountForAck(seq) ==
  IF packet_count + 1 = AckEvery
  THEN packet_count' = 0 /\ ack' = {seq}
  ELSE packet_count' = packet_count + 1 /\ ack' = {}

(* Mutant: a setup packet does not release the frame. *)
SetupKeepsFrame ==
  /\ packet_count' = 0 /\ received_pkt_seq_no' = 0 /\ ack' = {}
  /\ states' = "info" /\ frame' = NULL
  /\ UNCHANGED <<poolVars, subframe_total, subframe_count>>

(* A setup packet: the sender starts again from packet 0. *)
Setup ==
  /\ packet_count' = 0
  /\ received_pkt_seq_no' = 0
  /\ ack' = {}
  /\ IF frame # NULL THEN PutAway(frame, FALSE) ELSE UNCHANGED <<place, queue>>
  /\ states' = "info"
  /\ frame' = NULL
  /\ UNCHANGED <<m_Info, m_pData, subframe_total, subframe_count>>

(* A packet out of order is ignored, and counts for the next ack. *)
Missing(k) ==
  /\ k # received_pkt_seq_no
  /\ CountForAck(received_pkt_seq_no - 1)
  /\ UNCHANGED <<poolVars, frameVars, received_pkt_seq_no>>

(* Mutant: newer packets are taken as well. *)
InOrderOrNewer(k) == k >= received_pkt_seq_no /\ received_pkt_seq_no' = k + 1

InOrder(k) == k = received_pkt_seq_no /\ received_pkt_seq_no' = k + 1

(* Lines 328-350, after f is the frame and has count of total subframes. *)
Finish(f, count, total, k) ==
  /\ subframe_count' = count
  /\ subframe_total' = total
  /\ IF count = total
     THEN states' = "info" /\ frame' = NULL /\ PutAway(f, SwappedContentType(k) = 1)
     ELSE states' = "data" /\ frame' = f /\ Hold(f)

(* Mutant: subframe_count goes on from the frame before. *)
FrameInfoKeepsCount(k) ==
  /\ states = "info"
  /\ InOrder(k)
  /\ \E f \in Buffers :
       /\ place[f] = "free"
       /\ m_Info' = [m_Info EXCEPT ![f] = k]
       /\ m_pData' = [m_pData EXCEPT ![f] = <<>>]
       /\ Finish(f, subframe_count, Packet(k).subframe_total, k)
  /\ CountForAck(SwapHeader(Packet(k)).pkt_seq_no)

FrameInfo(k) ==
  /\ states = "info"
  /\ InOrder(k)
  /\ \E f \in Buffers :
       /\ place[f] = "free"
       /\ m_Info' = [m_Info EXCEPT ![f] = k]
       /\ m_pData' = [m_pData EXCEPT ![f] = <<>>]
       /\ Finish(f, 0, Packet(k).subframe_total, k)
  /\ CountForAck(SwapHeader(Packet(k)).pkt_seq_no)

(* getNewFrame() returns 0: subframe_total and subframe_count are what they were. *)
FrameInfoNoBuffer(k) ==
  /\ states = "info"
  /\ InOrder(k)
  /\ Exhausted
  /\ states' = IF subframe_count = subframe_total THEN "info" ELSE "data"
  /\ CountForAck(k)
  /\ UNCHANGED <<poolVars, frame, subframe_total, subframe_count>>

(* content_data is NULL if frame is: what memcpy() then does is undefined, and
   NeverCopiesToNull says that it does not happen. *)
FrameData(k) ==
  /\ states = "data"
  /\ frame # NULL
  /\ InOrder(k)
  /\ m_pData' = [m_pData EXCEPT ![frame] = Append(@, [seq |-> k, len |-> SwapHeader(Packet(k)).payload_len])]
  /\ Finish(frame, subframe_count + 1, subframe_total, m_Info[frame])
  /\ CountForAck(SwapHeader(Packet(k)).pkt_seq_no)
  /\ UNCHANGED m_Info

(* An iteration; what it did with the packet is its last disjunction. *)
Iteration ==
  /\ \E h \in Hosts : Detect(h)
  /\ \/ Setup /\ starved' = FALSE
     \/ \E k \in SeqNos : FrameInfoNoBuffer(k) /\ starved' = TRUE
     \/ \E k \in SeqNos :
          /\ Missing(k) \/ FrameInfo(k) \/ FrameData(k)
          /\ UNCHANGED starved

PlayerStep ==
  /\ PlayerNext
  /\ UNCHANGED <<frameVars, received_pkt_seq_no, packet_count, ack, socketVars, starved>>

Next == Iteration \/ PlayerStep

Spec == Init /\ [][Next]_vars

-----------------------------------------------------------------------------
(* What the state is made of. *)
TypeOK ==
  /\ PoolTypeOK
  /\ states \in {"info", "data"}
  /\ frame \in Buffers \cup {NULL}
  /\ subframe_total \in Nat /\ subframe_count \in Nat
  /\ received_pkt_seq_no \in 0 .. Len(Stream)
  /\ packet_count \in 0 .. AckEvery - 1
  /\ ack \subseteq Int
  /\ caller \in Hosts \cup {NULL} /\ nSocketNum \in Hosts \cup {NULL}
  /\ transmit \in [host : Hosts \cup {NULL}, ok : BOOLEAN]
  /\ starved \in BOOLEAN

(* No frame is lost to the pool, given away twice or queued twice, whatever setup
   packets and exhausted buffers come in between. *)
FramesAccounted == OnePlace(frame)

(* A frame holds packets that follow each other without gap or repetition, and when
   it is given to the player as many as its info says, although packets are lost,
   repeated and reordered and frames are used again. *)
FramesWhole == \A f \in InUse : FrameWhole(f)

(* An ack that leaves goes to whom the last packet came from, also after create() has
   failed for one host or another. *)
AckToCaller == ack # {} /\ transmit.ok => transmit.host = caller

(* As long as the player has left a frame for every info packet since the last setup,
   the frame in hand gets its own info and data packets: a setup packet puts the
   receiver back in step, whatever happened before it. *)
FrameInStep == frame # NULL /\ ~ starved => FrameOfOnePiece(frame)

(* Data are never copied to NULL.  After getNewFrame() returned 0 only the counts of
   the frame before, being equal, keep the receiver from taking the next packet for
   data; they differ after a setup packet in the middle of a frame, but then the
   frame it released is there for the next getNewFrame(). *)
NeverCopiesToNull == states = "data" => frame # NULL

-----------------------------------------------------------------------------
(* "copy frame data's content": the content of a data packet is payload_len bytes. *)
ContentCopied ==
  \A f \in InUse : \A j \in DOMAIN m_pData[f] : m_pData[f][j].len = Packet(m_pData[f][j].seq).payload_len

=============================================================================
