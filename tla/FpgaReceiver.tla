---------------------------- MODULE FpgaReceiver ----------------------------
(***************************************************************************)
(* main() of fpgas/udpreceiver.cpp: one step is one iteration of its endless *)
(* loop, beside the player's thread.  It has no setup packet, answers every *)
(* packet out of order at once, and uses what getNewFrame() returns without *)
(* a test.  errorCount decides nothing and is left out.                    *)
(***************************************************************************)
EXTENDS FrameStream

CONSTANT AckEvery   \* 16

ASSUME AckAssumption == AckEvery \in Nat \ {0}

VARIABLES states,               \* "info", "data"; "crash" after a store through NULL
          frame,
          subframe_total,
          subframe_count,
          received_pkt_seq_no,  \* the next one in order
          packet_count,
          ack                   \* ack_seq_no of this iteration's ack: {} or {n}

frameVars == <<states, frame, subframe_total, subframe_count>>
vars == <<poolVars, frameVars, received_pkt_seq_no, packet_count, ack>>

Init ==
  /\ PoolInit
  /\ states = "info"
  /\ frame = NULL
  /\ subframe_total = 0
  /\ subframe_count = 0
  /\ received_pkt_seq_no = 0
  /\ packet_count = 0
  /\ ack = {}

(* if (++packet_count == 16) set_ack(seq) and send it. *)
CountForAck(seq) ==
  IF packet_count + 1 = AckEvery
  THEN packet_count' = 0 /\ ack' = {seq}
  ELSE packet_count' = packet_count + 1 /\ ack' = {}

(* Mutant: the ack names the packet that is missing. *)
MissingNamesNext(k) ==
  /\ k # received_pkt_seq_no
  /\ ack' = {received_pkt_seq_no}
  /\ packet_count' = 0
  /\ UNCHANGED <<poolVars, frameVars, received_pkt_seq_no>>

Missing(k) ==
  /\ k # received_pkt_seq_no
  /\ ack' = {received_pkt_seq_no - 1}
  /\ packet_count' = 0
  /\ UNCHANGED <<poolVars, frameVars, received_pkt_seq_no>>

(* Mutants: newer packets, or all packets, are taken. *)
InOrderOrNewer(k) == k >= received_pkt_seq_no /\ received_pkt_seq_no' = k + 1
AnyOrder(k) == received_pkt_seq_no' = k + 1

InOrder(k) == k = received_pkt_seq_no /\ received_pkt_seq_no' = k + 1

(* Mutants: subframe_count is not reset, as in c_plus_plus/udpreceiver.cpp, or the
   frame stays in hand when it is given away. *)
FinishKeepsCount(f, count, total, k) ==
  /\ subframe_count' = count
  /\ subframe_total' = total
  /\ IF count = total THEN states' = "info" /\ frame' = NULL /\ PutAway(f, Video(k))
                      ELSE states' = "data" /\ frame' = f /\ Hold(f)

FinishKeepsFrame(f, count, total, k) ==
  /\ subframe_total' = total
  /\ frame' = f
  /\ IF count = total THEN subframe_count' = 0 /\ states' = "info" /\ PutAway(f, Video(k))
                      ELSE subframe_count' = count /\ states' = "data" /\ Hold(f)

(* Lines 224-244, after f, whose info is packet k, has count of total subframes. *)
Finish(f, count, total, k) ==
  /\ subframe_total' = total
  /\ IF count = total
     THEN subframe_count' = 0 /\ states' = "info" /\ frame' = NULL /\ PutAway(f, Video(k))
     ELSE subframe_count' = count /\ states' = "data" /\ frame' = f /\ Hold(f)

FrameInfo(k) ==
  /\ states = "info"
  /\ InOrder(k)
  /\ \E f \in Buffers :
       /\ place[f] = "free"
       /\ m_Info' = [m_Info EXCEPT ![f] = k]
       /\ m_pData' = [m_pData EXCEPT ![f] = <<>>]
       /\ Finish(f, subframe_count, Packet(k).subframe_total, k)
  /\ CountForAck(k)

(* getNewFrame() returns 0, and frame->m_Info is assigned. *)
FrameInfoCrash(k) ==
  /\ states = "info"
  /\ InOrder(k)
  /\ Exhausted
  /\ states' = "crash"
  /\ ack' = {}
  /\ UNCHANGED <<poolVars, frame, subframe_total, subframe_count, packet_count>>

FrameData(k) ==
  /\ states = "data"
  /\ InOrder(k)
  /\ m_pData' = [m_pData EXCEPT ![frame] = Append(@, [seq |-> k, len |-> Packet(k).payload_len])]
  /\ Finish(frame, subframe_count + 1, subframe_total, m_Info[frame])
  /\ CountForAck(k)
  /\ UNCHANGED m_Info

Iteration ==
  /\ states # "crash"
  /\ \E k \in SeqNos : Missing(k) \/ FrameInfo(k) \/ FrameInfoCrash(k) \/ FrameData(k)

PlayerStep ==
  /\ states # "crash"
  /\ PlayerNext
  /\ UNCHANGED <<frameVars, received_pkt_seq_no, packet_count, ack>>

Crashed == states = "crash" /\ UNCHANGED vars

Next == Iteration \/ PlayerStep \/ Crashed

Spec == Init /\ [][Next]_vars

-----------------------------------------------------------------------------
(* What the state is made of. *)
TypeOK ==
  /\ PoolTypeOK
  /\ states \in {"info", "data", "crash"}
  /\ frame \in Buffers \cup {NULL}
  /\ subframe_total \in Nat /\ subframe_count \in Nat
  /\ received_pkt_seq_no \in 0 .. Len(Stream)
  /\ packet_count \in 0 .. AckEvery - 1
  /\ ack \subseteq Int

(* No frame is lost to the pool, given away twice or queued twice. *)
FramesAccounted == OnePlace(frame)

(* Each frame is filled from its own info and data packets without gap or repetition,
   and when it is given to the player it is complete, although packets are lost,
   repeated and reordered and frames are used again. *)
FramesWhole == \A f \in InUse : FrameOfOnePiece(f) /\ FrameWhole(f)

(* The player gets the frames in the order of the film, each once. *)
QueueInOrder ==
  /\ \A j, k \in DOMAIN queue : j < k => m_Info[queue[j]] < m_Info[queue[k]]
  /\ \A f, g \in InUse : m_Info[f] = m_Info[g] => f = g
  /\ frame # NULL => \A f \in InUse \ {frame} : m_Info[f] < m_Info[frame]

(* Every ack names the last packet received in order, the periodic one and the one
   that reports a packet out of order alike. *)
AckIsLastInOrder == \A n \in ack : n = received_pkt_seq_no - 1

=============================================================================
