---------------------------- MODULE FrameStream ----------------------------
(***************************************************************************)
(* What both versions of udpreceiver.cpp work with: the packets of a film's *)
(* frames, and the CFrameBuffer the frames are put in, which a player      *)
(* empties in its own thread.                                              *)
(*                                                                         *)
(* A frame is an info packet and then its data packets; packet k has       *)
(* pkt_seq_no k.  The network loses, repeats and reorders packets and the   *)
(* sender sends again what it likes: a receiver may see any of them at any  *)
(* time.                                                                   *)
(***************************************************************************)
EXTENDS Integers, Sequences

CONSTANTS Buffers,  \* the CFrames of the CFrameBuffer
          Stream    \* the packets of the film; packet k is Stream[k + 1]

NULL == "null"

SeqNos == 0 .. Len(Stream) - 1
Packet(k) == Stream[k + 1]

(* The fields of common_header that decide anything.  Of the frame_info_header, whose
   place other bytes have in a data packet, a frame's packets all have the same:
   whether content_type says video, and the byte of len_encrypt that swapping
   exposes. *)
Packets ==
  [pkt_type : {"info", "data"}, payload_len : Nat, timecode : Nat, frame_seq_no : Nat,
   subframe_total : Nat, video : BOOLEAN, lenByte : 0 .. 255]

(* An info packet comes first; its frame's data packets follow it, as many as it says,
   and then the next info packet. *)
ASSUME StreamAssumption ==
  /\ Stream \in Seq(Packets)
  /\ \A k \in SeqNos :
       LET total == Packet(k).subframe_total IN
         /\ k = 0 => Packet(k).pkt_type = "info"
         /\ Packet(k).pkt_type = "info" =>
              /\ \A m \in SeqNos : k < m /\ m <= k + total =>
                   Packet(m).pkt_type = "data" /\ Packet(m).frame_seq_no = Packet(k).frame_seq_no
              /\ k + total + 1 \in SeqNos => Packet(k + total + 1).pkt_type = "info"

ASSUME BuffersAssumption == NULL \notin Buffers

Video(k) == Packet(k).video
LenByte(k) == Packet(k).lenByte

VARIABLES place,    \* of each frame: "free", "held" by the receiver, "queued", "playing"
          queue,    \* the queued frames in order
          m_Info,   \* of each frame: the packet its info was read from, or -1
          m_pData   \* of each frame: which packets were copied, and how many bytes of each

poolVars == <<place, queue, m_Info, m_pData>>

PoolInit ==
  /\ place = [f \in Buffers |-> "free"]
  /\ queue = <<>>
  /\ m_Info = [f \in Buffers |-> -1]
  /\ m_pData = [f \in Buffers |-> <<>>]

Exhausted == \A f \in Buffers : place[f] # "free"

(* queueFrame() or releaseQueuedFrame(). *)
PutAway(f, queueIt) ==
  /\ place' = [place EXCEPT ![f] = IF queueIt THEN "queued" ELSE "free"]
  /\ queue' = IF queueIt THEN Append(queue, f) ELSE queue

Hold(f) == place' = [place EXCEPT ![f] = "held"] /\ UNCHANGED queue

(* The player's thread. *)
Play ==
  /\ queue # <<>>
  /\ place' = [place EXCEPT ![Head(queue)] = "playing"]
  /\ queue' = Tail(queue)
  /\ UNCHANGED <<m_Info, m_pData>>

Played(f) ==
  /\ place[f] = "playing"
  /\ place' = [place EXCEPT ![f] = "free"]
  /\ UNCHANGED <<queue, m_Info, m_pData>>

PlayerNext == Play \/ \E f \in Buffers : Played(f)

PoolTypeOK ==
  /\ place \in [Buffers -> {"free", "held", "queued", "playing"}]
  /\ queue \in Seq(Buffers)
  /\ m_Info \in [Buffers -> SeqNos \cup {-1}]
  /\ m_pData \in [Buffers -> Seq([seq : SeqNos, len : Nat])]

(* Every frame is in exactly one place: the one the receiver holds is the one it
   has in hand, and those in the queue are there once. *)
OnePlace(frame) ==
  /\ \A f \in Buffers : place[f] = "held" <=> f = frame
  /\ \A f \in Buffers : place[f] = "queued" <=> \E j \in DOMAIN queue : queue[j] = f
  /\ \A j, k \in DOMAIN queue : queue[j] = queue[k] => j = k

InUse == { f \in Buffers : place[f] # "free" }

(* The packets in a frame follow each other and its info without gap or repetition,
   and before it is delivered it has as many as its info says. *)
FrameWhole(f) ==
  /\ \A j \in DOMAIN m_pData[f] : m_pData[f][j].seq = m_Info[f] + j
  /\ place[f] # "held" => Len(m_pData[f]) = Packet(m_Info[f]).subframe_total

(* A frame's info came from an info packet, and its data are that frame's. *)
FrameOfOnePiece(f) ==
  /\ Packet(m_Info[f]).pkt_type = "info"
  /\ \A j \in DOMAIN m_pData[f] :
       /\ Packet(m_pData[f][j].seq).pkt_type = "data"
       /\ Packet(m_pData[f][j].seq).frame_seq_no = Packet(m_Info[f]).frame_seq_no

=============================================================================
