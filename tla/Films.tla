------------------------------- MODULE Films -------------------------------
(* The packets of the films that the model checker is given: of each frame its info
   packet and then its data packets. *)
EXTENDS Naturals, SequencesExt

Header(film, n, type) ==
  [pkt_type |-> type, payload_len |-> 100, timecode |-> film[n].timecode, frame_seq_no |-> n,
   subframe_total |-> film[n].subframes, video |-> film[n].video, lenByte |-> film[n].lenByte]

FramePackets(film, n) ==
  <<Header(film, n, "info")>> \o [j \in 1 .. film[n].subframes |-> Header(film, n, "data")]

PacketsOf(film) == FlattenSeq([n \in DOMAIN film |-> FramePackets(film, n)])

=============================================================================
