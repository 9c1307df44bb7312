--------------------------- MODULE MCUdpReceiver ---------------------------
(* Films for the model checker: in LongFilm a video frame of two subframes whose
   length has a top byte of 1, an audio frame of one and a video frame of none. *)
EXTENDS UdpReceiver, Films

LongFilm == << [subframes |-> 2, video |-> TRUE, lenByte |-> 1, timecode |-> 7],
               [subframes |-> 1, video |-> FALSE, lenByte |-> 0, timecode |-> 8],
               [subframes |-> 0, video |-> TRUE, lenByte |-> 1, timecode |-> 8] >>

ShortFilm == << [subframes |-> 1, video |-> TRUE, lenByte |-> 0, timecode |-> 7],
                [subframes |-> 1, video |-> FALSE, lenByte |-> 1, timecode |-> 8] >>

LongStream == PacketsOf(LongFilm)
ShortStream == PacketsOf(ShortFilm)

=============================================================================
