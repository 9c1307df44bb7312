--------------------------- MODULE MCFpgaReceiver ---------------------------
(* A film for the model checker: video, audio and empty frames. *)
EXTENDS FpgaReceiver, Films

SmallFilm == << [subframes |-> 1, video |-> TRUE, lenByte |-> 0, timecode |-> 7],
                [subframes |-> 2, video |-> TRUE, lenByte |-> 0, timecode |-> 8],
                [subframes |-> 1, video |-> FALSE, lenByte |-> 0, timecode |-> 8],
                [subframes |-> 0, video |-> TRUE, lenByte |-> 0, timecode |-> 9],
                [subframes |-> 2, video |-> TRUE, lenByte |-> 0, timecode |-> 9] >>

SmallStream == PacketsOf(SmallFilm)

=============================================================================
