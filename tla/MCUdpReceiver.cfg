SPECIFICATION Spec
CONSTANTS
  Stream <- LongStream
  Buffers = {b1, b2}
  Hosts = {h1, h2}
  Creates = {TRUE, FALSE}
  AckEvery = 3
  TypeWord = 49
INVARIANTS FramesAccounted FramesWhole AckToCaller FrameInStep NeverCopiesToNull
