SPECIFICATION Spec
CONSTANTS
  Stream <- SmallStream
  Buffers = {b1, b2, b3}
  AckEvery = 3
INVARIANTS FramesAccounted FramesWhole QueueInOrder AckIsLastInOrder
