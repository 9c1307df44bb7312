SPECIFICATION Spec
CONSTANTS
  Stream <- ShortStream
  Buffers = {b1}
  Hosts = {h1}
  Creates = {TRUE}
  AckEvery = 3
  TypeWord = 49
INVARIANT ContentCopied
