\* What reaches the handle, from the program, the lookup and the socket.
SPECIFICATION Spec

CONSTANTS
  BufferSize = 3
  Texts <- SomeTexts

INVARIANTS
  Fits
  ParsedAsItIs
  DefaultFollowsSocket
  AskedForFamily
