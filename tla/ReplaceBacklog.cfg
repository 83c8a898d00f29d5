CONSTANTS
  a = a
  b = b
  x = x
  y = y
  Alphabet = {a, b, x, y}
  Pattern <- MCPattern
  Rtext <- MCRtext
  MaxLength = 4
  BufferSize = 3
  Chunk <- MCChunk
  MaxInput = 7
SPECIFICATION Spec
INVARIANT BacklogFits
CHECK_DEADLOCK FALSE
