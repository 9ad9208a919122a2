\* Texts of up to 12 characters; the second half of a chunk has room for two
\* kinds of sentence ends, and a text takes up to three chunks.
CONSTANTS
  ChunkSize = 9
  ChunkOverlap = 4
  Letters = {".", "!"}
  MaxLength = 12
SPECIFICATION Spec
\* chunk_text returns.
CHECK_DEADLOCK FALSE
INVARIANT TypeOK
INVARIANT NothingLost
INVARIANT ChunksAdvance
INVARIANT ChunksNumbered
PROPERTY Progress
