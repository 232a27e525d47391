SPECIFICATION RagSpec
CONSTANTS
  f1 = f1
  f2 = f2
  g = g
  k1 = k1
  k2 = k2
  mixed = mixed
  pictures = pictures
  ka = ka
  kb = kb
  Kbs = {k1, k2}
  Files = {f1, f2, g}
  KbOf <- KbOfFile
  Docs = {mixed, pictures}
  Content <- Contents
  ImageKeys = {ka, kb}
  NoDoc = NoDoc
  TopK = 2
  MaxAsked = 2
  MaxScore = 2
  MaxImports = 1
  MaxSize = 4
  MaxLength = 8
INVARIANT TypeOK
INVARIANT HitsAreBest
INVARIANT CitationsHold
INVARIANT ChunksCover
SYMMETRY Renamings
CHECK_DEADLOCK FALSE
