SPECIFICATION LiveSpec
CONSTANTS
  a = a  b = b  c = c  m1 = m1  m2 = m2  m3 = m3
  Files <- MCFiles
  Content <- MCContent
  Malformed <- MCMalformed
  Messages <- MCMessages
  MaxDrain = 2
INVARIANTS Conservation NoFileIsLost
PROPERTIES FolderIsConsumed
