SPECIFICATION Spec
CONSTANTS
  VerbMax = 2
  ArgMax = 2
  DataMax = 7
  BufferSize = 7
  Byte <- MCByte
  WithoutArg <- MCWithoutArg
  Reads <- MCReads
  Tokens <- MCTokens
  Spelling <- MCSpelling
  TextMax = 5
INVARIANTS
  RequestsByGrammar
  
  BodyByTerminator
  TokensAgree
CHECK_DEADLOCK FALSE
