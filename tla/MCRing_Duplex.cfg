SPECIFICATION Spec
CONSTANTS
  Size = 4
  Messages <- DuplexMessages
  ReadSizes <- DuplexReads
INVARIANTS TypeOK FlagProtocol ReloadFindsData
PROPERTIES FIFO
