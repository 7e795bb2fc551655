SPECIFICATION SSpec
CONSTANTS
  Size = 8
  Messages <- NoMessages
  ReadSizes <- NoMessages
  Commands <- SessionCommands
  Data <- SessionData
  Reply <- SessionReply
  Window = 7
PROPERTIES ReplyArrives

