SPECIFICATION Spec
CONSTANTS
  Parts = {"streams", "paging", "log", "drawing", "tools", "diagram", "review", "asking", "list", "box", "files", "images", "sketch", "words", "first", "sandboxes"}
  m1 = m1
  m2 = m2
  NoChat = NoChat
  Absent = Absent
  Nobody = Nobody
  Null = Null
  Undefined = Undefined
INVARIANTS
  StreamsAgree
  MessageIsWhole
  BoxKeeps
  ChatsAsAsked
PROPERTIES
  DraftKept
CHECK_DEADLOCK FALSE
