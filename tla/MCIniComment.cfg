SPECIFICATION Spec
CONSTANTS
  Line <- CommentedLine
  MAX_LINES = 4
  LINE_BUF_SIZE = 8
  VALUE_BUF_SIZE = 16
  KEY_BUF_SIZE = 4
  TaskName <- NameT
  KeyCmd <- KeyC
  KeyDir <- KeyD
  KeyWait <- KeyW
  COMMENT_AFTER_VALUE = TRUE
CHECK_DEADLOCK FALSE
INVARIANTS
  TaskIsSection
