SPECIFICATION Spec
CONSTANTS
  BUFFER_SIZE = 5
  UNDO_STACK_SIZE = 6
  YANK_SIZE = 5
  MAX_COUNT = 15
  ScreenRows = 2
  Digits = {0, 2}
  Typed = {"a"}
  notes = "notes"
  longname = "longname"
  longnam = "longnam"
  Files <- MCFiles
  Chars <- MCChars
  Cut <- MCCut
  Disk0 <- MCDisk0
  NoFile = NoFile
  Damaged = Damaged
  MaxKeys = 4
CHECK_DEADLOCK FALSE
INVARIANTS
  EdTypeOK
  LogMatchesText
  UnmodifiedMeansSaved
  CursorShown
PROPERTIES
  LinesOutsideSelectionStay
  RefinesHistory
