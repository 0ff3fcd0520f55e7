SPECIFICATION Spec
CONSTANTS
  IntHalf = 128
  TOK_MAX = 44
  Letters = {"A", "B"}
  Chars <- MCChars
  Codes <- MCCodes
  Spell <- MCSpell
  DETOK_MAX = 52
  PROG_SIZE = 60
  STRING_POOL_SIZE = 18
  STR_MAX_LEN = 5
  LenMod = 8
  GOSUB_DEPTH = 2
  FOR_DEPTH = 2
  SAVE_MAX = 24
  LOAD_MAX = 84
  LINE_MAX = 51
  Disk0 <- MCDisk0
  SaveFiles = {"call"}
  Source <- MCSource
  Immediate <- MCImmediate
  Expressions <- MCExpressions
  Answers <- MCAnswers
  Draws = {0, 1}
  CtrlC = "C-c"
  OtherKey = "key"
  KEYS_MAX = 2
  MaxTyped = 3
CHECK_DEADLOCK FALSE
INVARIANTS
  OnlyNextResumesMidLine
