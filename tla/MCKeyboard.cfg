SPECIFICATION Spec
CONSTANTS
  KBD_BUF_SIZE = 3
  scancode_ascii <- MCAscii
  scancode_ascii_shift <- MCAsciiShift
  PlainKeys <- MCPlainKeys
  ExtKeys <- MCExtKeys
  MaxWire = 2
  MaxTyped = 4
INVARIANTS
  TypeOK
  PollNeverBlocks
  HeldKeysExact
PROPERTIES
  RefinesQueue
  WaitersWake
