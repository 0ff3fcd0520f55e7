SPECIFICATION Spec
CONSTANTS
  bytes_per_sector = 32
  sectors_per_cluster = 1
  reserved_sectors = 1
  num_fats = 1
  root_entry_count = 2
  total_sectors = 7
  sectors_per_fat = 1
  notes = notes
  game = game
  a = a
  b = b
  FileNames = {notes, game}
  Names83 = {notes, game}
  Hidden = {}
  name_to_83 <- MCNameTo83
  NoName = NoName
  Blocks = {Zero, a, b}
  Zero = Zero
  Contents <- MCContents
  NoFile = NoFile
  ChunkSectors = 4
  Defaults <- MCDefaults
  MaxCalls = 4
  MaxFaults = 2
INVARIANTS
  AckedIsOnDisk
CHECK_DEADLOCK FALSE
