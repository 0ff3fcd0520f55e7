SPECIFICATION FatSpec
CONSTANTS
  bytes_per_sector = 32
  sectors_per_cluster = 1
  reserved_sectors = 1
  num_fats = 1
  root_entry_count = 2
  total_sectors = 8
  sectors_per_fat = 1
  README = README
  readme = readme
  hello = hello
  ls = ls
  sigma = sigma
  a = a
  b = b
  FileNames <- MCFileNames
  Names83 <- MCNames83
  Hidden = {sigma}
  name_to_83 <- MCNameTo83
  Blocks = {Zero, a, b}
  Zero = Zero
  Contents <- MCContents
  NoFile = NoFile
  NoName = NoName
SYMMETRY Renamings
INVARIANTS
  FatTypeOK
  FreeIffZero
  ChainsApart
  NoLeak
  DirectorySound
PROPERTIES
  NoStrayWrites
  RefinesFileStore
