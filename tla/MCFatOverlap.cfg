SPECIFICATION Spec
CONSTANTS
  bytes_per_sector = 512
  sectors_per_cluster = 1
  reserved_sectors = 1
  num_fats = 1
  root_entry_count = 64
  total_sectors = 2048
  sectors_per_fat = 3
  Prefill = 1018
INVARIANTS
  DirectoryUntouched
CHECK_DEADLOCK FALSE
