SPECIFICATION CursorSpec
CONSTANTS
  u = u
  v = v
  z = z
  n1 = n1
  n2 = n2
  cursor = cursor
  Surface = cursor
  Contents <- TwoContents
  Zero = z
  MaxBytes = 2
  ChunkBudget = 1
  HookSpecs <- ThreeHooks
  AnySurface = AnySurface
  MaxTime = 2
  MaxSaves = 2
  MaxFaults = 1
  MaxBoots = 2
INVARIANTS OffsetIsStored RepeatsExcused FiresSpaced QuietMeansRecorded
CHECK_DEADLOCK FALSE
