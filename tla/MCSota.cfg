CONSTANTS
  v1 = v1
  v2 = v2
  Version = {v1, v2}
  PackLen <- LenOf
  EraseBlock = 2
  NoVersion = NoVersion
  PieceLen = 2
  RunMode = "APP"
  MaxFaults = 1
SPECIFICATION Spec
INVARIANTS UpgradeIntact ChecksumCoversFlash
PROPERTIES RequestedBlockAccepted
