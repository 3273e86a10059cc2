SPECIFICATION Spec
CONSTANTS
  Entries = {root, e1}
  ROOT_DIR_ENTRY = root
  N_CLUSTERS = 8
  BYTES_PER_CLUSTER = 2
  UINT32 = 16
  Sizes <- MCSizes
  FREE = FREE
  EOFC = EOFC
  NONE = NONE
INVARIANT ChainsHoldSize
CHECK_DEADLOCK FALSE
