SPECIFICATION Spec
CONSTANTS
  ticks_per_slot = 2
  hashes_per_tick = 3
  hashes_per_batch = 2
  NUM_CONSECUTIVE_LEADER_SLOTS = 2
  LastSlot = 3
  MyLeaderSlots <- TwoLeaderSlots
  MaxRecords = 2
INVARIANTS BlockVerifies LeaderAssertions RecordsAreAnswered
PROPERTIES SlotIsLeftForGood
CHECK_DEADLOCK FALSE
