SPECIFICATION GroupSpec
CONSTANTS
  alice = alice
  bob = bob
  Members <- TwoMembers
  NoSlot = NoSlot
  MaxRetries = 2
  MaxCommits = 2
  GroupFaults = {"race", "network"}
  MaxGroupFaults = 2
CHECK_DEADLOCK FALSE
PROPERTY LoserBails
