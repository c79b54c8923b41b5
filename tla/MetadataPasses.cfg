SPECIFICATION Spec
CONSTANTS
  Nft = {1, 2, 3}
  Missing = {1}
  Undated = {3}
  Contract = {1, 2, 3}
  NoContract = {2}
  Tx = {1, 2, 3}
  Silent = {3}
  Token = {"SOUL", "OLD"}
  Listed = {"SOUL"}
  Key = {"k"}
  MaxChanges = 2
  Symbol <- Symbols
  Batch = 2
  MaxDays = 2
  MaxToday = 3
  MaxUpgrades = 3
  MaxOutages = 2
INVARIANTS OutageNotRemembered NewestMethodLinked
PROPERTIES BatchesAdvance UpgradesRecorded ContractsRefreshed TokensFollowNode
CHECK_DEADLOCK FALSE
