SPECIFICATION RulesSpec
CONSTANTS
  Items = {"i1", "i2"}
  Holds <- MCHolds
  AssetData <- MCAssetData
  Policies = {1, 2}
  PolicyData <- MCPolicyData
  Cards = {1, 2}
  CardData <- MCCardData
  Board <- MCBoard
  DefaultOf <- MCDefaultOf
  FirstRows <- MCFirstRows
  FirstPolicies <- MCFirstPolicies
  FirstCards <- MCFirstCards
  MaxChanges = 2
  Nothing = Nothing
PROPERTY ConfirmedStands
CHECK_DEADLOCK FALSE
