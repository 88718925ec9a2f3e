CONSTANTS
  Phys = {"PHY", "NO_PHY"}
  Partners <- MCPartners
  Settings <- MCSettings
  Addrs = {"a1", "a2"}
  McLists <- MCMcLists
  IffFlags = {{}, {"PROMISC"}}
  CamSize = 3
  B44_MCAST_TABLE_SIZE = 2
  MiiReads = {"MII_LPA"}
  Env = {"restart", "bmsr"}
SPECIFICATION Spec
INVARIANTS MacAgrees FilterRight
PROPERTY CarrierFollows
