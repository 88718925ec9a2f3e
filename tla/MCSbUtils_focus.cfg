CONSTANTS
  Chips <- MCChips
  Dev = "DEV"
  Buses = {"PCI", "PCMCIA", "SB"}
  Calls <- MCCalls
SPECIFICATION Spec
INVARIANTS IsrOnItsCore CallsRestore AccessRight NoResetWhileBusy
PROPERTY CallsReturn
