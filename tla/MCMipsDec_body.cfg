CONSTANTS
  Size = 5
  Plain = {"SW", "ADDU", "SP"}
  Branches = {"BEQL", "BGTZ"}
  Jumps = {"J", "JALR"}
  CallThrough = "other"
  Direction = "forward"
  CloneLimit = 10
  Fuel = 15
SPECIFICATION Spec
INVARIANT NoAssert
