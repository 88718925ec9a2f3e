CONSTANTS
  Size = 7
  Plain = {"SW", "ADDU", "SP", "SAVE"}
  Branches = {"BEQL", "BGTZ"}
  Jumps = {"J", "JALR"}
  CallThrough = "other"
  Direction = "forward"
  CloneLimit = 10
  Fuel = 30
SPECIFICATION Spec
INVARIANTS SameBehaviour LabelsUnique PassesBounded
