SPECIFICATION Spec
CONSTANTS
  Processes = {p1, p2}
  Sources = {s1}
  PartCount = 2
  MaxVersion = 2
  Provenances = {d1}
  x = x
  y = y
  Blobs = {x, y}
  Compile <- MCCompile
  Faults = {"raise", "write"}
  Crashes = TRUE
  MaxDamage = 0
  Absent = Absent
  Torn = Torn
  None = None
SYMMETRY Symmetry
INVARIANTS
  
  NeverInvalidUndamaged
  NoTemporariesLeft
