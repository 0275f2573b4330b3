SPECIFICATION Spec
CONSTANTS
  Processes = {p1, p2}
  Sources = {s1}
  PartCount = 1
  MaxVersion = 1
  Provenances = {d1, d2}
  x = x
  y = y
  Blobs = {x, y}
  Compile <- MCCompile1
  Faults = {"read", "write", "unlink"}
  Crashes = FALSE
  MaxDamage = 1
  Absent = Absent
  Torn = Torn
  None = None
SYMMETRY Symmetry
INVARIANT ReturnedMatchesRequest
