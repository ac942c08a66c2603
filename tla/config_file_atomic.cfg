\* Two requests at a time.
CONSTANTS
  g1 = g1
  g2 = g2
  i1 = i1
  i2 = i2
  i3 = i3
  i4 = i4
  Writers = {g1, g2}
  short = short
  long = long
  bad = bad
  Configs <- MCConfigs
  Accepted <- MCAccepted
  Size <- MCSize
  Inodes = {i1, i2, i3, i4}
  None = None
  Unknown = Unknown
  CheckerPresent = TRUE
SPECIFICATION Spec
SYMMETRY Symmetry
VIEW View
PROPERTY
  InstalledIsAtomic
