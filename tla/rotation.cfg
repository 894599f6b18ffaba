\* Six Writes of one, two or four bytes; up to two mishaps.
SPECIFICATION Spec
CONSTANTS
  Confs <- SomeConfs
  MaxBackups = 3
  Sizes = {1, 2, 4}
  MaxWrites = 6
  MaxMishaps = 2
INVARIANTS
  InOrder
  KeepsNewest
  FilesBounded
  SizeIsTrue
