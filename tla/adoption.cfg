SPECIFICATION FairSpec
CONSTANTS
  c1 = c1
  Names <- MCNames
  Commands = {c1}
  MaxStops = 2
INVARIANTS EachFileOnce OpenedWhole
PROPERTIES NothingReplaced MigrationEnds
