SPECIFICATION Spec
CONSTANTS
  Releases <- MCReleases
  Others <- MCOthers
  Plans = {p1, p2}
  MaxOutcomes = 3
INVARIANTS TypeOK OrmMatchesHead SameSchemaAtHead ServesItsTenants  OneOutcomeCounts
PROPERTY UpgradesKeepRecords
CHECK_DEADLOCK FALSE
