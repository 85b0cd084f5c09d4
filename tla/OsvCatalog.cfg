SPECIFICATION Spec
CONSTANTS
  Advisories = {"a", "b"}
  Revisions <- MCRevisions
  Listed <- MCListed
  Requests <- MCRequests
  Failing = {"PyPI", "npm"}
  Unreadable = {"a", "b"}
  Rank <- MCRank
  Curated <- MCCurated
  Probes <- MCProbes
  Days = 1
INVARIANTS
  TypeOK
  RowsAreWarranted
  CatalogIsComplete
  LookupAgrees
PROPERTY ReimportIsQuiet
