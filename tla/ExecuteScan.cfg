SPECIFICATION FairSpec
CONSTANTS
  d1 = d1
  d2 = d2
  i1 = i1
  x1 = x1
  None = None
  Malformed = Malformed
  Digests = {d1, d2, i1, x1}
  Manifest <- MCManifest
  Pushed = {d1, i1, x1}
  References <- MCReferences
  Platforms <- MCPlatforms
  Challenges = {"open", "basic", "missing", "bearer", "wider"}
  Commits = {"c1", "c2", "c3"}
  Archive <- MCArchive
  Paths <- MCPaths
  Escaping = {"../e.go"}
  Sources = {"a/x.go", "l.go", "vendor/y.go", "big.go", "../e.go"}
  Manifests = {"go.mod", "yarn.lock", "bad.json"}
  SkipDirs = {"vendor/y.go"}
  Oversized = {"big.go"}
  Unscanned = {"bad.json"}
  Hits <- MCHits
  Dedup <- MCDedup
  NoDir = NoDir
  Dirs = {"t1", "t2"}
INVARIANTS
  TypeOK
  OneImage
  DirsAreOwned
PROPERTIES
  TokensAreReused
  ScanEnds
  ImplementsPromise
