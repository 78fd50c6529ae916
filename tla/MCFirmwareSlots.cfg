SPECIFICATION Spec
CONSTANTS
  Releases <- MCReleases
  Baselines <- MCBaselines
INVARIANT AlwaysBootable
INVARIANT MirrorAgrees
PROPERTY AtomicOperations
