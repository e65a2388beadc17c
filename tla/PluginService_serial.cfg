\* Two ops in turn on a skill, a WASM and an OCI plugin, failing and killed anywhere.
CONSTANTS
  p1 = p1
  p2 = p2
  p3 = p3
  skill = skill
  wasm = wasm
  oci = oci
  NoTree = NoTree
  Ops = {p1, p2}
  Plugins = {skill, wasm, oci}
  Tier <- MCTier
  Versions = {1, 2}
  Named <- MCNamed
  Drifting <- MCDrifting
  Requests <- MCRequests
  After <- InTurn
  InitialVersions <- NewOrUsed
SPECIFICATION FairSpec
INVARIANTS LogOnlyForLocked AckedInstallComplete AckedUninstallComplete UpgradeLosesNothing FixRepairs
PROPERTIES OthersUntouched EveryOpEnds
CHECK_DEADLOCK FALSE
