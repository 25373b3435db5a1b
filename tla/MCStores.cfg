SPECIFICATION StoresSpec
CONSTANTS
  Handle = {h1, h2}
  Value <- MCValue
  FirstValue <- MCFirstValue
  Ordinary <- MCOrdinary
  Activation <- MCActivation
  MaxRevision = 5
  MaxCrashes = 2
  None = None
  Name = {1, 2}
  Secret = {"a", "b"}
  Digest = {1, 2, 3, 4}
  Path = {1, 2}
  Apps <- MCApps
  Entered <- MCEntered
  Authority = "authority"
  MaxChanges = 3
  MaxDeaths = 1
INVARIANTS NoLostUpdate FilesAreSound ImportsAreSound
PROPERTY RevisionGrows
