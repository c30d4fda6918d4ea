SPECIFICATION FairSpec
CONSTANTS
  builtIn = builtIn
  added = added
  source = source
  output = output
  j1 = j1
  j2 = j2
  Dirs <- MCDirs
  BuiltIn <- MCBuiltIn
  MainDir = builtIn
  Paths <- MCPaths
  DirOf <- MCDirOf
  Good = {m}
  Bad = Bad
  NoFile = NoFile
  Jobs <- MCJobs
  AtStart <- MCAtStart
  Gui = Gui
  NoOne = NoOne
  MaxMeddling = 1
INVARIANTS ListFollowsDisk OutputStays
PROPERTIES CreationEnds
CHECK_DEADLOCK FALSE
