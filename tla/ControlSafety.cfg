SPECIFICATION Spec
CONSTANTS
  t1 = t1  t2 = t2  sha = sha  scrypt = scrypt  n1 = n1  dflt = dflt
  pool1 = pool1  pool2 = pool2  NULL = NULL
  Threads <- MCThreads
  Algos <- MCAlgos
  Params <- MCParams
  Unset = dflt
  ParamAlgos <- MCParamAlgos
  Urls <- MCUrls
  Profiles <- MCProfiles
  StartAlgo = sha
  StartParam = dflt
  StartUrl = pool1
  Faults = {"memory", "register", "restore"}
  MaxEpoch = 2
  MaxGen = 2
SYMMETRY Symmetry
INVARIANTS TypeOK GateOwnsBuffers HandoverComplete ParkWakesScan GateMatchesAlgo
 
