\* All requests on all directories, every partition, every fault, old outputs.
SPECIFICATION Spec
CONSTANTS
  Modulus = 16
  NReduce = 2
  Numeric <- MCNumeric
  TextAsNumber = 3
  Today = 2
  Requests <- MCRequests
  Disks <- MCDisks
  Hashes <- MCHashes
  Leftovers <- MCLeftovers
  Faults = {"map", "lose", "create", "flush"}
INVARIANTS
  TypeOK
  WholeOrAbsent
  NobodyLeftOut
  StrangersComeFromGaps
CHECK_DEADLOCK FALSE
