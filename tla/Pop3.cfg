SPECIFICATION Spec
CONSTANTS
  Message = {1, 2}
  Stamp <- MCStamp
  Uid <- MCUid
  Bytes <- MCBytes
  Sized = {2}
  MaxCount = 2
  MaxCur = 0
  MaxNew = 1
  UserMax = 2
  AuthMax = 2
  AuthBound = 3
  Session = {s1, s2}
  FirstFiles <- MCFirstFiles
SYMMETRY SessionSymmetry
INVARIANTS TypeOK ListedOnce StatAgrees LimitsHold DeletedIsGone ReadWasFetched FailuresAreLimited
PROPERTIES NoMailIsLost NamesNeverReturn
CHECK_DEADLOCK FALSE
