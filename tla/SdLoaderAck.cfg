SPECIFICATION Spec
CONSTANTS
  StemLength <- MCStemLength
  NameLimit <- MCNameLimit
  MaxSaveNum = 1
  Cards <- MCCards
  FilesPerPage = 2
  ByteMod = 4
  MayFail = {}
  Adversity = {FALSE}
  HastyUser = TRUE
  ButtonWhen = {}
  MaxEntries = 3
  MaxResets = 0
INVARIANT AckedIsProcessed
CHECK_DEADLOCK FALSE
