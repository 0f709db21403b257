SPECIFICATION FairSpec
CONSTANTS
  StemLength <- MCStemLength
  NameLimit <- MCNameLimit
  MaxSaveNum = 1
  Cards <- MCCards
  FilesPerPage = 2
  ByteMod = 4
  MayFail = {"dma", "list", "open", "read", "create", "lag"}
  Adversity = {FALSE, TRUE}
  HastyUser = FALSE
  ButtonWhen = {"main_menu", "file_menu", "basic", "game"}
  MaxEntries = 3
  MaxResets = 1
INVARIANTS TypeOK NoCrash IndexInTable SaveNameIsNew
PROPERTIES PageShownIsRequested SelectionHonoured HaltsAnswered GameStarts
CHECK_DEADLOCK FALSE
