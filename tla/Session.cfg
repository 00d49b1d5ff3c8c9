\* Sessions of a few cycles with every kind of call, option and command.
SPECIFICATION Spec
CONSTANTS
  CommandLines <- MCCommandLines
  Loadable = {"program"}
  Word <- MCWord
  TEXT_START = 2
  BootPage <- MCBootPage
  START = 2
  Cycles <- MCCycles
  Renamings <- MCRenamings
  Addresses <- MCAddresses
  Images <- MCImages
  Terminals <- MCTerminals
  Number <- MCNumber
  Quits <- MCQuits
  Creatable <- MCCreatable
  HostAnswers = {0, 7}
  READLIMIT = 3
  CONTINUED = 4
  MAXCLOCK = 5
INVARIANTS TypeOK NoStopMissed
PROPERTIES OnlyLinesResume UnameFields ImplementsHostFiles
CHECK_DEADLOCK FALSE
