CONSTANTS
  Extents <- MCExtents
  Room = 4
  Retries = 3
  PartitionStart = 9
  MAX_REGIONS = 2
  Images <- MCImages
  HeaderSize = 2
  LOAD_SIZE = 4
  CopyWrap = 4
  CheckSize = 2
  Addresses <- MCAddresses
  ScreenWidth = 6
  ScreenHeight = 2
  Blank = " "
  NL = "nl"
  Tab = "tab"
  CR = "cr"
  SIMPLE_MSG_COUNT = 2
  Ten = 1
  NoMessage = "none"
  SHELL_BUFFER_SIZE = 5
  SHELL_MAX_ARGS = 3
  Prompt <- MCPrompt
  Printable = {" ", "d", "c"}
  Special = {"tab"}
  Zero = "zero"
  Out = "#"
  dmesg <- MCdmesg
  clear <- MCclear
  reboot <- MCreboot
  exit <- MCexit
  OptClear <- MCclear
  OptTest <- MCdmesg
  BootLog <- MCBootLog
  TestMessage = "test"
SPECIFICATION SystemSpec
INVARIANTS
  ScreenShowsLine
  ArgvIsWords
  MessagesAreFirst
  Stage2Sound
  KernelWhole
PROPERTIES
  EditorSpec
  BootEnds
CHECK_DEADLOCK FALSE
