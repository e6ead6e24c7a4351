SPECIFICATION MCSpec
CONSTANTS
  MaxObjects = 2
  MaxDepth = 6
  Bytes = {0, 255}
  Blank = 255
  Zero = 0
  Asset <- MCAsset
  CountSize = 4
  EntrySize = 4
  MaxSize = 3
  MaxAsset = 4
  MaxLocation = 2
  PageSizes = {1, 2, 3}
  Names = {"blinky", "hello", ".dot"}
  Hidden = {".dot"}
  Sources = {"a", "b", ".DS_Store"}
  Junk = {".DS_Store"}
  Foreign = "c"
  Filters = {{}, {"b"}}
  Threads = {1, 2}
  Pids = {1, 2}
  Applications = {blinky, hello}
  NoName = NoName
  Hardware = {b1, b2}
  Boards = {b1}
  NoBoard = NoBoard
  Projects = {f, g}
INVARIANTS NeverUnderflow TransferSound AssetsRead CleanSound RanInstalled PackageSound InstalledAsPacked SignalSound InstallSound
PROPERTIES CommandCloses CleanReturns
CHECK_DEADLOCK FALSE
