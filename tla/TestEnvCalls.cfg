\* Three calls on a sandbox, on its environment or a clone of that, on an environment
\* without a jail, or on that of the process.
SPECIFICATION SandboxSpec
CONSTANTS
  Jails <- CJails
  Homes <- CHomes
  Users <- CUsers
  Args <- CArgs
  Data = {d1}
  Cwd <- CCwd
  OsVars <- COsVars
  Others = {"XDG_CONFIG_HOME"}
  Fixtures <- CFixtures
  MaxCalls = 3
  NoPath = NoPath
  DirNode = DirNode
  DotDotNames = {"..data"}
INVARIANTS TypeOK ViewsAgree ReadsItsJail LocalRootIsRepo
PROPERTIES StaysInJail CloneIsIndependent HomeMoves ReadYourWrites WdStaysAbsolute
           FixtureLands SandboxSetwdLands
CHECK_DEADLOCK FALSE
