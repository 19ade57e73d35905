\* A file call of a clone reaches the host outside the jail.
SPECIFICATION Spec
CONSTANTS
  Jails <- CJails
  Homes <- CHomes
  Users <- CUsers
  Args <- CArgs
  Data = {d1}
  Cwd <- CCwd
  OsVars <- COsVars
  Others = {"XDG_CONFIG_HOME"}
  Fixtures <- CFixtures
  MaxCalls = 3
  NoPath = NoPath
  DirNode = DirNode
  DotDotNames = {"..data"}
PROPERTIES CopiesStayInJail
CHECK_DEADLOCK FALSE
