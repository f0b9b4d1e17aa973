CONSTANTS
  Openers = {"old", "first", "second"}
  Scripts = 2
  packages <- Packages
SPECIFICATION Spec
CHECK_DEADLOCK FALSE
PROPERTIES
  EachScriptFromItsVersion
