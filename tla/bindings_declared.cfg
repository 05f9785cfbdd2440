SPECIFICATION Spec
CONSTANTS
  Declared <- DeclaredRoutines
  Wrapped <- Wrappers
  Derives <- Bases
  Scripted <- Literals
  Avoided = {}
  Vars = {x}
INVARIANT NothingMisread
CHECK_DEADLOCK FALSE
