SPECIFICATION Spec
CONSTANTS
  Declared <- DeclaredRoutines
  Wrapped <- Wrappers
  Derives <- Bases
  Scripted <- Literals
  Avoided <- Unusable
  Vars = {x}
INVARIANTS TypeOK HandlesHonest NothingMisread Served
CHECK_DEADLOCK FALSE
