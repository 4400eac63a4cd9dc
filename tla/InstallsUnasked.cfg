CONSTANTS
  Tools <- MCTools
  Bash = "bash"
  Script <- MCScript
  Prelude <- MCPrelude
  MaxBlocks = 2
SPECIFICATION Spec
INVARIANTS NothingUnasked
