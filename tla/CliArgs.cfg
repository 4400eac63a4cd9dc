CONSTANTS
  Classes <- MCClasses
  OfRegistry <- MCRegistered
  MaxPlain = 2
SPECIFICATION Spec
INVARIANTS OrderMeetsDeclaration RegisteredAlwaysEmits RejectionSound
CHECK_DEADLOCK FALSE
