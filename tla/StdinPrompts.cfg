CONSTANTS
  MaxLines = 3
  MaxPrompts = 2
  Kinds = {"permission", "confirm"}
SPECIFICATION Spec
INVARIANTS
  
  AllowedByYes
PROPERTIES
  PermissionSettled
CHECK_DEADLOCK FALSE
