CONSTANTS
  N = 2
  Requests = {10, 131073, 9000000}
  StackStart <- MCStackStart
  Files <- MCFiles
  Depths = {16, 32}
SPECIFICATION Spec
INVARIANT OnOwnStack
PROPERTY Continues
PROPERTY StartsAnew
