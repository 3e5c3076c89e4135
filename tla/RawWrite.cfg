SPECIFICATION Spec
CONSTANTS
  Sizes = {0, 1, 3}
  MaxWrite = 2
  MaxCalls = 3
INVARIANT WritesTheBuffer
\* The application makes no more calls.
CHECK_DEADLOCK FALSE
