SPECIFICATION Spec
CONSTANTS
  Lambdas = {128, 192}
  Slots = {8, 16}
  Degrees = {2}
  Widths = {1, 8, 16}
INVARIANT ReadsWholeVector
