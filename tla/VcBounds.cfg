SPECIFICATION Spec
CONSTANTS
  Lambdas = {128, 192, 256}
  Custom <- MCCustom
INVARIANT ShiftDefined
