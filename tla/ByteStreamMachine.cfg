SPECIFICATION Spec
CONSTANTS
  Capacity = 4
  MaxBytes = 6
INVARIANTS
  TypeOK
  Tiling
  ReadNeverThrows
  ReadExact
PROPERTIES
  CallsReturn
  ImplementsPipe
