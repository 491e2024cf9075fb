SPECIFICATION Spec
CONSTANTS
  Preempt = FALSE
  Split = FALSE
  BSIZE = 4
  MaxBytes = 12
INVARIANTS
  IndInv
PROPERTIES
  InOrder
  SilenceIsReal
  IsPort
\* WaitByte may always be called again, so no state is without a step.
