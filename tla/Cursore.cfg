\* Sets of up to 3 rows; an int32_t of the model reaches 4, so that a jump can
\* overflow.  The model ends where a read is undefined behaviour.
SPECIFICATION Spec
CONSTANTS
  MaxRighe = 3
  MaxIntero = 4
INVARIANTS CursoreTypeOK Sincrono RelativoEquivale UnaSolaPosizione
PROPERTY Implementa
CHECK_DEADLOCK FALSE
