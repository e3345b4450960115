SPECIFICATION Spec
CONSTANTS
    b1 = b1  b2 = b2
    Bodies = {b1, b2}
    MaxRows = 3
    MaxDamage = 3
INVARIANTS HeadPinsHistory BlameIsNotEarly
CHECK_DEADLOCK FALSE
