\* 32 and 33 have handlers, 5 has none, 256 lies behind the table; 5 and 256
\* also make irq_ack address the slave PIC.
SPECIFICATION Spec
CONSTANTS
    IntNos = {5, 32, 33, 256}
    MaxKeys = 3
INVARIANT RightHandler
