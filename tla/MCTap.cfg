SPECIFICATION Spec
CONSTANTS
    IR_LENGTH = 3
    DR_LENGTH = 2
    REG_IDCODE <- Ir010
    REG_USERCODE <- Ir011
    REG_USER <- Ir000
    IR_VAL <- Ir100
    IDCODE_VAL <- Code10
    USERCODE_VAL <- Code00
    USER_VAL <- Code01
    INT_BITS = 4
    WORD_BITS = 8
    Beyond <- ModInt
    MaxBits = 4
INVARIANTS StatesAgree ScanThrough InstructionKnown VariantsAgree UserScan SnifferKnows
