SPECIFICATION WireSpec
CONSTANTS
    Types <- AllTypes
    FieldsOf <- AllFields
    Inputs <- InputsOf
    Group = 128
    Word = 1048576
    Narrow = 1024
    Groups = 3
    Damaged = {"coin", "disclosure", "governance"}
INVARIANT RoundTrip
PROPERTY Terminates
CHECK_DEADLOCK FALSE
