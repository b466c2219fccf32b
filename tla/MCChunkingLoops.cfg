\* Any normalized text of up to 12 characters.
CONSTANTS
    MaxChars = 6
    Overlap = 2
    MaxLen = 12
SPECIFICATION Spec
PROPERTIES
    Terminates
CHECK_DEADLOCK FALSE
