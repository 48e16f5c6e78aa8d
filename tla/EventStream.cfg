SPECIFICATION Spec
CONSTANTS
    Inputs <- InputsValue
    Pieces = {1, 2, 3, 4}
    Data = data
    Comment = colon
    Cr = cr
    Lf = lf
    NoContent = nocontent
    DoneMark = done
    Malformed = malformed
PROPERTIES
    ImplementsPieceSource
CHECK_DEADLOCK FALSE
