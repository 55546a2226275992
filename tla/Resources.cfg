\* A template with each schema, applied with each set of parameters.
SPECIFICATION Spec
CONSTANTS
    None = None
    NoResource = NoResource
    NoSchema = NoSchema
    Accepted <- ValidateParameters
    Ids = {r1, empty}
    Empty = empty
    Contents <- MCContents
    Malformed = Malformed
    Requests <- MCRequests
    Appliers = {a1}
    EnableValidation = TRUE
INVARIANTS
    RegistrySound
    ValidationExact
    OrderMakesNoDifference
\* The template has been applied.
CHECK_DEADLOCK FALSE
