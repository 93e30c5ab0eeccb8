SPECIFICATION Spec
CONSTANTS
    Keys = {k1, k2}
    MaxData = 1
    Null = Null
    Undefined = Undefined
PROPERTY MissingStrReturnsFalse
