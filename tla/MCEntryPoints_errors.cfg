CONSTANTS
    Undefined = Undefined
SPECIFICATION Spec
INVARIANT ErrorClassesRecognised
