CONSTANTS
    LINE_MAX = 2
    MaxIndex = 3
SPECIFICATION Spec
INVARIANT BufferTranslated
