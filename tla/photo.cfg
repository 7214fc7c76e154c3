\* read_photo on every 3x2 photo over four pixel values, with two level-4
\* colours so that nodes compete and ties are broken by qsort; then every
\* line of 2 pixels the scroller can ask for, with three objects drawn.
CONSTANTS
    WIDTH = 3
    HEIGHT = 2
    PixelValues <- MCPixelValues
    LEVEL4_CHOSEN = 2
    SCROLL_X_DIM = 2
    SCROLL_Y_DIM = 2
    OBJ_CLR_TRANSP <- MCTransp
    Objects <- MCObjects
SPECIFICATION Spec
\* read_photo returns once; nothing follows it in this model.
CHECK_DEADLOCK FALSE
INVARIANTS
    TypeOK
    ShownIsAverage
    MostFrequentChosen
    LinesShowScene
