CONSTANTS
    None = None
    PageWidth = 6
    Width = 4
    Edge = 0
    Lock = 1
    Flick = 1
    Targets = {"frame", "page", "backdrop"}
SPECIFICATION Spec
INVARIANTS
    DragIsHeld
PROPERTIES
    GestureGoesItsWay
