SPECIFICATION Spec
CONSTANTS
    CELLS = 3
    Structs <- MCStructs
    Asked = {1, 2}
INVARIANTS ShowsPhase
PROPERTIES ImplementsBlinkers
VIEW Live
