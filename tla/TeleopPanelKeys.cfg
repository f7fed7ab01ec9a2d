SPECIFICATION JogSpec
CONSTANTS
    Directions = {forward, left}
    None = None
INVARIANT HoldToMove
