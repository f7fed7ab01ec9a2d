SPECIFICATION JogSpec
CONSTANTS
    Directions = {forward, left}
    None = None
INVARIANTS
    HeldOrUnheard
    JogUnderControl
    JogReturns
