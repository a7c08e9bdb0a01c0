CONSTANTS
    Widths <- MCWidths
    Heights <- MCHeights
    TileW = 4
    TileH = 4
    Pads <- MCPads
SPECIFICATION Spec
INVARIANTS TypeOK TilesMatchImage CodecWritesInBounds
CHECK_DEADLOCK FALSE
