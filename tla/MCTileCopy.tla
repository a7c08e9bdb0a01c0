---------------------------- MODULE MCTileCopy ----------------------------
(* Captures of 4 or 6 pixels a side cut into 4x4 tiles: the grid has one *)
(* or two rows and columns, and the last ones are cropped.                *)
EXTENDS TileCopy

MCWidths == {4, 6}
MCHeights == {2, 6}
MCPads == {0, 2}
=============================================================================
