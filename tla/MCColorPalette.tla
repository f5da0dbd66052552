--------------------------- MODULE MCColorPalette ---------------------------
(* Indices on both sides of every boundary the accessors know: 8, 16, 256  *)
(* and 264.                                                                *)
EXTENDS ColorPalette

MCIndices == (0..17) \cup (253..266)
====
