---------------------------- MODULE MCGraphEdits ----------------------------
EXTENDS GraphEdits

Kinds == {"Add"}
=============================================================================
