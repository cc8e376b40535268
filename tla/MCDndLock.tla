----------------------------- MODULE MCDndLock -----------------------------
EXTENDS DndLock
=============================================================================
