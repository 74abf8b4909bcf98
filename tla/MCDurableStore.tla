--------------------------- MODULE MCDurableStore ---------------------------
EXTENDS DurableStore, TLC
CONSTANTS composite, single, look
\* A composite mutation, one that writes a single row, one that writes none.
MCParts == (composite :> 2) @@ (single :> 1) @@ (look :> 0)
=============================================================================
