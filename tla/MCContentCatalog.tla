--------------------------- MODULE MCContentCatalog ---------------------------
(* Small instances of ContentCatalog. *)
EXTENDS ContentCatalog

MCPaths == {"p", "q"}
MCBytes == {"b1", "b2"}
MCResources == {"r"}
=============================================================================
