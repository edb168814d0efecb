-------------------------------- MODULE MCOta --------------------------------
EXTENDS OtaUpdate
\* Two pages with files of six and four bytes: three full chunks, and two full and an empty one.
MCPages == {"p", "q"}
MCSize == [p |-> 6, q |-> 4]
=============================================================================
