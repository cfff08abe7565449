--------------------------- MODULE MCPkgDecryptor ---------------------------
(***************************************************************************)
(* Blocks of two bytes, a buffer of three blocks, and a counter of four    *)
(* binary digits that starts just below a carry and wraps on the way.      *)
(***************************************************************************)
EXTENDS PkgDecryptor

Plan(no, nl, fo, fs, d) ==
  [nameOffset |-> no, nameLength |-> nl, fileOffset |-> fo, fileSize |-> fs, dir |-> d]

MCRiv == <<1, 0, 1, 1>>
MCPackage ==
  {<<Plan(8, nl, fo, fs, FALSE), Plan(12, 2, 14, gs, FALSE)>> :
     nl \in {1, 4}, fo \in {14, 15}, fs \in 0 .. 14, gs \in {0, 3, 6, 7, 12}}
    \cup {<<>>, <<Plan(8, 3, 0, 0, TRUE), Plan(12, 1, 14, 8, FALSE)>>}
==============================================================================
