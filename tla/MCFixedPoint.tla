---------------------------- MODULE MCFixedPoint ----------------------------
(***************************************************************************)
(* Registers of eight bits, words of four, immediates of two.  The operand *)
(* values are the ends and middles of each width, signed and unsigned.     *)
(***************************************************************************)
EXTENDS FixedPoint

Edge == {0, 1, 2, 7, 8, 9, 15, 16, 24, 127, 128, 129, 240, 248, 255}
MCInstr == UNION {
  [op : XOForms, a : Edge, b : Edge, oe : {FALSE}, rc : BOOLEAN],
  [op : XOForms, a : {8}, b : {1}, oe : {TRUE}, rc : BOOLEAN],
  [op : XForms \ {"srawi", "sraw", "srd", "slw", "srw"}, a : Edge, b : Edge, rc : BOOLEAN],
  [op : {"sraw", "srd", "slw", "srw"}, a : Edge, b : 0 .. 18, rc : BOOLEAN],
  [op : {"srawi"}, a : Edge, b : 0 .. 3, rc : BOOLEAN],
  [op : DForms, a : Edge, b : 0 .. 3],
  [op : MForms, a : {9, 6, 240}, old : {0, 255, 90}, sh : 0 .. 3, mb : 0 .. 3, me : 0 .. 3, rc : {TRUE}],
  [op : MDForms, a : {9, 182}, old : {255, 90}, sh : 0 .. 7, mb : 0 .. 7, rc : {TRUE}]}
==============================================================================
