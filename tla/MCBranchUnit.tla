---------------------------- MODULE MCBranchUnit ----------------------------
(***************************************************************************)
(* Registers of three bits: two code addresses, CTR of eight values, LR of *)
(* the link addresses and two more.  All BO but for the hint bit, a bit  *)
(* of CR logic and a bit of a compare; compares of every pair of edges;    *)
(* mtocrf with the sources it moves into the right field: none, and less.  *)
(***************************************************************************)
EXTENDS BranchUnit

MCBO == {2 * n : n \in 0 .. 15} \cup {15}
MCInstr == UNION {
  [op : {"bc"}, bo : MCBO, bi : {0, 6}, bd : {1, 3}, aa : BOOLEAN, lk : BOOLEAN],
  [op : {"bclr"}, bo : MCBO, bi : {0, 6}, lk : BOOLEAN],
  [op : {"bcctr"}, bo : {4, 6, 12, 14, 20, 21, 28}, bi : {0, 6}, lk : BOOLEAN],
  [op : {"b"}, li : {1, 4, 7}, aa : BOOLEAN, lk : BOOLEAN],
  [op : {"cmp", "cmpl", "cmpi", "cmpli"}, bf : {1}, l : {0, 1}, a : {0, 1, 4, 7},
   b : {0, 1, 3, 6}, so : BOOLEAN],
  [op : {"crnor", "cror", "crorc", "crnand"}, bt : {0}, ba : {0}, bb : {6}],
  [op : {"mtspr"}, hi : {0}, lo : {8}, a : {0, 7}],
  [op : {"mtspr"}, hi : {0}, lo : {1, 9}, a : {1, 7}],
  [op : {"mfspr"}, hi : {0}, lo : {8, 9}],
  [op : {"mftb"}, tbr : {268, 269}],
  [op : {"mfcr", "mtcrf"}],
  [op : {"mtocrf"}, fxm : {{0}, {1}}, a : {{}}],
  [op : {"mtocrf"}, fxm : {{0}}, a : {{2, 7}}],
  [op : {"mtocrf"}, fxm : {{1}}, a : {{5, 7}}]}

ASSUME MCInstrConforms == \A i \in MCInstr : Conforms(i)

(* Moves between a general register and the eight fields of a whole CR. *)
MCMoves == UNION {
  [op : {"mtocrf"}, fxm : {{n} : n \in 0 .. 7}, a : {{}, {28}, {24, 27}, 0 .. 31}],
  [op : {"mfcr"}],
  [op : {"cmpi"}, bf : {0, 7}, l : {1}, a : {0}, b : {0, 1}, so : {FALSE}]}
==============================================================================
