------------------------------ MODULE MCBattle ------------------------------
(* A superblock of three blocks; its Merkle root is also that of the list  *)
(* that repeats the last of them.                                          *)
EXTENDS BattleTask

CONSTANTS b1, b2, b3

MCHashLists == {<<b1, b2, b3>>, <<b1, b2, b3, b3>>}
=============================================================================
