---------------------------- MODULE MCNetWorkPack ----------------------------
(* Every byte once, and pairs of bytes that differ in either half.          *)
EXTENDS NetWorkPack

MCBodies == {<<b>> : b \in Byte} \cup [1..2 -> {0, 4, 64, 250}]
=============================================================================
