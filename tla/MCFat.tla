------------------------------- MODULE MCFat --------------------------------
(* Three drives of two cylinders with two heads of four sectors, a fourth  *)
(* that is looked for.  A sector has eight bytes, so that the entry of     *)
(* cluster 5 is in both sectors of the table; a cluster has two sectors,   *)
(* the first one before the end of cylinder 0.  One disk has a file of     *)
(* three clusters that are not in order, across both cylinders, and one of *)
(* a single full cluster; another disk has a file of two; the third has an *)
(* empty file, whose chain begins with what stands for cluster 0.          *)
EXTENDS Fat, TLC

MCMaxDrives == 4
MCPresent == {0, 1, 2}
MCSectorsPerHead == 4
MCCylinders == 2
MCSizeWrap == 128
MCRequest == {q \in [block : 0 .. 15, count : 1 .. 4] :
                (q.block % 4) + q.count <= 4}
MCReserved == (0 :> 4080) @@ (1 :> 4095)
MCLink == [d \in MCPresent |->
  CASE d = 0 -> MCReserved @@ (5 :> 2) @@ (2 :> 6) @@ (6 :> 4095) @@ (4 :> 4088)
    [] d = 1 -> MCReserved @@ (2 :> 3) @@ (3 :> 4095)
    [] d = 2 -> MCReserved]
MCDirectory == [d \in MCPresent |->
  CASE d = 0 -> <<[first |-> 5, size |-> 37], [first |-> 4, size |-> 16]>>
    [] d = 1 -> <<[first |-> 2, size |-> 20]>>
    [] d = 2 -> <<[first |-> 0, size |-> 0]>>]
=============================================================================
