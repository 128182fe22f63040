---------------------------------- MODULE MCFat --------------------------------
(***************************************************************************)
(* Small volumes for TLC: /x.elf and, in the directory /boot of two         *)
(* clusters, k.elf, two or three clusters long, and the empty file e.elf.  *)
(***************************************************************************)
EXTENDS Fat, TLC

MCShortName ==
  ("boot" :> "BOOT") @@ ("k.elf" :> "K") @@ ("e.elf" :> "E") @@ ("x.elf" :> "X") @@ ("no.elf" :> "NO")

MCEnded == {"k.elf", "e.elf", "x.elf", "no.elf"}

MCFiles ==
  (<<"x.elf">> :> "X") @@ (<<"boot", "k.elf">> :> "K") @@ (<<"boot", "e.elf">> :> "E")

Missing == {<<"boot", "no.elf">>, <<"x.elf", "k.elf">>}

Gap == <<"", "", "">>

(* Clusters of one sector; the chains of /boot and k are interleaved. *)
SmallSectors ==
  0 :> Gap @@ 1 :> Gap @@ 2 :> Gap                               \* reserved, and the FATs
  @@ 3 :> <<"BOOT", "X", "">> @@ 4 :> Gap                        \* root directory
  @@ 5 :> <<"", "", "E">> @@ 7 :> <<"", "K", "">>                \* /boot
  @@ 8 :> <<"x1", "x2", "">>                                     \* /x.elf
  @@ 6 :> <<"k1", "k2", "k3">> @@ 10 :> <<"k4", "k5", "k6">>     \* /boot/k.elf
  @@ 9 :> <<"k7", "", "">>

SmallTable == 2 :> 4 @@ 4 :> End @@ 5 :> End @@ 3 :> 7 @@ 7 :> 6 @@ 6 :> End

SmallEntry ==
  ("BOOT" :> [dir |-> TRUE, first |-> 2, size |-> 0, chain |-> <<2, 4>>])
  @@ ("X" :> [dir |-> FALSE, first |-> 5, size |-> 2, chain |-> <<5>>])
  @@ ("K" :> [dir |-> FALSE, first |-> 3, size |-> 7, chain |-> <<3, 7, 6>>])
  @@ ("E" :> [dir |-> FALSE, first |-> 0, size |-> 0, chain |-> << >>])

SmallBoot ==
  [spc |-> 1, reserved |-> 1, fats |-> 2, entries |-> 6, total |-> 13, large |-> 0,
   spf |-> 1, spf32 |-> 0, rootCluster |-> 0]

Fat16 ==
  [bs |-> SmallBoot,
   sectors |-> SmallSectors, table |-> SmallTable, entry |-> SmallEntry,
   paths |-> DOMAIN MCFiles \cup Missing, files |-> MCFiles]

(* With two clusters less it is a FAT12 volume. *)
Fat12 == [Fat16 EXCEPT !.bs.total = 11]

(* Clusters of two sectors, the root directory in cluster 2.  Of a FAT32   *)
(* volume callers want only what is there: a search for anything else does *)
(* not end.                                                                *)
Fat32 ==
  [bs |-> [spc |-> 2, reserved |-> 2, fats |-> 1, entries |-> 0, total |-> 0, large |-> 20,
           spf |-> 0, spf32 |-> 2, rootCluster |-> 2],
   sectors |-> 0 :> Gap @@ 1 :> Gap @@ 2 :> Gap @@ 3 :> Gap      \* reserved, and the FAT
               @@ 4 :> <<"BOOT", "X", "">> @@ 5 :> Gap
               @@ 6 :> <<"", "", "E">> @@ 7 :> <<"K", "", "">>
               @@ 8 :> <<"x1", "x2", "">> @@ 9 :> Gap
               @@ 10 :> <<"k1", "k2", "k3">> @@ 11 :> <<"k4", "k5", "k6">>
               @@ 14 :> <<"k7", "", "">> @@ 15 :> Gap,
   table |-> 2 :> End @@ 3 :> End @@ 4 :> End @@ 5 :> 7 @@ 7 :> End,
   entry |-> ("BOOT" :> [dir |-> TRUE, first |-> 3, size |-> 0, chain |-> <<3>>])
             @@ ("X" :> [dir |-> FALSE, first |-> 4, size |-> 2, chain |-> <<4>>])
             @@ ("K" :> [dir |-> FALSE, first |-> 5, size |-> 7, chain |-> <<5, 7>>])
             @@ ("E" :> [dir |-> FALSE, first |-> 0, size |-> 0, chain |-> << >>]),
   paths |-> DOMAIN MCFiles, files |-> MCFiles]

MCVolumes == {Fat12, Fat16, Fat32}

ASSUME LimitsAssumption == \A v \in Volumes : WithinLimits(v)

================================================================================
