------------------------------ MODULE MCLoader ------------------------------
(***************************************************************************)
(* Disks for the boot loader: the kernel in one piece, in pieces, in a     *)
(* cluster whose entry straddles two sectors of the allocation table, as   *)
(* long as fits below the loader, longer, empty, deleted, deleted with its *)
(* cluster in another file's chain, with another attribute, behind another *)
(* file, and not there.                                                    *)
(***************************************************************************)
EXTENDS Loader

System == 7
Archive == 32

Entry(attr, chain, size) ==
  [attr |-> attr, kernel |-> TRUE, deleted |-> FALSE, chain |-> chain, size |-> size]
Other(e) == [e EXCEPT !.kernel = FALSE]

Text == Other(Entry(Archive, <<3, 5>>, 800))
Himem == Other(Entry(System, <<6>>, 12))
OneSector == Entry(System, <<2>>, 512)
Pieces == Entry(System, <<340, 341, 4, 2000, 1999>>, 2050)
Last == Entry(System, <<2839, 2840>>, 1023)
Longest == Entry(System, [i \in 1 .. 54 |-> i + 9], 27648)
TooLong == Entry(System, [i \in 1 .. 55 |-> i + 9], 27649)
Archived == Entry(System + Archive, <<2>>, 512)
Empty == Entry(System, << >>, 0)
Deleted == [OneSector EXCEPT !.chain = <<1300>>, !.deleted = TRUE]
Reused == [OneSector EXCEPT !.chain = <<341>>, !.deleted = TRUE]

Floppies == {<<Text, OneSector>>, <<Pieces, Text>>, <<Last>>, <<Longest>>, <<TooLong>>,
             <<Archived, Text>>, <<Empty, Text>>, <<Deleted, Pieces>>, <<Reused, Pieces>>,
             <<Himem, Pieces>>, << >>}

InSecond == <<Last>>
=============================================================================
