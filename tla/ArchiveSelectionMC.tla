------------------------- MODULE ArchiveSelectionMC -------------------------
(* Instances of ArchiveSelection for TLC.                                  *)
EXTENDS ArchiveSelection

\* Days of four ticks; months of two, three, one and one days.
MCMonthStart == <<0, 8, 20, 24, 28>>

\* Files at the last and the first tick of months and around the borders of days.
MCFile == {3, 7, 8, 12, 19, 20, 22, 24}

MCRanges == {[start |-> s, end |-> e] : s \in {8, 12}, e \in {16, 20, 24}}
MCUnits  == {<<"day", 1>>, <<"day", 2>>, <<"month", 1>>, <<"month", 2>>}
=============================================================================
