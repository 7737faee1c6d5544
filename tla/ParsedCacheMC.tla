---------------------------- MODULE ParsedCacheMC ----------------------------
(* Instances of ParsedCache for TLC.                                       *)
EXTENDS ParsedCache

\* Version 1 goes back in time and has two messages of the same time; it takes two
\* blocks of two.  Version 2 has messages at the borders of the second range.
MCContent == <<<<2, 1, 2>>, <<1, 3>>>>
MCRanges  == {[start |-> 0, end |-> 9], [start |-> 1, end |-> 3]}
=============================================================================
