----------------------------- MODULE MCListing -----------------------------
(***************************************************************************)
(* An instance of Listing for TLC.                                         *)
(***************************************************************************)
EXTENDS Listing

\* Two rows are the reader's, and another two have a title that is searched for.
MineIs == {1, 3}
MatchingIs == {2, 3}
AllTables == DOMAIN Lists
=============================================================================
