--------------------------- MODULE MCPretraining ---------------------------
(***************************************************************************)
(* Rows of four tokens and the next.  The Parquet corpus has an empty       *)
(* group, a file without groups, a document that fills a row and one that  *)
(* is longer than a row; the Markdown corpus has a file that cannot be     *)
(* read.                                                                   *)
(***************************************************************************)
EXTENDS Pretraining

MCCorpora == {
  [format |-> "parquet",
   files |-> << << >>, << <<2, 7>>, << >>, <<3, 5, 1>> >>, << <<4, 2>> >> >>],
  [format |-> "parquet", files |-> << << <<8, 6>> >> >>],
  [format |-> "markdown",
   files |-> << << <<3>> >>, << >>, << <<9>> >>, << <<2>> >> >>]}
=============================================================================
