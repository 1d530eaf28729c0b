------------------------- MODULE MCSupervisedTuning -------------------------
(***************************************************************************)
(* Rows of four tokens and the next: a line that does not parse, two short *)
(* conversations, one that fills a row, and one too long for any.          *)
(***************************************************************************)
EXTENDS SupervisedTuning

MCLines == {[length |-> 0, supervised |-> {}],
            [length |-> 2, supervised |-> {2}],
            [length |-> 3, supervised |-> {2, 3}],
            [length |-> 5, supervised |-> {3, 5}],
            [length |-> 6, supervised |-> {6}]}
=============================================================================
