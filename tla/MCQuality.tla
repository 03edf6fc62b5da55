------------------------------- MODULE MCQuality -------------------------------
(* A small instance of Quality: two chapters, and three texts of which one  *)
(* is blank, so that a candidate, an edit and a mixture may differ.  No      *)
(* property tells one text that is not blank from another.                   *)
EXTENDS Quality, TLC

CONSTANTS t1, t2

TwoChapters == {1, 2}
SmallTexts  == {Blank, t1, t2}
Symmetry    == Permutations({t1, t2})
=============================================================================
