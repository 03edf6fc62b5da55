------------------------------ MODULE MCChapters ------------------------------
(* A small instance of Chapters: a blank text and another one, and each of *)
(* the author's pages and the executor free to stop anywhere.              *)
EXTENDS Chapters

SmallTexts == {0, 1}
=============================================================================
