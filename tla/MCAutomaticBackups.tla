--------------------------- MODULE MCAutomaticBackups ---------------------------
(* A small instance of AutomaticBackups: the scheduler and one page. *)
EXTENDS AutomaticBackups

CONSTANTS scheduler, page, free

TwoThreads == {scheduler, page}
OneOrTwo   == {1, 2}
=============================================================================
