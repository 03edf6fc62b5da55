--------------------------- MODULE MCImportAnalysis ---------------------------
(* Small instances of ImportAnalysis. *)
EXTENDS ImportAnalysis

(* Two chunks quote the same fact, and two facts have one identity. *)
TwoQuotes == [i \in Chunks |-> IF i = 1 THEN {1} ELSE {1, 2}]
OneGroup  == [f \in Facts |-> 1]
(* One chunk, which quotes the only fact. *)
OneQuote  == [i \in Chunks |-> {1}]
=============================================================================
