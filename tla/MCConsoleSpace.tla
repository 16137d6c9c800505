--------------------------- MODULE MCConsoleSpace ---------------------------
(* ConsoleSpace for TLC: few ids, so that few requests use them up.        *)
EXTENDS ConsoleSpace

MCMaxIds == [spaces |-> 2, subjects |-> 3, reports |-> 4]
=============================================================================
