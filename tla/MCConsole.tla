----------------------------- MODULE MCConsole -----------------------------
(* A screen of four characters, with parameters that reach before it, into *)
(* it and beyond it in both directions.                                    *)
EXTENDS Console

=============================================================================
