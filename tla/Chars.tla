-------------------------------- MODULE Chars --------------------------------
(***************************************************************************)
(* The characters that the code names.  Others are strings of length one.  *)
(***************************************************************************)
LF  == "\n"
CR  == "\r"
NUL == "nul"

(* What memory holds before anything is written. *)
Junk == "junk"

=============================================================================
