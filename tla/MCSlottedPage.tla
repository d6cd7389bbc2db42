--------------------------- MODULE MCSlottedPage ---------------------------
(***************************************************************************)
(* A page of a dozen bytes for TLC, and the records put in it.  Bytes 1    *)
(* and 2 tell records apart; 0 is the byte a page is cleared with.         *)
(***************************************************************************)
EXTENDS SlottedPage

ShortRecords == {<<1>>, <<2>>, <<0, 1>>, <<2, 2, 1>>}

=============================================================================
