-------------------------------- MODULE MCBoot --------------------------------
(* Texts with and without a line end, one of them too long for a row. *)
EXTENDS Boot

MCTexts == {<<"a", NewLine>>, <<"b">>, <<"a", "b", "a", NewLine, "b">>}
===============================================================================
