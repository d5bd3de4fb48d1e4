----------------------------- MODULE MCYfsPlain -----------------------------
(***************************************************************************)
(* One client.  One name begins with the other and looks like a number;    *)
(* neither is the end of the other.  Numbers of one and of two digits, one *)
(* more than there are names, for the file a dead client leaves behind.    *)
(***************************************************************************)
EXTENDS YfsPlain

MCName == {<<"8">>, <<"8", "b">>}
MCInum == {Root, 8, 10, 11}
=============================================================================
