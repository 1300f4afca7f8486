----------------------------- MODULE MCSession -----------------------------
(* SessionMemory with texts of one to four bytes, whole and cut characters.  *)
EXTENDS SessionMemory

MCKeys == AutoKeys \cup {"k", "long"}
MCLongKeys == {"long"}
MCTexts == {<<"a">>, <<"a", "x1">>, <<"a", "nl">>, <<"x1", "x2", "x3", "a">>}
MCUrls == {<<"a", "x1">>}
=============================================================================
