--------------------------- MODULE MC_RssRequest ---------------------------
(* RssRequest for TLC: apps of one and of two parts.                       *)
EXTENDS RssRequest

AppNames == {<<"live">>, <<"live", "/", "hd">>, <<>>}
=============================================================================
