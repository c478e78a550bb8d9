--------------------------- MODULE MCPeerAddress ----------------------------
(***************************************************************************)
(* PeerAddress with names that are unset, blank, one word, two words in    *)
(* either order, and two words that are the same but for the blank.        *)
(***************************************************************************)
EXTENDS PeerAddress

MCNames == {<< >>, <<" ">>, <<"a">>, <<"b">>, <<"a", " ", "b">>, <<"b", " ", "a">>, <<"a", "b">>}
=============================================================================
