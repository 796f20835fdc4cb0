----------------------------- MODULE MCMessages -----------------------------
(* Lists of up to two elements are read, and lists of three are sent; the   *)
(* elements set or zero in every order that matters.                        *)
EXTENDS Messages

MCPatterns == {<<>>, <<TRUE>>, <<FALSE, TRUE>>, <<TRUE, TRUE, TRUE>>}
=============================================================================
