---------------------------- MODULE MCStreamInstall ----------------------------
(***************************************************************************)
(* The streamed install of a package of three bytes through a buffer of    *)
(* two: a full block, the last partial one, a record point that overflows, *)
(* two attempts, and one restart or one failure of curl_easy_init.         *)
(***************************************************************************)
EXTENDS StreamInstall

=============================================================================
