--------------------------- MODULE MCDownloadFile ---------------------------
(***************************************************************************)
(* DownloadFile for TLC.  A byte of the model stands for half a write      *)
(* buffer: CURL_MAX_WRITE_SIZE = 2, a roll back of 7 and a package of 18   *)
(* leave room for two fsyncs between two roll backs.                       *)
(***************************************************************************)
EXTENDS DownloadFile
=============================================================================
