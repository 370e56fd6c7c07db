---------------------------- MODULE MCPullWorker ----------------------------
(***************************************************************************)
(* Model-checking instances of PullWorker.                                 *)
(***************************************************************************)
EXTENDS PullWorker

JpegOnly == {"jpg"}
RawJpeg  == {"arw", "jpg"}
=============================================================================
