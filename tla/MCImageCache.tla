---------------------------- MODULE MCImageCache ----------------------------
(***************************************************************************)
(* Three calls for one logo of two chunks: c1 and c2 in job1's process, v  *)
(* in the vietnamworks process.                                            *)
(***************************************************************************)
EXTENDS ImageCache, TLC

MCCallers == {"c1", "c2", "v"}
MCProcesses == {"job1", "vietnamwork"}
MCProcessOf == "c1" :> "job1" @@ "c2" :> "job1" @@ "v" :> "vietnamwork"
============================================================================
