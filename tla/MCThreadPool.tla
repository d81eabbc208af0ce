---------------------------- MODULE MCThreadPool ----------------------------
(* Two workers and two clients: a task may be taken while another one       *)
(* fails, and a wait may begin while the other client submits.              *)
EXTENDS ThreadPool
=============================================================================
