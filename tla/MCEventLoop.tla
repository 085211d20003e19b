----------------------------- MODULE MCEventLoop -----------------------------
(* Two descriptors for clients, so that a third connection finds the limit *)
(* on open files and waits.                                                *)
EXTENDS EventLoop

MCMaxFd == 2
=============================================================================
