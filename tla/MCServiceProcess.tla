------------------------- MODULE MCServiceProcess -------------------------
(* Two processor threads; a client opens two windows after the one of        *)
(* vtest_egl_init, and either a window loses its surface or a thread wakes   *)
(* up without a notification, once.                                          *)
EXTENDS ServiceProcess
=============================================================================
