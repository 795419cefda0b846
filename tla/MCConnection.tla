---------------------------- MODULE MCConnection ----------------------------
(* A small instance of Connection: two I/O workers, a client of two commands. *)
EXTENDS Connection

MCHandlers == {"queue", "async", "sync", "reject", "overload"}
=============================================================================
