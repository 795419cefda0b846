------------------------- MODULE MCCompilationCache -------------------------
(* Small instances of CompilationCache for TLC. *)
EXTENDS CompilationCache, TLC

CONSTANTS j1, j2

=============================================================================
