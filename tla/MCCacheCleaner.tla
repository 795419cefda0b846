--------------------------- MODULE MCCacheCleaner ---------------------------
(* Small instances of CacheCleaner for TLC. *)
EXTENDS CacheCleaner

CONSTANTS u1, u2, a, b

\* Any two entries are too much for a cache of size 2.
OneSize(h) == IF h = a THEN {1} ELSE {2}
=============================================================================
