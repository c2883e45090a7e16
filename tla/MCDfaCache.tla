----------------------------- MODULE MCDfaCache -----------------------------
(***************************************************************************)
(* Two servers of two builds, and a table of three chunks: enough for a    *)
(* file that is torn behind its header.                                    *)
(***************************************************************************)
EXTENDS DfaCache, TLC

MCServers == {"s1", "s2"}
MCBuilds == {"monday", "tuesday"}
=============================================================================
