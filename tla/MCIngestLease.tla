---------------------------- MODULE MCIngestLease ----------------------------
(***************************************************************************)
(* Two app instances (a deployment replacing one by the other) and one     *)
(* backfill script.  One unit of time is about eight minutes: a lease of 8 *)
(* units, calls of up to one, downloads and ingest of up to 2.             *)
(***************************************************************************)
EXTENDS IngestLease

CONSTANTS app1, app2, script

MCApps    == {app1, app2}
MCScripts == {script}
=============================================================================
