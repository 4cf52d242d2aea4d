---------------------------- MODULE MCCachePipeline ----------------------------
(***************************************************************************)
(* Instance of CachePipeline for TLC, and what the documentation says of   *)
(* a downloaded model where the code disagrees.                            *)
(***************************************************************************)
EXTENDS CachePipeline

-----------------------------------------------------------------------------
\* docs/api/07-cache-deploy-publish.md:44, "Downloaded | NodeModelCache.status=READY
\* on a Node": with no purge at work, a READY row means that the files are there,
\* however its purges went.
ReadyMeansDownloaded ==
    row.status = "READY" /\ (\A c \in Clients : req[c].pc \notin Deleting) => dir = "whole"
=============================================================================
