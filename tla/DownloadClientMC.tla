-------------------------- MODULE DownloadClientMC --------------------------
(* Instances of DownloadClient for TLC.                                    *)
EXTENDS DownloadClient

\* The second version is shorter than what may have been downloaded of the first; the
\* third is longer than both.
MCSize == <<2, 1, 3>>
SmallSize == <<2, 1>>
=============================================================================
