---------------------------- MODULE MCUpdateLoop ----------------------------
(* The update loop with small numbers of sources, runs and rejections. *)
EXTENDS UpdateLoop

\* Sources and contents are numbers: their order is the manifest's.
MCSources == 1 .. 2
MCOneSource == {1}
MCContents == {0, 1}

\* Without and with explicit retries.
MCNoRetry == {None}
MCRetries == (Sources \X Contents) \cup {None}
=============================================================================
