----------------------------- MODULE MCBrowser -----------------------------
(***************************************************************************)
(* Browser for TLC, with the liveness property of the page.                *)
(***************************************************************************)
EXTENDS BrowserSafety

\* Activities that meet each other; all at once are too many states for a run.
PageInstances ==
  {{"host", "unplug"}, {"edit", "host"}, {"edit", "unplug"},
   {"record", "notice"}, {"receiver", "record", "unplug"}, {"refuse"}}
TeardownInstances == {{"refuse", "unplug"}}

\* A disconnection and a connection being set up come to an end, again and again;
\* so does a recording that waits for a cancelled catalog, unless it may wait for
\* an executor left at work beside the connected one.
WaitsEnd ==
  /\ []<>(page.closing = "No")
  /\ []<>(page.task \in {"None", "Choosing"})
  /\ []<>(page.recorder = 0 \/ left # {})
=============================================================================
