----------------------------- MODULE MCDesktop -----------------------------
(***************************************************************************)
(* Desktop for TLC.                                                        *)
(***************************************************************************)
EXTENDS DesktopSafety

\* Keyboards and workers that come and go, and the activities that hold a
\* window open; together they are a state space ten times the sum of these.
LinkAndWindow ==
  {{"unplug", "panic"}, {"edit", "appearance"}, {"edit", "save", "file", "host", "recording"}}
RecordingInstances == {{"edit", "save", "host", "recording"}}
=============================================================================
