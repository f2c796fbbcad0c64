--------------------------- MODULE BrowserSafety ---------------------------
(***************************************************************************)
(* The safety properties of the page.                                      *)
(***************************************************************************)
EXTENDS Browser

AtWork(c) ==
  LET x == page.executors[c] IN x.at # "idle" \/ x.foreground # <<>> \/ x.catalogs # <<>>
Owns(c) == c = page.connects /\ (Connected(page) \/ page.closing \in {"Listener", "Executor"})

\* A keyboard is used by one connection at a time: an executor with a job is
\* the connected one, or the last one while its disconnection is not over
\* (runtime.mjs, connect and disconnect; executor.mjs, close).  The one exception
\* is an executor left at work by a listener that refused to be closed.
OneConnectionAtDevice == \A c \in Connections : AtWork(c) => Owns(c) \/ c \in left

\* "Device close waits for outstanding browser I/O to settle, preventing a new
\* session from overlapping the old one" (docs/webhid-browser.md:155-157).
NoSessionOverlap == \A c \in Connections : AtWork(c) /\ Connected(page) => c = page.generation

\* Lighting presented as verified is what the keyboard shows, whatever ended a
\* save, host lighting or the previous connection (runtime.mjs, host.mjs and
\* byakko-web/src/host.rs).  An executor left at work may write behind it.
ReadyIsTrue ==
  left = {} /\ Connected(page) /\ Ready(page.lighting) /\ ~Writing(page) /\ page.hosting = "Idle" =>
    page.lighting.baseline = Snapshot(keyboard.shown)

\* Disconnecting by hand leaves no save in flight, and leaves host lighting
\* started over this connection on the keyboard only if it was read back and
\* shown (disconnect in runtime.mjs).
LosesNothing ==
  Connected(page) /\ ~Connected(page') /\ ~page'.force =>
    /\ ~Writing(page) /\ page.hosting = "Idle"
    /\ keyboard.shown = page.generation =>
         Ready(page.lighting) /\ page.lighting.baseline = Snapshot(keyboard.shown)
DisconnectLosesNothing == [][LosesNothing]_vars
=============================================================================
