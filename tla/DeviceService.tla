--------------------------- MODULE DeviceService ---------------------------
(***************************************************************************)
(* What an executor promises about the finite requests it accepts: each is *)
(* answered at most once, an answer says whether the device was touched,   *)
(* and a request that was answered never touches it afterwards.            *)
(***************************************************************************)
CONSTANTS Requests, None

\* "Rejected" promises that no call was made; "Executed" carries the result of
\* the request's own call; "Scanned" that of a complete catalog scan; "Ended"
\* is a scan that was cancelled, replaced, invalidated or failed.
Outcomes == {"Rejected", "Executed", "Scanned", "Ended"}

VARIABLES
  accepted,  \* requests taken from the client
  started,   \* requests whose first device call has begun
  answer     \* answer[r]: the outcome delivered for r, or None

vars == <<accepted, started, answer>>

Init ==
  /\ accepted = {}
  /\ started = {}
  /\ answer = [r \in Requests |-> None]

Submit(r) ==
  /\ r \notin accepted
  /\ accepted' = accepted \cup {r}
  /\ UNCHANGED <<started, answer>>

Start(r) ==
  /\ r \in accepted \ started
  /\ answer[r] = None
  /\ started' = started \cup {r}
  /\ UNCHANGED <<accepted, answer>>

Answer(r, outcome) ==
  /\ r \in accepted
  /\ answer[r] = None
  /\ outcome = "Rejected" => r \notin started
  /\ outcome \in {"Executed", "Scanned"} => r \in started
  /\ answer' = [answer EXCEPT ![r] = outcome]
  /\ UNCHANGED <<accepted, started>>

Next ==
  \E r \in Requests :
    \/ Submit(r)
    \/ Start(r)
    \/ \E outcome \in Outcomes : Answer(r, outcome)

Spec == Init /\ [][Next]_vars
=============================================================================
