--------------------------- MODULE MCObservation ---------------------------
(***************************************************************************)
(* Observation for TLC, with its liveness properties.                      *)
(***************************************************************************)
EXTENDS ObservationSafety

MCValues == [f \in Loaded |-> IF f = "Lighting" THEN {"perkey", "steady"} ELSE {"old", "new"}]

Blocked == app.activity \/ app.connection = 0 \/ ManuallyRead(app) \/ ReadFailed(app)

\* Every queued feature leaves the queue: it is read, or passed over, unless an
\* activity, a failure or a conflict stands in the way
\* (app.rs, subscription and continue_observation).
QueueDrains ==
  (app.observation.remaining # <<>>) ~> (app.observation.remaining = <<>> \/ Blocked)

\* "Idle scans notice removal": a keyboard that is gone for good ends the
\* connection.
RemovalNoticed ==
  (~plugged /\ app.connection # 0) ~> (plugged \/ app.connection = 0 \/ app.activity)
=============================================================================
