------------------------------- MODULE Recorder -------------------------------
(***************************************************************************)
(* The append-only macro recorder of recorder/macros.rs and the encoded    *)
(* size it must stay in (validation/macros.rs).                            *)
(*                                                                         *)
(* A program is what the budget sees of it: `size`, the encoded size of    *)
(* all its events but for the wait after the last recorded one, which      *)
(* stays open until the next edge or the end of the recording closes it.   *)
(* A call that returns an error leaves recorder and draft as they were and *)
(* is no step.                                                             *)
(***************************************************************************)
EXTENDS Integers, FiniteSets

CONSTANTS
    Capabilities,   \* capabilities a backend may report
    Policies,       \* delay policies a caller may ask for
    Sizes,          \* sizes of a draft before it is recorded on
    Keys, Buttons,  \* the supported inputs: what identity() returns
    Times,          \* timestamps, in milliseconds (natural numbers)
    NoTime          \* no timestamp or wait: the None of an Option

VARIABLES
    caps,           \* the capabilities in force
    policy,         \* Recorder.policy
    size,
    last,           \* the timestamp of the last recorded event, or NoTime
    held,           \* the inputs recorded as pressed and not yet as released
    recording       \* the session holds a recorder

recorderVars == <<caps, policy, size, last, held, recording>>

Inputs == Keys \cup Buttons

Budget ==
    [min : Nat, max : Nat, limited : BOOLEAN, limit : Nat, overhead : Nat,
     key : Nat, button : Nat, inlineMin : Nat, inlineMax : Nat, extended : Nat]

\* What validate_capabilities asks of delays and budget.
ValidCapabilities(c) ==
    /\ c \in Budget
    /\ c.min <= c.max
    /\ c.limited => /\ c.overhead <= c.limit
                    /\ c.inlineMin <= c.inlineMax

DelayPolicy == [measured : BOOLEAN, terminal : Nat]

Supported(ms) == caps.min <= ms /\ ms <= caps.max

\* The bytes a wait adds to the event before it.
WaitCost(ms) ==
    IF caps.inlineMin <= ms /\ ms <= caps.inlineMax THEN 0 ELSE caps.extended

ActionCost(input) == IF input \in Keys THEN caps.key ELSE caps.button

\* validate_program, for a program of this encoded size.
Fits(bytes) == caps.limited => bytes <= caps.limit

Provisional == IF policy.measured THEN 0 ELSE policy.terminal

\* DelayPolicy::interval: None also when the clock has moved backwards.
Interval(now, at) ==
    IF ~policy.measured THEN policy.terminal
    ELSE IF at <= now /\ Supported(now - at) THEN now - at ELSE NoTime

LargestWait ==
    IF caps.limited /\ ~(caps.inlineMin <= caps.min /\ caps.min <= caps.inlineMax)
    THEN caps.min ELSE caps.max

\* append_releases: no wait after any release but the last.
ReleaseCost(inputs) ==
    IF inputs = {} THEN 0
    ELSE caps.key * Cardinality(inputs \cap Keys)
         + caps.button * Cardinality(inputs \ Keys)
         + WaitCost(0) * (Cardinality(inputs) - 1)
         + WaitCost(policy.terminal)

\* The wait kept free after the last event while these inputs are down.
Reserve(inputs) ==
    IF inputs # {} /\ policy.measured THEN LargestWait ELSE policy.terminal

\* The wait a stop puts after the last event.
StopWait(now) ==
    IF held = {} THEN policy.terminal
    ELSE IF Interval(now, last) = NoTime THEN 0 ELSE Interval(now, last)
-------------------------------------------------------------------------------
RecorderInit ==
    /\ caps \in {c \in Capabilities : ValidCapabilities(c)}
    /\ policy \in Policies
    /\ size = 0
    /\ last = NoTime
    /\ held = {}
    /\ recording = FALSE

\* Recorder::new, on a draft edited in any way since the last recording.
Start(p, bytes) ==
    /\ ~recording
    /\ p \in DelayPolicy
    /\ bytes \in Nat
    /\ caps.limited => caps.overhead <= bytes /\ bytes <= caps.limit
    /\ Supported(0)
    /\ Supported(p.terminal)
    /\ ~p.measured => p.terminal > 0
    /\ recording' = TRUE
    /\ policy' = p
    /\ size' = bytes
    /\ last' = NoTime
    /\ held' = {}
    /\ UNCHANGED caps

\* Recorder::transition: an edge that is no duplicate closes the wait before it.
Transition(input, pressed, now) ==
    LET delay == IF last = NoTime THEN 0 ELSE Interval(now, last)
        bytes == size + (IF last = NoTime THEN 0 ELSE WaitCost(delay)) + ActionCost(input)
        down  == IF pressed THEN held \cup {input} ELSE held \ {input}
    IN  /\ recording
        /\ (input \in held) # pressed
        /\ delay # NoTime
        /\ last # NoTime => Supported(delay)
        /\ Fits(bytes + WaitCost(Provisional))
        /\ Fits(bytes + WaitCost(Reserve(down)) + ReleaseCost(down))
        /\ size' = bytes
        /\ held' = down
        /\ last' = now
        /\ UNCHANGED <<caps, policy, recording>>

\* What stop() validates.
Stoppable(now) ==
    last # NoTime =>
        /\ Supported(StopWait(now))
        /\ Supported(policy.terminal)
        /\ held # {} => Supported(0)
        /\ Fits(size + WaitCost(StopWait(now)) + ReleaseCost(held))

\* Recorder::stop: the recorder goes, its draft stays.
Stop(now) ==
    /\ recording
    /\ Stoppable(now)
    /\ recording' = FALSE
    /\ size' = IF last = NoTime THEN size
               ELSE size + WaitCost(StopWait(now)) + ReleaseCost(held)
    /\ last' = NoTime
    /\ held' = {}
    /\ UNCHANGED <<caps, policy>>

RecorderNext ==
    \/ \E p \in Policies, bytes \in Sizes : Start(p, bytes)
    \/ \E input \in Inputs, pressed \in BOOLEAN, now \in Times :
           Transition(input, pressed, now)
    \/ \E now \in Times : Stop(now)

RecorderSpec == RecorderInit /\ [][RecorderNext]_recorderVars
-------------------------------------------------------------------------------
\* No recording gets stuck (recorder/macros.rs, stop): whatever was recorded and
\* whenever the stop comes, even by a clock that went backwards, its last wait
\* and the releases of all inputs still down are in the limits of the backend.
StopNeverRefused == recording => \A now \in Times : Stoppable(now)
===============================================================================
