----------------------- MODULE RecorderStorageProofs -----------------------
(***************************************************************************)
(* The two components that stand alone.                                    *)
(*                                                                         *)
(* A recording can always be stopped. The recorder admits an edge only     *)
(* when the largest possible wait and the releases of all inputs then down *)
(* still fit; the invariant says that this room is kept until the next     *)
(* edge, and the lemma on waits that no stop needs more.                   *)
(*                                                                         *)
(* The local files, for any number of programs that save, load and end at  *)
(* any time, and whatever directory they find.                             *)
(***************************************************************************)
EXTENDS Recorder, Storage, FiniteSetTheorems, TLAPS

-----------------------------------------------------------------------------
(* The macro recorder. *)

\* The room that transition() keeps free.
Reserved ==
    recording /\ last # NoTime =>
        Fits(size + WaitCost(Reserve(held)) + ReleaseCost(held))

RecorderInv ==
    /\ ValidCapabilities(caps)
    /\ size \in Nat
    /\ IsFiniteSet(held)
    /\ last \in Times \cup {NoTime}
    /\ recording => /\ policy \in DelayPolicy
                    /\ Supported(0)
                    /\ Supported(policy.terminal)
    /\ Reserved

\* A wait costs a number of bytes.
LEMMA WaitCostType ==
    ASSUME ValidCapabilities(caps), NEW ms
    PROVE  WaitCost(ms) \in Nat
  BY DEF ValidCapabilities, Budget, WaitCost

\* No supported wait costs more than largest_wait_cost(): when the shortest one
\* is encoded inline, a longer one is not exactly if it is beyond the inline
\* range, and then the longest is beyond it too.
LEMMA LargestWaitCosts ==
    ASSUME ValidCapabilities(caps), caps.limited,
           NEW ms \in Nat, Supported(ms)
    PROVE  WaitCost(ms) <= WaitCost(LargestWait)
  BY DEF ValidCapabilities, Budget, WaitCost, LargestWait, Supported

\* The releases of finitely many inputs cost a number of bytes.
LEMMA ReleaseCostType ==
    ASSUME ValidCapabilities(caps), NEW inputs, IsFiniteSet(inputs)
    PROVE  ReleaseCost(inputs) \in Nat
<1>1. CASE inputs = {}
  BY <1>1 DEF ReleaseCost
<1>2. CASE inputs # {}
  <2> DEFINE keys == Cardinality(inputs \cap Keys)
             buttons == Cardinality(inputs \ Keys)
             all == Cardinality(inputs)
  <2>1. keys \in Nat /\ buttons \in Nat /\ all \in Nat
    BY FS_CardinalityType, FS_Subset
  <2>2. all # 0
    BY <1>2, FS_EmptySet
  <2>3. WaitCost(0) \in Nat /\ WaitCost(policy.terminal) \in Nat
    BY WaitCostType
  <2>4. caps.key \in Nat /\ caps.button \in Nat
    BY DEF ValidCapabilities, Budget
  <2>5. \A a, b \in Nat : a * b \in Nat
    OBVIOUS
  <2>6. caps.key * keys \in Nat /\ caps.button * buttons \in Nat
    BY <2>1, <2>4, <2>5
  <2>7. WaitCost(0) * (all - 1) \in Nat
    <3>1. all - 1 \in Nat
      BY <2>1, <2>2
    <3> QED BY <3>1, <2>3, <2>5
  <2>8. ReleaseCost(inputs) = caps.key * keys + caps.button * buttons
                              + WaitCost(0) * (all - 1) + WaitCost(policy.terminal)
    BY <1>2 DEF ReleaseCost
  <2> HIDE DEF keys, buttons, all
  <2> QED BY <2>3, <2>6, <2>7, <2>8
<1> QED BY <1>1, <1>2

\* Any interval the recorder accepts is a supported wait, and a fixed one is the
\* terminal wait.
LEMMA IntervalSupported ==
    ASSUME Times \subseteq Nat, ValidCapabilities(caps),
           policy \in DelayPolicy, Supported(policy.terminal),
           NEW now \in Times, NEW then \in Times
    PROVE  Interval(now, then) # NoTime =>
               /\ Interval(now, then) \in Nat
               /\ Supported(Interval(now, then))
               /\ ~policy.measured => Interval(now, then) = policy.terminal
<1>1. policy.measured \in BOOLEAN /\ policy.terminal \in Nat
  BY DEF DelayPolicy
<1>2. CASE ~policy.measured
  BY <1>1, <1>2 DEF Interval
<1>3. CASE policy.measured
  <2>1. then <= now => now - then \in Nat
    OBVIOUS
  <2>2. Interval(now, then) = IF then <= now /\ Supported(now - then) THEN now - then ELSE NoTime
    BY <1>3 DEF Interval
  <2> QED BY <2>1, <2>2, <1>3
<1> QED BY <1>1, <1>2, <1>3

\* The room kept for the last wait and the releases is room enough to stop.
LEMMA ReservedSuffices ==
    ASSUME Times \subseteq Nat, NoTime \notin Nat, RecorderInv
    PROVE  StopNeverRefused
<1> SUFFICES ASSUME recording, NEW now \in Times, last # NoTime
             PROVE  /\ Supported(StopWait(now))
                    /\ Supported(policy.terminal)
                    /\ held # {} => Supported(0)
                    /\ Fits(size + WaitCost(StopWait(now)) + ReleaseCost(held))
  BY DEF StopNeverRefused, Stoppable
<1>1. last \in Times
  BY DEF RecorderInv
<1>2. policy \in DelayPolicy /\ Supported(0) /\ Supported(policy.terminal)
  BY DEF RecorderInv
<1>3. ValidCapabilities(caps) /\ size \in Nat /\ IsFiniteSet(held)
  BY DEF RecorderInv
<1>4. StopWait(now) \in Nat /\ Supported(StopWait(now))
  BY <1>1, <1>2, <1>3, IntervalSupported DEF StopWait, DelayPolicy
<1>5. CASE ~caps.limited
  BY <1>2, <1>4, <1>5 DEF Fits
<1>6. CASE caps.limited
  <2>1. WaitCost(StopWait(now)) <= WaitCost(Reserve(held))
    <3>1. CASE held # {} /\ policy.measured
      BY <3>1, <1>3, <1>4, <1>6, LargestWaitCosts DEF Reserve
    <3>2. CASE held # {} /\ ~policy.measured
      <4>1. policy.terminal \in Nat
        BY <1>2 DEF DelayPolicy
      <4>2. Interval(now, last) = policy.terminal
        BY <3>2 DEF Interval
      <4>3. StopWait(now) = policy.terminal
        BY <3>2, <4>1, <4>2 DEF StopWait
      <4> QED BY <4>3, <3>2, <1>3, WaitCostType DEF Reserve
    <3>3. CASE held = {}
      BY <3>3, <1>3, WaitCostType DEF StopWait, Reserve
    <3> QED BY <3>1, <3>2, <3>3
  <2>2. size + WaitCost(Reserve(held)) + ReleaseCost(held) <= caps.limit
    BY <1>6 DEF RecorderInv, Reserved, Fits
  <2>3. WaitCost(StopWait(now)) \in Nat /\ WaitCost(Reserve(held)) \in Nat
    BY <1>3, WaitCostType
  <2>4. ReleaseCost(held) \in Nat /\ caps.limit \in Nat
    BY <1>3, ReleaseCostType DEF ValidCapabilities, Budget
  <2>5. size + WaitCost(StopWait(now)) + ReleaseCost(held) <= caps.limit
    BY <1>3, <2>1, <2>2, <2>3, <2>4
  <2> QED BY <1>2, <1>4, <2>5 DEF Fits
<1> QED BY <1>5, <1>6

\* An edge that transition() admits leaves the room it has checked for.
LEMMA TransitionKeepsRoom ==
    ASSUME Times \subseteq Nat, RecorderInv,
           NEW input \in Inputs, NEW pressed \in BOOLEAN, NEW now \in Times,
           Transition(input, pressed, now)
    PROVE  RecorderInv'
<1> DEFINE delay == IF last = NoTime THEN 0 ELSE Interval(now, last)
           total == size + (IF last = NoTime THEN 0 ELSE WaitCost(delay)) + ActionCost(input)
           down  == IF pressed THEN held \cup {input} ELSE held \ {input}
<1>1. /\ recording
      /\ Fits(total + WaitCost(Reserve(down)) + ReleaseCost(down))
      /\ size' = total
      /\ held' = down
      /\ last' = now
      /\ UNCHANGED <<caps, policy, recording>>
  BY DEF Transition
<1>2. ValidCapabilities(caps)'
  BY <1>1 DEF RecorderInv, ValidCapabilities
<1>3. size' \in Nat
  <2>1. ActionCost(input) \in Nat
    BY DEF RecorderInv, ValidCapabilities, Budget, ActionCost
  <2>2. WaitCost(delay) \in Nat
    BY WaitCostType DEF RecorderInv
  <2>3. size \in Nat
    BY DEF RecorderInv
  <2> HIDE DEF delay
  <2> QED BY <1>1, <2>1, <2>2, <2>3
<1>4. IsFiniteSet(held)'
  BY <1>1, FS_AddElement, FS_RemoveElement DEF RecorderInv
<1>5. (recording => policy \in DelayPolicy /\ Supported(0) /\ Supported(policy.terminal))'
  BY <1>1 DEF RecorderInv, Supported
<1>6. Reserved'
  <2> HIDE DEF delay, total, down
  <2> QED BY <1>1 DEF Reserved, Fits, WaitCost, Reserve, ReleaseCost, LargestWait
<1> QED BY <1>1, <1>2, <1>3, <1>4, <1>5, <1>6 DEF RecorderInv

\* The room is never given away.
LEMMA RecorderInvariant ==
    ASSUME Times \subseteq Nat
    PROVE  RecorderSpec => []RecorderInv
<1>1. RecorderInit => RecorderInv
  BY FS_EmptySet DEF RecorderInit, RecorderInv, Reserved
<1>2. RecorderInv /\ [RecorderNext]_recorderVars => RecorderInv'
  <2> SUFFICES ASSUME RecorderInv, [RecorderNext]_recorderVars PROVE RecorderInv'
    OBVIOUS
  <2>1. ASSUME NEW p \in Policies, NEW total \in Sizes, Start(p, total)
        PROVE  RecorderInv'
    BY <2>1, FS_EmptySet DEF Start, RecorderInv, Reserved, ValidCapabilities, Supported
  <2>2. ASSUME NEW input \in Inputs, NEW pressed \in BOOLEAN, NEW now \in Times,
               Transition(input, pressed, now)
        PROVE  RecorderInv'
    BY <2>2, TransitionKeepsRoom
  <2>3. ASSUME NEW now \in Times, Stop(now)
        PROVE  RecorderInv'
    <3>1. size' \in Nat
      <4>1. WaitCost(StopWait(now)) \in Nat /\ ReleaseCost(held) \in Nat /\ size \in Nat
        BY WaitCostType, ReleaseCostType DEF RecorderInv
      <4> QED BY <2>3, <4>1 DEF Stop
    <3>2. ValidCapabilities(caps)'
      BY <2>3 DEF Stop, RecorderInv, ValidCapabilities
    <3> QED BY <2>3, <3>1, <3>2, FS_EmptySet DEF Stop, RecorderInv, Reserved
  <2>4. CASE UNCHANGED recorderVars
    BY <2>4 DEF recorderVars, RecorderInv, Reserved, ValidCapabilities, Supported, Fits,
                WaitCost, Reserve, ReleaseCost, LargestWait
  <2> QED BY <2>1, <2>2, <2>3, <2>4 DEF RecorderNext
<1> QED BY <1>1, <1>2, PTL DEF RecorderSpec

\* A recording can be stopped at any time (recorder/macros.rs, stop), whatever
\* the capabilities, the policy, the draft it began on and the edges recorded.
THEOREM StopSucceeds ==
    ASSUME Times \subseteq Nat, NoTime \notin Nat
    PROVE  RecorderSpec => []StopNeverRefused
<1>1. RecorderInv => StopNeverRefused
  BY ReservedSuffices
<1> QED BY <1>1, RecorderInvariant, PTL

-----------------------------------------------------------------------------
(* The local files. *)


Steps(j) ==
    IF j \in Saves THEN {"None", "Write", "List", "Listing", "Publish", "Answer", "Ok", "Failed"}
    ELSE IF j \in Loads THEN {"None", "List", "Listing", "Open", "Answer", "Ok", "Failed"}
    ELSE IF j \in Exports THEN {"None", "Write", "Answer", "Ok", "Failed"}
    ELSE {"None", "Write", "Rename", "Answer", "Ok", "Failed"}

TypeInv ==
    /\ at = [j \in Jobs |-> at[j]]
    /\ \A j \in Jobs : at[j] \in Steps(j)
    /\ bytes \in [Jobs -> {"None", "Torn", "Whole"}]
    /\ newest \in [Jobs -> Nat]
    /\ before \in [Jobs -> SUBSET Jobs]
    /\ DOMAIN labels \subseteq Nat \ {0}

\* Steps at which the file of a job is written and synced.
Synced == {"List", "Listing", "Publish", "Rename", "Answer", "Ok"}
\* Steps at which a job may have given its file a name.
Naming == {"Answer", "Ok", "Failed"}

\* A number, the preferences or a path lead to a file found there or to that of
\* a job that has given it this name, and a label save gives one name.
NamesInv ==
    /\ \A j \in Jobs \ Loads : at[j] \in Synced => bytes[j] = "Whole"
    /\ \A n \in DOMAIN labels :
         \/ labels[n] \in {Old, Damaged}
         \/ /\ labels[n] \in Saves
            /\ at[labels[n]] \in Naming
            /\ bytes[labels[n]] = "Whole"
    /\ \A m, n \in DOMAIN labels : labels[m] = labels[n] /\ labels[n] \in Saves => m = n
    /\ \A j \in Saves : at[j] \in {"Answer", "Ok"} => \E n \in DOMAIN labels : labels[n] = j
    /\ \A j \in Exports :
         at[j] \in {"Write", "Answer", "Ok"} => \E p \in DOMAIN exports : exports[p] = j
    /\ \/ appearance \in {None, Old}
       \/ /\ appearance \in Appearances
          /\ at[appearance] \in Naming
          /\ bytes[appearance] = "Whole"

\* A call keeps its kind.
LEMMA Kinds ==
  ASSUME NEW j \in Jobs
  PROVE  /\ j # Old /\ j # Damaged /\ j # None
         /\ j \in Saves => j \notin Loads /\ j \notin Exports /\ j \notin Appearances
         /\ j \in Loads => j \notin Saves /\ j \notin Exports /\ j \notin Appearances
         /\ j \in Exports => j \notin Saves /\ j \notin Loads /\ j \notin Appearances
         /\ j \in Appearances => j \notin Saves /\ j \notin Loads /\ j \notin Exports
  BY KindsApart DEF Jobs

\* A step that gives no name away and writes no named file.
LEMMA Moves ==
  ASSUME TypeInv, NamesInv, NEW j \in Jobs, NEW step \in Steps(j), NEW content,
         Goes(j, step), bytes' = [bytes EXCEPT ![j] = content], UNCHANGED names,
         j \notin Loads /\ step \in Synced => content = "Whole",
         at[j] \in Naming => step \in Naming /\ content = bytes[j],
         j \in Saves /\ step \in {"Answer", "Ok"} => at[j] \in {"Answer", "Ok"},
         j \in Exports /\ step \in {"Write", "Answer", "Ok"} => at[j] \in {"Write", "Answer", "Ok"}
  PROVE  NamesInv'
<1>0. UNCHANGED <<labels, exports, appearance>>
  BY DEF names
<1>j. /\ at'[j] = step /\ bytes'[j] = content
      /\ \A k \in Jobs \ {j} : at'[k] = at[k] /\ bytes'[k] = bytes[k]
  BY DEF Goes, TypeInv
<1>1. \A k \in Jobs \ Loads : at'[k] \in Synced => bytes'[k] = "Whole"
  BY <1>j DEF NamesInv
<1>2. \A n \in DOMAIN labels :
        \/ labels[n] \in {Old, Damaged}
        \/ labels[n] \in Saves /\ at'[labels[n]] \in Naming /\ bytes'[labels[n]] = "Whole"
  BY <1>j DEF NamesInv, Jobs
<1>3. \A k \in Saves : at'[k] \in {"Answer", "Ok"} => \E n \in DOMAIN labels : labels[n] = k
  BY <1>j DEF NamesInv, Jobs
<1>4. \A k \in Exports :
        at'[k] \in {"Write", "Answer", "Ok"} => \E p \in DOMAIN exports : exports[p] = k
  BY <1>j DEF NamesInv, Jobs
<1>5. \/ appearance \in {None, Old}
      \/ appearance \in Appearances /\ at'[appearance] \in Naming /\ bytes'[appearance] = "Whole"
  BY <1>j DEF NamesInv, Jobs
<1> QED
  BY <1>0, <1>1, <1>2, <1>3, <1>4, <1>5 DEF NamesInv

\* The types, whatever the step does.
LEMMA TypesStep ==
  ASSUME TypeInv, NEW j \in Jobs, NEW step \in Steps(j), Goes(j, step),
         bytes' = bytes \/ \E content \in {"Torn", "Whole"} : bytes' = [bytes EXCEPT ![j] = content],
         newest' = newest \/ \E n \in Nat : newest' = [newest EXCEPT ![j] = n],
         before' = before \/ before' = [before EXCEPT ![j] = Acknowledged],
         DOMAIN labels' \subseteq Nat \ {0}
  PROVE  TypeInv'
<1>1. at' = [k \in Jobs |-> at'[k]] /\ \A k \in Jobs : at'[k] \in Steps(k)
  BY DEF TypeInv, Goes
<1>2. bytes' \in [Jobs -> {"None", "Torn", "Whole"}] /\ newest' \in [Jobs -> Nat]
  BY DEF TypeInv
<1>3. before' \in [Jobs -> SUBSET Jobs]
  BY DEF TypeInv, Acknowledged
<1> QED BY <1>1, <1>2, <1>3 DEF TypeInv, Steps

\* The types and the names in every state.
LEMMA NamesStep ==
  ASSUME TypeInv, NamesInv, [Next]_vars PROVE TypeInv' /\ NamesInv'
<1>1. CASE UNCHANGED vars
  BY <1>1 DEF TypeInv, NamesInv, vars, Steps
<1>2. ASSUME NEW j \in Jobs, CreatePending(j) PROVE TypeInv' /\ NamesInv'
  <2>1. "Write" \in Steps(j) /\ at[j] = "None"
    BY <1>2, Kinds DEF CreatePending, Begin, Steps
  <2>2. TypeInv'
    BY <1>2, <2>1, TypesStep DEF CreatePending, Begin, names, TypeInv
  <2>3. NamesInv'
    BY <1>2, <2>1, Moves, Kinds DEF CreatePending, Begin, Synced, Naming
  <2> QED BY <2>2, <2>3
<1>3. ASSUME NEW j \in Jobs, NEW path \in Paths, CreateExport(j, path)
      PROVE  TypeInv' /\ NamesInv'
  <2>1. {"Write", "Failed"} \subseteq Steps(j) /\ at[j] = "None" /\ j \in Exports
    BY <1>3, Kinds DEF CreateExport, Begin, Steps
  <2>2. TypeInv'
    BY <1>3, <2>1, TypesStep DEF CreateExport, Begin, TypeInv
  <2>3. CASE path \in DOMAIN exports
    <3>1. bytes' = [bytes EXCEPT ![j] = bytes[j]]
      BY <1>3, <2>3 DEF CreateExport, TypeInv
    <3> QED BY <1>3, <2>1, <2>2, <2>3, <3>1, Moves, Kinds DEF CreateExport, Begin, Synced, Naming, names
  <2>4. CASE path \notin DOMAIN exports
    <3>1. /\ at'[j] = "Write" /\ \A k \in Jobs \ {j} : at'[k] = at[k] /\ bytes'[k] = bytes[k]
          /\ UNCHANGED <<labels, appearance>>
      BY <1>3, <2>4 DEF CreateExport, Goes, TypeInv
    <3>2. exports'[path] = j /\ path \in DOMAIN exports'
      BY <1>3, <2>4 DEF CreateExport, Named
    <3>3. \A p \in DOMAIN exports : p \in DOMAIN exports' /\ exports'[p] = exports[p]
      BY <1>3, <2>4 DEF CreateExport, Named
    <3>4. \A k \in Exports : at'[k] \in {"Write", "Answer", "Ok"} =>
            \E p \in DOMAIN exports' : exports'[p] = k
      BY <3>1, <3>2, <3>3 DEF NamesInv, Jobs
    <3>5. \A k \in Jobs \ Loads : at'[k] \in Synced => bytes'[k] = "Whole"
      BY <3>1 DEF NamesInv, Synced
    <3>6. \A k \in Saves \cup Appearances : at'[k] = at[k] /\ bytes'[k] = bytes[k]
      BY <2>1, <3>1, Kinds DEF Jobs
    <3>7. \A n \in DOMAIN labels' :
            \/ labels'[n] \in {Old, Damaged}
            \/ labels'[n] \in Saves /\ at'[labels'[n]] \in Naming /\ bytes'[labels'[n]] = "Whole"
      BY <3>1, <3>6 DEF NamesInv
    <3>8. \/ appearance' \in {None, Old}
          \/ /\ appearance' \in Appearances
             /\ at'[appearance'] \in Naming
             /\ bytes'[appearance'] = "Whole"
      BY <3>1, <3>6 DEF NamesInv
    <3>9. \A k \in Saves : at'[k] \in {"Answer", "Ok"} => \E n \in DOMAIN labels' : labels'[n] = k
      BY <3>1, <3>6 DEF NamesInv
    <3>10. \A m, n \in DOMAIN labels' : labels'[m] = labels'[n] /\ labels'[n] \in Saves => m = n
      BY <3>1 DEF NamesInv
    <3> QED BY <2>2, <3>4, <3>5, <3>7, <3>8, <3>9, <3>10 DEF NamesInv
  <2> QED BY <2>2, <2>3, <2>4
<1>4. ASSUME NEW j \in Jobs, BeginLoad(j) PROVE TypeInv' /\ NamesInv'
  <2>1. PICK step \in Steps(j) : Goes(j, step) /\ at[j] = "None" /\ j \in Loads
    BY <1>4, Kinds DEF BeginLoad, Begin, Steps, TypeInv, Jobs
  <2>2. bytes' = [bytes EXCEPT ![j] = bytes[j]] /\ UNCHANGED names
    BY <1>4 DEF BeginLoad, TypeInv
  <2>3. TypeInv'
    BY <1>4, <2>1, TypesStep DEF BeginLoad, Begin, names, TypeInv
  <2>4. /\ j \notin Loads /\ step \in Synced => bytes[j] = "Whole"
        /\ at[j] \in Naming => step \in Naming
        /\ j \in Saves /\ step \in {"Answer", "Ok"} => at[j] \in {"Answer", "Ok"}
        /\ j \in Exports /\ step \in {"Write", "Answer", "Ok"} => at[j] \in {"Write", "Answer", "Ok"}
    BY <1>4, <2>1, Kinds DEF BeginLoad, Begin, Synced, Naming, TypeInv, NamesInv
  <2>5. NamesInv'
    BY <2>1, <2>2, <2>4, Moves
  <2> QED BY <2>3, <2>5
<1>5. ASSUME NEW j \in Jobs, Write(j) PROVE TypeInv' /\ NamesInv'
  <2> DEFINE step == IF j \in Saves THEN "List" ELSE IF j \in Appearances THEN "Rename" ELSE "Answer"
  <2>1. step \in Steps(j) /\ at[j] = "Write" /\ j \notin Loads
    BY <1>5, Kinds DEF Write, Steps, TypeInv, Jobs
  <2>2. TypeInv'
    BY <1>5, <2>1, TypesStep DEF Write, names, TypeInv
  <2>3. NamesInv'
    BY <1>5, <2>1, Moves, Kinds DEF Write, Synced, Naming
  <2> QED BY <2>2, <2>3
<1>6. ASSUME NEW j \in Jobs, WriteFails(j) PROVE TypeInv' /\ NamesInv'
  <2>1. PICK step \in Steps(j) : Goes(j, step) /\ step = "Failed" /\ at[j] = "Write"
    BY <1>6, Kinds DEF WriteFails, Steps, TypeInv, Jobs
  <2>2. bytes' = [bytes EXCEPT ![j] = bytes[j]] /\ UNCHANGED names
    BY <1>6 DEF WriteFails, TypeInv
  <2>3. TypeInv'
    BY <1>6, <2>1, TypesStep DEF WriteFails, names, TypeInv
  <2>4. /\ j \notin Loads /\ step \in Synced => bytes[j] = "Whole"
        /\ at[j] \in Naming => step \in Naming
        /\ j \in Saves /\ step \in {"Answer", "Ok"} => at[j] \in {"Answer", "Ok"}
        /\ j \in Exports /\ step \in {"Write", "Answer", "Ok"} => at[j] \in {"Write", "Answer", "Ok"}
    BY <1>6, <2>1, Kinds DEF WriteFails, Synced, Naming, TypeInv, NamesInv
  <2>5. NamesInv'
    BY <2>1, <2>2, <2>4, Moves
  <2> QED BY <2>3, <2>5
<1>7. ASSUME NEW j \in Jobs, NEW number \in {0} \cup DOMAIN labels, List(j, number) PROVE TypeInv' /\ NamesInv'
  <2>1. PICK step \in Steps(j) : Goes(j, step) /\ step = "Listing" /\ at[j] = "List"
    BY <1>7, Kinds DEF List, Steps, TypeInv, Jobs
  <2>2. bytes' = [bytes EXCEPT ![j] = bytes[j]] /\ UNCHANGED names
    BY <1>7 DEF List, TypeInv
  <2>3. TypeInv'
    BY <1>7, <2>1, TypesStep DEF List, names, TypeInv
  <2>4. /\ j \notin Loads /\ step \in Synced => bytes[j] = "Whole"
        /\ at[j] \in Naming => step \in Naming
        /\ j \in Saves /\ step \in {"Answer", "Ok"} => at[j] \in {"Answer", "Ok"}
        /\ j \in Exports /\ step \in {"Write", "Answer", "Ok"} => at[j] \in {"Write", "Answer", "Ok"}
    BY <1>7, <2>1, Kinds DEF List, Synced, Naming, TypeInv, NamesInv
  <2>5. NamesInv'
    BY <2>1, <2>2, <2>4, Moves
  <2> QED BY <2>3, <2>5
<1>8. ASSUME NEW j \in Jobs, NEW number \in {newest[j]} \cup DOMAIN labels, Listed(j, number) PROVE TypeInv' /\ NamesInv'
  <2>1. PICK step \in Steps(j) : Goes(j, step) /\ step \in {"Open", "Publish", "Failed"} /\ at[j] = "Listing"
    BY <1>8, Kinds DEF Listed, Steps, TypeInv, Jobs
  <2>2. bytes' = [bytes EXCEPT ![j] = bytes[j]] /\ UNCHANGED names
    BY <1>8 DEF Listed, TypeInv
  <2>3. TypeInv'
    BY <1>8, <2>1, TypesStep DEF Listed, names, TypeInv
  <2>4. /\ j \notin Loads /\ step \in Synced => bytes[j] = "Whole"
        /\ at[j] \in Naming => step \in Naming
        /\ j \in Saves /\ step \in {"Answer", "Ok"} => at[j] \in {"Answer", "Ok"}
        /\ j \in Exports /\ step \in {"Write", "Answer", "Ok"} => at[j] \in {"Write", "Answer", "Ok"}
    BY <1>8, <2>1, Kinds DEF Listed, Synced, Naming, TypeInv, NamesInv
  <2>5. NamesInv'
    BY <2>1, <2>2, <2>4, Moves
  <2> QED BY <2>3, <2>5
<1>9. ASSUME NEW j \in Jobs, Beaten(j) PROVE TypeInv' /\ NamesInv'
  <2>1. PICK step \in Steps(j) : Goes(j, step) /\ step \in {"List", "Failed"} /\ at[j] = "Publish" /\ j \in Saves
    BY <1>9, Kinds DEF Beaten, Steps, TypeInv, Jobs
  <2>2. bytes' = [bytes EXCEPT ![j] = bytes[j]] /\ UNCHANGED names
    BY <1>9 DEF Beaten, TypeInv
  <2>3. TypeInv'
    BY <1>9, <2>1, TypesStep DEF Beaten, names, TypeInv
  <2>4. /\ j \notin Loads /\ step \in Synced => bytes[j] = "Whole"
        /\ at[j] \in Naming => step \in Naming
        /\ j \in Saves /\ step \in {"Answer", "Ok"} => at[j] \in {"Answer", "Ok"}
        /\ j \in Exports /\ step \in {"Write", "Answer", "Ok"} => at[j] \in {"Write", "Answer", "Ok"}
    BY <1>9, <2>1, Kinds DEF Beaten, Synced, Naming, TypeInv, NamesInv
  <2>5. NamesInv'
    BY <2>1, <2>2, <2>4, Moves
  <2> QED BY <2>3, <2>5
<1>10. ASSUME NEW j \in Jobs, Open(j) PROVE TypeInv' /\ NamesInv'
  <2>1. PICK step \in Steps(j) : Goes(j, step) /\ step \in {"Answer", "Failed"} /\ at[j] = "Open" /\ j \in Loads
    BY <1>10, Kinds DEF Open, Steps, TypeInv, Jobs
  <2>2. bytes' = [bytes EXCEPT ![j] = bytes[j]] /\ UNCHANGED names
    BY <1>10 DEF Open, TypeInv
  <2>3. TypeInv'
    BY <1>10, <2>1, TypesStep DEF Open, names, TypeInv
  <2>4. /\ j \notin Loads /\ step \in Synced => bytes[j] = "Whole"
        /\ at[j] \in Naming => step \in Naming
        /\ j \in Saves /\ step \in {"Answer", "Ok"} => at[j] \in {"Answer", "Ok"}
        /\ j \in Exports /\ step \in {"Write", "Answer", "Ok"} => at[j] \in {"Write", "Answer", "Ok"}
    BY <1>10, <2>1, Kinds DEF Open, Synced, Naming, TypeInv, NamesInv
  <2>5. NamesInv'
    BY <2>1, <2>2, <2>4, Moves
  <2> QED BY <2>3, <2>5
<1>11. ASSUME NEW j \in Jobs, Answer(j) PROVE TypeInv' /\ NamesInv'
  <2>1. PICK step \in Steps(j) : Goes(j, step) /\ step = "Ok" /\ at[j] = "Answer"
    BY <1>11, Kinds DEF Answer, Steps, TypeInv, Jobs
  <2>2. bytes' = [bytes EXCEPT ![j] = bytes[j]] /\ UNCHANGED names
    BY <1>11 DEF Answer, TypeInv
  <2>3. TypeInv'
    BY <1>11, <2>1, TypesStep DEF Answer, names, TypeInv
  <2>4. /\ j \notin Loads /\ step \in Synced => bytes[j] = "Whole"
        /\ at[j] \in Naming => step \in Naming
        /\ j \in Saves /\ step \in {"Answer", "Ok"} => at[j] \in {"Answer", "Ok"}
        /\ j \in Exports /\ step \in {"Write", "Answer", "Ok"} => at[j] \in {"Write", "Answer", "Ok"}
    BY <1>11, <2>1, Kinds DEF Answer, Synced, Naming, TypeInv, NamesInv
  <2>5. NamesInv'
    BY <2>1, <2>2, <2>4, Moves
  <2> QED BY <2>3, <2>5
<1>12. ASSUME NEW j \in Jobs, StepFails(j) PROVE TypeInv' /\ NamesInv'
  <2>1. PICK step \in Steps(j) : Goes(j, step) /\ step = "Failed" /\ at[j] \notin Naming \ {"Answer"}
    BY <1>12, Kinds DEF StepFails, Steps, Naming, Jobs
  <2>2. bytes' = [bytes EXCEPT ![j] = bytes[j]] /\ UNCHANGED names
    BY <1>12 DEF StepFails, TypeInv
  <2>3. TypeInv'
    BY <1>12, <2>1, TypesStep DEF StepFails, names, TypeInv
  <2>4. /\ j \notin Loads /\ step \in Synced => bytes[j] = "Whole"
        /\ at[j] \in Naming => step \in Naming
        /\ j \in Saves /\ step \in {"Answer", "Ok"} => at[j] \in {"Answer", "Ok"}
        /\ j \in Exports /\ step \in {"Write", "Answer", "Ok"} => at[j] \in {"Write", "Answer", "Ok"}
    BY <1>12, <2>1, Kinds DEF StepFails, Synced, Naming, TypeInv, NamesInv
  <2>5. NamesInv'
    BY <2>1, <2>2, <2>4, Moves
  <2> QED BY <2>3, <2>5
<1>13. ASSUME NEW j \in Jobs, ProgramEnds(j) PROVE TypeInv' /\ NamesInv'
  <2>1. PICK step \in Steps(j) : Goes(j, step) /\ step = "Failed"
    BY <1>13, Kinds DEF ProgramEnds, Running, Steps, TypeInv, Jobs
  <2>2. bytes' = [bytes EXCEPT ![j] = bytes[j]] /\ UNCHANGED names
    BY <1>13 DEF ProgramEnds, TypeInv
  <2>3. TypeInv'
    BY <1>13, <2>1, TypesStep DEF ProgramEnds, Running, names, TypeInv
  <2>4. /\ j \notin Loads /\ step \in Synced => bytes[j] = "Whole"
        /\ at[j] \in Naming => step \in Naming
        /\ j \in Saves /\ step \in {"Answer", "Ok"} => at[j] \in {"Answer", "Ok"}
        /\ j \in Exports /\ step \in {"Write", "Answer", "Ok"} => at[j] \in {"Write", "Answer", "Ok"}
    BY <1>13, <2>1, Kinds DEF ProgramEnds, Running, Synced, Naming, TypeInv, NamesInv
  <2>5. NamesInv'
    BY <2>1, <2>2, <2>4, Moves
  <2> QED BY <2>3, <2>5
<1>14. ASSUME NEW j \in Jobs, Publish(j) PROVE TypeInv' /\ NamesInv'
  <2>1. j \in Saves /\ "Answer" \in Steps(j) /\ at[j] = "Publish"
    BY <1>14, Kinds DEF Publish, Steps, TypeInv
  <2>2. DOMAIN labels' = DOMAIN labels \cup {NextNumber(j)} /\ NextNumber(j) \in Nat \ {0}
    BY <1>14 DEF Publish, Named, NextNumber, TypeInv
  <2>3. TypeInv'
    BY <1>14, <2>1, <2>2, TypesStep DEF Publish, TypeInv
  <2>4. /\ at'[j] = "Answer" /\ \A k \in Jobs \ {j} : at'[k] = at[k]
        /\ UNCHANGED <<bytes, exports, appearance>>
    BY <1>14 DEF Publish, Goes, TypeInv
  <2>5. labels'[NextNumber(j)] = j /\ \A n \in DOMAIN labels : labels'[n] = labels[n]
    BY <1>14 DEF Publish, Named
  <2>6. bytes[j] = "Whole" /\ \A n \in DOMAIN labels : labels[n] # j
    BY <2>1, Kinds DEF NamesInv, Synced, Naming
  <2>7. \A k \in Exports \cup Appearances : at'[k] = at[k]
    BY <2>1, <2>4, Kinds DEF Jobs
  <2>8. \A k \in Jobs \ Loads : at'[k] \in Synced => bytes'[k] = "Whole"
    BY <2>4, <2>6 DEF NamesInv
  <2>9. \A n \in DOMAIN labels' :
          \/ labels'[n] \in {Old, Damaged}
          \/ labels'[n] \in Saves /\ at'[labels'[n]] \in Naming /\ bytes'[labels'[n]] = "Whole"
    BY <2>1, <2>2, <2>4, <2>5, <2>6 DEF NamesInv, Naming, Jobs
  <2>10. \A m, n \in DOMAIN labels' : labels'[m] = labels'[n] /\ labels'[n] \in Saves => m = n
    BY <2>1, <2>2, <2>5, <2>6 DEF NamesInv
  <2>11. \A k \in Saves : at'[k] \in {"Answer", "Ok"} => \E n \in DOMAIN labels' : labels'[n] = k
    BY <2>2, <2>4, <2>5 DEF NamesInv, Jobs
  <2>12. NamesInv'
    BY <2>4, <2>7, <2>8, <2>9, <2>10, <2>11 DEF NamesInv
  <2> QED BY <2>3, <2>12
<1>15. ASSUME NEW j \in Jobs, Rename(j) PROVE TypeInv' /\ NamesInv'
  <2>1. j \in Appearances /\ "Answer" \in Steps(j) /\ at[j] = "Rename"
    BY <1>15, Kinds DEF Rename, Steps, TypeInv, Jobs
  <2>2. TypeInv'
    BY <1>15, <2>1, TypesStep DEF Rename, TypeInv
  <2>3. /\ at'[j] = "Answer" /\ \A k \in Jobs \ {j} : at'[k] = at[k]
        /\ UNCHANGED <<bytes, labels, exports>> /\ appearance' = j
    BY <1>15 DEF Rename, Goes, TypeInv
  <2>4. bytes[j] = "Whole"
    BY <2>1, Kinds DEF NamesInv, Synced
  <2>5. \A k \in Saves \cup Exports : at'[k] = at[k]
    BY <2>1, <2>3, Kinds DEF Jobs
  <2>6. \A k \in Jobs \ Loads : at'[k] \in Synced => bytes[k] = "Whole"
    BY <2>3, <2>4 DEF NamesInv
  <2>7. NamesInv'
    BY <2>1, <2>3, <2>4, <2>5, <2>6 DEF NamesInv, Naming
  <2> QED BY <2>2, <2>7
<1> QED
  BY <1>1, <1>2, <1>3, <1>4, <1>5, <1>6, <1>7, <1>8, <1>9, <1>10, <1>11, <1>12, <1>13, <1>14, <1>15 DEF Next

LEMMA NamesInvariant == Spec => [](TypeInv /\ NamesInv)
<1>1. Init => TypeInv /\ NamesInv
  BY FoundAssumption, KindsApart DEF Init, TypeInv, NamesInv, Steps, Synced, Naming, Jobs
<1> QED BY <1>1, NamesStep, PTL DEF Spec

\* The names lead only to whole files, and what was acknowledged keeps its name
\* (labels.rs, save_new; appearance.rs, save; json.rs, write_bytes).
THEOREM SavedFilesStay == Spec => []SavedFilesSurvive
<1>1. TypeInv /\ NamesInv => SavedFilesSurvive
  <2> SUFFICES ASSUME TypeInv, NamesInv PROVE SavedFilesSurvive
    OBVIOUS
  <2>1. PublishedIsWhole
    BY KindsApart DEF TypeInv, NamesInv, PublishedIsWhole, Whole, Jobs
  <2>2. ASSUME NEW j \in Acknowledged, j \in Saves
        PROVE  (\E n \in DOMAIN labels : NumbersOf(j) = {n}) /\ bytes[j] = "Whole"
    <3>1. j \in Jobs /\ at[j] = "Ok" /\ j \notin Loads
      BY <2>2, Kinds DEF Acknowledged
    <3>2. PICK n \in DOMAIN labels : labels[n] = j
      BY <2>2, <3>1 DEF NamesInv
    <3>3. NumbersOf(j) = {n}
      BY <2>2, <3>2 DEF NamesInv, NumbersOf
    <3> QED BY <3>1, <3>2, <3>3 DEF NamesInv, Synced
  <2>3. ASSUME NEW j \in Acknowledged, j \in Exports
        PROVE  bytes[j] = "Whole" /\ \E p \in DOMAIN exports : exports[p] = j
    BY <2>3, Kinds DEF TypeInv, NamesInv, Acknowledged, Synced, Jobs
  <2> QED BY <2>1, <2>2, <2>3 DEF SavedFilesSurvive, AcknowledgedIsKept
<1> QED BY <1>1, NamesInvariant, PTL
-------------------------------------------------------------------------------
(* The order of saves and loads. *)

\* Steps after a listing.
Lister == {"Listing", "Publish", "Open", "Answer", "Ok"}

\* A snapshot that a job has to see: found there, or saved before the job began.
Earlier(j, n) == labels[n] \notin Saves \/ labels[n] \in before[j]

\* What a job has listed covers all it has to see, a number is above all its job
\* had to see, and a rename is never undone for a later job.
OrderInv ==
    /\ \A j \in Jobs : before[j] \subseteq Acknowledged /\ j \notin before[j]
    /\ \A j \in Saves \cup Loads : at[j] \in Lister =>
         /\ newest[j] \in {0} \cup DOMAIN labels
         /\ \A n \in DOMAIN labels : Earlier(j, n) => n <= newest[j]
    /\ \A n \in DOMAIN labels : labels[n] \in Saves =>
         \A m \in DOMAIN labels : Earlier(labels[n], m) => m < n
    /\ \A j \in Appearances : at[j] \in {"Answer", "Ok"} => appearance \notin before[j]

\* A step that names no file, begins no job and lists nothing.
LEMMA OrderMoves ==
  ASSUME TypeInv, OrderInv, NEW j \in Jobs, NEW step, Goes(j, step), at[j] # "Ok",
         UNCHANGED <<labels, appearance, newest, before>>,
         j \in Saves \cup Loads /\ step \in Lister => at[j] \in Lister,
         j \in Appearances /\ step \in {"Answer", "Ok"} => at[j] \in {"Answer", "Ok"}
  PROVE  OrderInv'
<1>1. at'[j] = step /\ \A k \in Jobs \ {j} : at'[k] = at[k]
  BY DEF Goes, TypeInv
<1>2. \A k \in Jobs : before'[k] \subseteq Acknowledged' /\ k \notin before'[k]
  BY <1>1 DEF OrderInv, Acknowledged
<1>3. \A k \in Jobs, n \in DOMAIN labels : Earlier(k, n)' = Earlier(k, n)
  BY DEF Earlier
<1>4. \A k \in Saves \cup Loads : at'[k] \in Lister => at[k] \in Lister
  BY <1>1 DEF Jobs
<1>5. \A k \in Appearances : at'[k] \in {"Answer", "Ok"} => at[k] \in {"Answer", "Ok"}
  BY <1>1 DEF Jobs
<1>6. \A k \in Saves \cup Loads : at'[k] \in Lister =>
        /\ newest'[k] \in {0} \cup DOMAIN labels'
        /\ \A n \in DOMAIN labels' : Earlier(k, n)' => n <= newest'[k]
  BY <1>3, <1>4 DEF OrderInv, Jobs
<1>7. \A n \in DOMAIN labels' : labels'[n] \in Saves =>
        \A m \in DOMAIN labels' : Earlier(labels[n], m)' => m < n
  BY <1>3 DEF OrderInv, Jobs
<1>8. \A k \in Appearances : at'[k] \in {"Answer", "Ok"} => appearance' \notin before'[k]
  BY <1>5 DEF OrderInv
<1> QED BY <1>2, <1>6, <1>7, <1>8 DEF OrderInv, Earlier

\* A job begins: it is at no step that the order speaks of, and names nothing.
LEMMA OrderBegins ==
  ASSUME TypeInv, NamesInv, OrderInv, NEW j \in Jobs, NEW step \in {"Write", "List", "Failed"},
         Begin(j), Goes(j, step), UNCHANGED <<labels, appearance, newest>>
  PROVE  OrderInv'
<1>1. at'[j] = step /\ \A k \in Jobs \ {j} : at'[k] = at[k]
  BY DEF Goes, TypeInv
<1>2. before'[j] = Acknowledged /\ \A k \in Jobs \ {j} : before'[k] = before[k]
  BY DEF Begin, TypeInv
<1>3. \A k \in Jobs : before'[k] \subseteq Acknowledged' /\ k \notin before'[k]
  BY <1>1, <1>2 DEF OrderInv, Acknowledged, Begin
<1>4. \A k \in Jobs \ {j}, n \in DOMAIN labels : Earlier(k, n)' = Earlier(k, n)
  BY <1>2 DEF Earlier
<1>5. \A k \in Saves \cup Loads : at'[k] \in Lister =>
        /\ newest'[k] \in {0} \cup DOMAIN labels'
        /\ \A n \in DOMAIN labels' : Earlier(k, n)' => n <= newest'[k]
  BY <1>1, <1>4 DEF OrderInv, Jobs, Lister
<1>6. \A n \in DOMAIN labels : labels[n] # j
  BY Kinds DEF NamesInv, Naming, Begin
<1>7. \A n \in DOMAIN labels' : labels'[n] \in Saves =>
        \A m \in DOMAIN labels' : Earlier(labels[n], m)' => m < n
  BY <1>4, <1>6 DEF OrderInv, Jobs
<1>8. \A k \in Appearances : at'[k] \in {"Answer", "Ok"} => appearance' \notin before'[k]
  BY <1>1, <1>2 DEF OrderInv, Jobs
<1> QED BY <1>3, <1>5, <1>7, <1>8 DEF OrderInv, Earlier

\* A listing covers what the job has to see.
LEMMA OrderLists ==
  ASSUME TypeInv, OrderInv, NEW j \in Saves \cup Loads, NEW step, NEW number \in {0} \cup DOMAIN labels,
         Goes(j, step), at[j] # "Ok", newest' = [newest EXCEPT ![j] = number],
         \A n \in DOMAIN labels : Earlier(j, n) => n <= number,
         UNCHANGED <<labels, appearance, before>>
  PROVE  OrderInv'
<1>1. at'[j] = step /\ \A k \in Jobs \ {j} : at'[k] = at[k] /\ newest'[k] = newest[k]
  BY DEF Goes, TypeInv, Jobs
<1>2. newest'[j] = number /\ j \in Jobs /\ j \notin Appearances
  BY Kinds DEF TypeInv, Jobs
<1>3. \A k \in Jobs : before'[k] \subseteq Acknowledged' /\ k \notin before'[k]
  BY <1>1, <1>2 DEF OrderInv, Acknowledged
<1>4. \A k \in Jobs, n \in DOMAIN labels : Earlier(k, n)' = Earlier(k, n)
  BY DEF Earlier
<1>5. \A k \in Saves \cup Loads : at'[k] \in Lister =>
        /\ newest'[k] \in {0} \cup DOMAIN labels'
        /\ \A n \in DOMAIN labels' : Earlier(k, n)' => n <= newest'[k]
  BY <1>1, <1>2, <1>4 DEF OrderInv, Jobs
<1>6. \A n \in DOMAIN labels' : labels'[n] \in Saves =>
        \A m \in DOMAIN labels' : Earlier(labels[n], m)' => m < n
  BY <1>4 DEF OrderInv, Jobs
<1>7. \A k \in Appearances : at'[k] \in {"Answer", "Ok"} => appearance' \notin before'[k]
  BY <1>1, <1>2 DEF OrderInv, Jobs
<1> QED BY <1>3, <1>5, <1>6, <1>7 DEF OrderInv, Earlier

\* The next number is above all the job has to see, and no job has to see it yet.
LEMMA OrderPublishes ==
  ASSUME TypeInv, NamesInv, OrderInv, NEW j \in Jobs, Publish(j)
  PROVE  OrderInv'
<1>1. j \in Saves /\ at[j] = "Publish" /\ newest[j] \in Nat
  BY Kinds DEF Publish, TypeInv, Steps
<1>2. at'[j] = "Answer" /\ \A k \in Jobs \ {j} : at'[k] = at[k]
  BY DEF Publish, Goes, TypeInv
<1> PICK number \in Nat : number = newest[j] + 1
  BY <1>1
<1>3. /\ DOMAIN labels' = DOMAIN labels \cup {number} /\ number \notin DOMAIN labels
      /\ labels'[number] = j /\ \A n \in DOMAIN labels : labels'[n] = labels[n]
      /\ UNCHANGED <<appearance, newest, before>>
  BY DEF Publish, Named, NextNumber
<1>4. \A k \in Jobs : j \notin before[k]
  BY <1>1 DEF OrderInv, Acknowledged
<1>5. \A k \in Jobs : ~Earlier(k, number)'
  BY <1>1, <1>3, <1>4 DEF Earlier
<1>6. \A k \in Jobs, n \in DOMAIN labels : Earlier(k, n)' <=> Earlier(k, n)
  BY <1>3 DEF Earlier
<1>7. \A k \in Jobs : before'[k] \subseteq Acknowledged' /\ k \notin before'[k]
  BY <1>1, <1>2, <1>3 DEF OrderInv, Acknowledged
<1>8. \A k \in Saves \cup Loads : at'[k] \in Lister => at[k] \in Lister
  BY <1>1, <1>2 DEF Jobs, Lister
<1>9. \A k \in Saves \cup Loads : at'[k] \in Lister =>
        /\ newest'[k] \in {0} \cup DOMAIN labels'
        /\ \A n \in DOMAIN labels' : Earlier(k, n)' => n <= newest'[k]
  BY <1>3, <1>5, <1>6, <1>8 DEF OrderInv, Jobs
<1>10. \A m \in DOMAIN labels : Earlier(j, m) => m < number
  <2> SUFFICES ASSUME NEW m \in DOMAIN labels, Earlier(j, m) PROVE m < number
    OBVIOUS
  <2>1. m <= newest[j] /\ m \in Nat
    BY <1>1 DEF OrderInv, Lister, TypeInv
  <2> QED BY <1>1, <2>1
<1>11. ASSUME NEW n \in DOMAIN labels', NEW owner, owner = labels'[n], owner \in Saves,
              NEW m \in DOMAIN labels', Earlier(owner, m)'
       PROVE  m < n
  <2>1. owner \in Jobs
    BY <1>11 DEF Jobs
  <2>2. m \in DOMAIN labels /\ Earlier(owner, m)
    BY <1>3, <1>5, <1>6, <1>11, <2>1
  <2>3. CASE n = number
    BY <1>3, <1>10, <1>11, <2>2, <2>3
  <2>4. CASE n \in DOMAIN labels
    BY <1>3, <1>11, <2>2, <2>4 DEF OrderInv
  <2> QED BY <1>3, <2>3, <2>4
<1>12. \A n \in DOMAIN labels' : labels'[n] \in Saves =>
        \A m \in DOMAIN labels' : Earlier(labels[n], m)' => m < n
  BY <1>11 DEF Earlier
<1>13. \A k \in Appearances : at'[k] \in {"Answer", "Ok"} => appearance' \notin before'[k]
  BY <1>1, <1>2, <1>3, Kinds DEF OrderInv, Jobs
<1> QED BY <1>7, <1>9, <1>12, <1>13 DEF OrderInv, Earlier

\* The order in every state.
LEMMA OrderStep ==
  ASSUME TypeInv, NamesInv, OrderInv, [Next]_vars PROVE OrderInv'
<1>1. CASE UNCHANGED vars
  BY <1>1 DEF OrderInv, vars, Earlier, Acknowledged
<1>2. ASSUME NEW j \in Jobs, CreatePending(j) PROVE OrderInv'
  BY <1>2, OrderBegins DEF CreatePending, names
<1>3. ASSUME NEW j \in Jobs, NEW path \in Paths, CreateExport(j, path) PROVE OrderInv'
  BY <1>3, OrderBegins DEF CreateExport
<1>4. ASSUME NEW j \in Jobs, BeginLoad(j) PROVE OrderInv'
  BY <1>4, OrderBegins DEF BeginLoad, names
<1>5. ASSUME NEW j \in Jobs, Write(j) PROVE OrderInv'
  <2>1. PICK step : Goes(j, step) /\ step \notin Lister \ {"Answer"}
                    /\ (step = "Answer" => j \in Exports)
    BY <1>5, Kinds DEF Write, TypeInv, Steps, Lister, Jobs
  <2> QED BY <1>5, <2>1, OrderMoves, Kinds DEF Write, names, Lister
<1>6. ASSUME NEW j \in Jobs, WriteFails(j) PROVE OrderInv'
  BY <1>6, OrderMoves DEF WriteFails, names, Lister
<1>7. ASSUME NEW j \in Jobs, NEW number \in {0} \cup DOMAIN labels, List(j, number) PROVE OrderInv'
  <2>1. j \in Saves \cup Loads /\ at[j] # "Ok"
    BY <1>7 DEF List, TypeInv, Steps
  <2>2. \A n \in DOMAIN labels : n <= number
    BY <1>7 DEF List, IsNewest
  <2> QED BY <1>7, <2>1, <2>2, OrderLists DEF List, names
<1>8. ASSUME NEW j \in Jobs, NEW number \in {newest[j]} \cup DOMAIN labels, Listed(j, number)
      PROVE  OrderInv'
  <2>1. j \in Saves \cup Loads /\ at[j] \in Lister /\ at[j] # "Ok"
    BY <1>8 DEF Listed, TypeInv, Steps, Lister
  <2>2. number \in {0} \cup DOMAIN labels
    BY <2>1 DEF OrderInv
  <2>3. \A n \in DOMAIN labels : Earlier(j, n) => n <= number
    BY <1>8, <2>1, <2>2 DEF Listed, OrderInv, TypeInv
  <2>4. PICK step : Goes(j, step)
    BY <1>8 DEF Listed
  <2> QED BY <1>8, <2>1, <2>2, <2>3, <2>4, OrderLists DEF Listed, names
<1>9. ASSUME NEW j \in Jobs, Beaten(j) PROVE OrderInv'
  BY <1>9, OrderMoves DEF Beaten, names, Lister
<1>10. ASSUME NEW j \in Jobs, Open(j) PROVE OrderInv'
  <2>1. at[j] = "Open" /\ j \notin Appearances
    BY <1>10, Kinds DEF Open, TypeInv, Steps
  <2> QED BY <1>10, <2>1, OrderMoves DEF Open, names, Lister
<1>11. ASSUME NEW j \in Jobs, Answer(j) PROVE OrderInv'
  BY <1>11, OrderMoves DEF Answer, names, Lister
<1>12. ASSUME NEW j \in Jobs, StepFails(j) PROVE OrderInv'
  BY <1>12, OrderMoves DEF StepFails, names, Lister
<1>13. ASSUME NEW j \in Jobs, ProgramEnds(j) PROVE OrderInv'
  BY <1>13, OrderMoves DEF ProgramEnds, Running, names, Lister
<1>14. ASSUME NEW j \in Jobs, Rename(j) PROVE OrderInv'
  <2>1. j \in Appearances /\ j \notin Saves /\ j \notin Loads
    BY <1>14, Kinds DEF Rename, TypeInv, Steps, Jobs
  <2>2. \A k \in Jobs : j \notin before[k]
    BY <1>14 DEF Rename, OrderInv, Acknowledged
  <2>3. at'[j] = "Answer" /\ \A k \in Jobs \ {j} : at'[k] = at[k]
    BY <1>14 DEF Rename, Goes, TypeInv
  <2>4. appearance' = j /\ UNCHANGED <<labels, newest, before>>
    BY <1>14 DEF Rename
  <2>5. \A k \in Saves \cup Loads : at'[k] = at[k]
    BY <2>1, <2>3 DEF Jobs
  <2>6. \A k \in Jobs : before'[k] \subseteq Acknowledged' /\ k \notin before'[k]
    BY <1>14, <2>3, <2>4 DEF OrderInv, Acknowledged, Rename
  <2>7. \A k \in Appearances : at'[k] \in {"Answer", "Ok"} => appearance' \notin before'[k]
    BY <2>2, <2>4 DEF Jobs
  <2>8. \A k \in Saves \cup Loads : at'[k] \in Lister =>
          /\ newest'[k] \in {0} \cup DOMAIN labels'
          /\ \A n \in DOMAIN labels' : Earlier(k, n)' => n <= newest'[k]
    BY <2>4, <2>5 DEF OrderInv, Earlier
  <2>9. \A n \in DOMAIN labels' : labels'[n] \in Saves =>
          \A m \in DOMAIN labels' : Earlier(labels[n], m)' => m < n
    BY <2>4 DEF OrderInv, Earlier
  <2> QED BY <2>4, <2>6, <2>7, <2>8, <2>9 DEF OrderInv, Earlier
<1>15. ASSUME NEW j \in Jobs, Publish(j) PROVE OrderInv'
  BY <1>15, OrderPublishes
<1> QED
  BY <1>1, <1>2, <1>3, <1>4, <1>5, <1>6, <1>7, <1>8, <1>9, <1>10, <1>11, <1>12, <1>13, <1>14, <1>15
     DEF Next

\* What the last acknowledged save wrote is what is loaded and what the next save
\* builds its number on (labels.rs, load_latest and save_new; appearance.rs, save).
THEOREM LastSaveWins == Spec => []LastSaveShows
<1>1. Init => OrderInv
  BY KindsApart, FoundAssumption DEF Init, OrderInv, Jobs, Lister, Acknowledged
<1>2. TypeInv /\ NamesInv /\ OrderInv => LastSaveShows
  <2> SUFFICES ASSUME TypeInv, NamesInv, OrderInv, NEW j \in Acknowledged, NEW k \in before[j]
               PROVE  /\ j \in Saves /\ k \in Saves =>
                           \A m \in NumbersOf(k), n \in NumbersOf(j) : m < n
                      /\ j \in Loads /\ k \in Saves =>
                           /\ newest[j] # 0
                           /\ labels[newest[j]] \in Saves
                           /\ \A m \in NumbersOf(k) : m <= newest[j]
                      /\ j \in Appearances => appearance # k
    BY DEF LastSaveShows
  <2>1. j \in Jobs /\ at[j] = "Ok" /\ k \in Acknowledged
    BY DEF Acknowledged, OrderInv
  <2>2. ASSUME j \in Saves, k \in Saves, NEW m \in NumbersOf(k), NEW n \in NumbersOf(j)
        PROVE  m < n
    BY <2>2 DEF NumbersOf, OrderInv, Earlier
  <2>3. ASSUME j \in Loads, k \in Saves
        PROVE  /\ newest[j] # 0
               /\ labels[newest[j]] \in Saves
               /\ \A m \in NumbersOf(k) : m <= newest[j]
    <3>1. \A m \in NumbersOf(k) : m <= newest[j]
      BY <2>1, <2>3 DEF NumbersOf, OrderInv, Earlier, Lister
    <3>2. PICK m \in DOMAIN labels : labels[m] = k
      BY <2>1, <2>3 DEF NamesInv, Acknowledged
    <3>3. m <= newest[j] /\ m \in Nat \ {0} /\ newest[j] \in Nat
      BY <2>1, <3>1, <3>2 DEF NumbersOf, TypeInv
    <3>4. newest[j] \in DOMAIN labels
      BY <2>1, <2>3, <3>3 DEF OrderInv, Lister
    <3>5. labels[newest[j]] \notin Saves => newest[j] < m
      BY <2>3, <3>2, <3>4 DEF OrderInv, Earlier
    <3> QED BY <3>1, <3>3, <3>5
  <2>4. j \in Appearances => appearance # k
    BY <2>1 DEF OrderInv
  <2> QED BY <2>2, <2>3, <2>4
<1> QED BY <1>1, <1>2, NamesInvariant, OrderStep, PTL DEF Spec
=============================================================================
