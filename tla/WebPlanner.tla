------------------------------ MODULE WebPlanner ------------------------------
(***************************************************************************)
(* The browser's transaction planner (byakko-web/src/executor.rs): one     *)
(* BrowserOperation turns a command into a sequence of effects - commit a   *)
(* backup, send a setter, exchange a request for its reply - which the      *)
(* page performs one at a time, handing each result to advance.  A save     *)
(* that goes wrong after a setter was sent is undone: the planner observes  *)
(* the keyboard where it can, writes the original back and reads again, and *)
(* reports a recovery that says what is known.                              *)
(*                                                                         *)
(* Abstractions.  The keyboard is a set of places, each holding the value   *)
(* the session's baseline has ("old"), the value the save wants ("new") or  *)
(* one the baseline does not know ("other").  A key stands for the page of  *)
(* the matrix it is read with; the five reports that write a macro and the  *)
(* four that read it cover the same pages.  A reply is the reply of its     *)
(* request.  Delays, report bytes and messages are left out.                *)
(***************************************************************************)
EXTENDS Naturals, Sequences, FiniteSets, SequencesExt

CONSTANTS
  BaseKeys,      \* the keys of the base layer, in the order of their slots
  FunctionKeys,  \* the keys of the function layer, likewise
  ReservedKeys,  \* keys no save changes and no recovery can write
  Pages,         \* pages of a macro or a picture, replies of the settings
  Slots,         \* macro slots
  MaxSwitches    \* bound: times the user switches the keyboard's profile

ASSUME PlannerAssumption ==
  /\ Pages \in Nat \ {0} /\ Slots \in Nat \ {0} /\ MaxSwitches \in Nat
  /\ ToSet(BaseKeys) \cap ToSet(FunctionKeys) = {}
  /\ IsInjective(BaseKeys) /\ IsInjective(FunctionKeys)
  /\ BaseKeys \in Seq(ToSet(BaseKeys)) /\ FunctionKeys \in Seq(ToSet(FunctionKeys))
  /\ "identity" \notin ToSet(BaseKeys) \cup ToSet(FunctionKeys)

VARIABLES
  op,        \* the BrowserOperation
  keyboard,  \* what every place of the keyboard holds
  profile,   \* the keyboard's active profile
  saved,     \* the backup is committed
  stale,     \* places that never held what the baseline says
  faults,    \* effects that went wrong, counted up to two
  switches   \* profile switches so far

vars == <<op, keyboard, profile, saved, stale, faults, switches>>
environment == <<stale, switches>>
-----------------------------------------------------------------------------
(* Sections of the keyboard and the places they cover.                     *)

\* The items of s at the chosen places, in the order of s.
InOrder(s, places) ==
  LET Items[chosen \in SUBSET DOMAIN s] ==
        LET rank(i) == Cardinality({j \in chosen : j <= i})
        IN [k \in 1..Cardinality(chosen) |-> s[CHOOSE i \in chosen : rank(i) = k]]
  IN Items[places]

Identity == <<"identity">>
Profiles == {"first", "second"}
KeyPlaces(p) == [i \in DOMAIN BaseKeys |-> <<BaseKeys[i], p>>]
                  \o [i \in DOMAIN FunctionKeys |-> <<FunctionKeys[i], "all">>]
Places(section) ==
  CASE section[1] = "keymap"   -> KeyPlaces("first")
    [] section[1] = "lighting" -> << <<"lighting", 0>> >>
    [] OTHER -> [i \in 1..Pages |-> <<section[1], section[2], i>>]

Reserved == {place \in ToSet(KeyPlaces("first")) : place[1] \in ReservedKeys}
Archive == << <<"keymap", 0>>, <<"lighting", 0>>, <<"settings", 0>>, <<"picture", 0>> >>
             \o [i \in 1..Slots |-> <<"macro", i>>]
AllPlaces == ToSet(KeyPlaces("second")) \cup UNION {ToSet(Places(s)) : s \in ToSet(Archive)}

(* The saves the planner plans: a section and the places its draft changes. *)
ReadBack == {"keymap", "macro", "settings"}
Sections == {Archive[i] : i \in 1..5}
Changes(section) ==
  IF section[1] = "settings" THEN {{}} \cup {{place} : place \in ToSet(Places(section))}
  ELSE SUBSET (ToSet(Places(section)) \ Reserved)

(* The reads: one section, a whole archive, or a catalog of macro slots.    *)
Reads == {<<section>> : section \in Sections} \cup {Archive, SubSeq(Archive, 5, 4 + Slots)}
-----------------------------------------------------------------------------
(* Steps, and the operation that queues them.                              *)

Step(kind, place, value) == [kind |-> kind, place |-> place, value |-> value]
Backup == Step("backup", <<>>, "old")
Exchanges(places) == [i \in DOMAIN places |-> Step("exchange", places[i], "old")]
Image(o, image, place) == IF image = "target" /\ place \in o.changes THEN "new" ELSE "old"
Writes(o, image, places) ==
  [i \in DOMAIN places |-> Step("write", places[i], Image(o, image, places[i]))]

Operation(plan, sections, changes) ==
  [plan |-> plan, sections |-> sections, changes |-> changes, stage |-> "Main",
   queue |-> <<>>, current |-> Step("none", <<>>, "old"), replies |-> <<>>, capture |-> <<>>,
   attempted |-> FALSE, outcome |-> "none"]

(* complete, failed and read_failed: the queue is replaced by the answer.   *)
Complete(o, outcome) ==
  [o EXCEPT !.plan = "terminal", !.outcome = outcome,
            !.queue = <<Step("complete", <<>>, outcome)>>]

(* keymap_read asks for the identity first and picture_read for the         *)
(* lighting, whose replies queue the pages; an archive needs no context.    *)
BeginRead(o, section) ==
  LET first == CASE section[1] = "keymap" -> <<Identity>>
                 [] section[1] = "picture" /\ Len(o.sections) = 1 -> << <<"lighting", 0>> >>
                 [] OTHER -> Places(section)
  IN [o EXCEPT !.replies = <<>>, !.queue = @ \o Exchanges(first)]

(* accept_reply: an identity or a context reply queues the pages it is for. *)
AcceptReply(o, place, value) ==
  LET section == Head(o.sections)
      pages == CASE place = Identity -> KeyPlaces(value)
                 [] section[1] = "picture" /\ place[1] = "lighting" -> Places(section)
                 [] OTHER -> <<>>
  IN [o EXCEPT !.replies = Append(@, <<place, value>>), !.queue = @ \o Exchanges(pages)]

(* keymap_snapshot, macro_bytes, settings_native: a value only of a read    *)
(* whose every reply came, for the profile the identity reply named.        *)
Asked(o) ==
  LET section == Head(o.sections)
  IN CASE section[1] = "keymap" /\ o.replies = <<>> -> <<Identity>>
       [] section[1] = "keymap" /\ o.replies # <<>> -> <<Identity>> \o KeyPlaces(o.replies[1][2])
       [] section[1] = "picture" /\ o.plan # "archive" -> << <<"lighting", 0>> >> \o Places(section)
       [] OTHER -> Places(section)
Whole(o) == [i \in DOMAIN o.replies |-> o.replies[i][1]] = Asked(o)
FirstProfile(o) == o.replies[1][1] = Identity => o.replies[1][2] = "first"
Holds(o, image) ==
  /\ Whole(o) /\ FirstProfile(o)
  /\ \A i \in DOMAIN o.replies :
       LET place == o.replies[i][1]
       IN place # Identity => o.replies[i][2] = Image(o, image, place)
-----------------------------------------------------------------------------
(* Recovery.                                                               *)

Setters(o) ==
  LET places == Places(Head(o.sections))
  IN IF Head(o.sections)[1] \in {"keymap", "settings"}
     THEN InOrder(places, {i \in DOMAIN places : places[i] \in o.changes}) ELSE places

(* begin_key_recovery, begin_macro_recovery, begin_settings_recovery.      *)
BeginRecovery(o) ==
  IF Head(o.sections)[1] = "keymap"
  THEN BeginRead([o EXCEPT !.queue = <<>>, !.stage = "ObserveFn"], Head(o.sections))
  ELSE [o EXCEPT !.stage = "Restore", !.queue = Writes(o, "before", Setters(o))]

(* slots_to_restore: the differences observed, or those attempted where     *)
(* nothing could be observed; a difference in a reserved key is an error.   *)
Layer(o) == IF o.stage = "ObserveFn" THEN FunctionKeys ELSE BaseKeys
Observed(o, key) ==
  IF Whole(o)
  THEN LET i == CHOOSE i \in DOMAIN o.replies : o.replies[i][1][1] = key IN o.replies[i][2]
  ELSE IF \E place \in o.changes : place[1] = key THEN "new" ELSE "old"
Restorable(o) == \A key \in ToSet(Layer(o)) \cap ReservedKeys : Observed(o, key) = "old"
SlotsToRestore(o) ==
  LET differs ==
        InOrder(Layer(o), {i \in DOMAIN Layer(o) : Observed(o, Layer(o)[i]) # "old"})
  IN [i \in DOMAIN differs |->
        <<differs[i], IF o.stage = "ObserveFn" THEN "all" ELSE "first">>]

(* Faulty: the base layer is not looked at once the function layer is back. *)
FaultyRestored(o) == BeginRead([o EXCEPT !.stage = "Verify"], Head(o.sections))

(* The writes of a stage are done: read what is there now.                  *)
Restored(o) ==
  BeginRead([o EXCEPT !.stage = IF @ = "RestoreFn" THEN "ObserveBase" ELSE "Verify"],
            Head(o.sections))

ObservationDone(o) ==
  IF ~Restorable(o) THEN Complete(o, "Unverified")
  ELSE LET next == [o EXCEPT !.stage = IF @ = "ObserveFn" THEN "RestoreFn" ELSE "RestoreBase",
                             !.queue = Writes(o, "before", SlotsToRestore(o))]
       IN IF next.queue = <<>> THEN Restored(next) ELSE next

VerificationDone(o) ==
  Complete(o, CASE ~Whole(o) -> "Unverified"
                [] Holds(o, "before") -> "Verified"
                [] OTHER -> "Failed")

(* keymap_stage_done, macro_stage_done, settings_stage_done.                *)
StageDone(o) ==
  CASE o.stage = "Main" -> IF Holds(o, "target") THEN Complete(o, "Ok") ELSE BeginRecovery(o)
    [] o.stage \in {"ObserveFn", "ObserveBase"} -> ObservationDone(o)
    [] o.stage \in {"RestoreFn", "RestoreBase", "Restore"} -> Restored(o)
    [] o.stage = "Verify" -> VerificationDone(o)

(* A section of a read is in: archive_stage_done and the read plans.        *)
SectionDone(o) ==
  LET read == [o EXCEPT !.capture = Append(@, o.replies), !.sections = Tail(@)]
  IN IF ~Whole(o) \/ (o.plan = "archive" /\ ~FirstProfile(o)) THEN Complete(o, "ReadFailed")
     ELSE IF read.sections = <<>> THEN Complete(read, "Read")
     ELSE BeginRead(read, Head(read.sections))

SequenceDone(o) ==
  CASE o.plan \in {"read", "archive"} -> SectionDone(o)
    [] o.plan = "accepted" -> Complete(o, "Ok")
    [] o.plan = "apply"    -> StageDone(o)

(* Faulty: a failed observation begins the recovery again.                  *)
FaultyFailStep(o) ==
  CASE o.current.kind = "backup" -> Complete(o, "NotAttempted")
    [] o.current.kind # "backup" /\ o.plan \in {"read", "archive"} -> Complete(o, "ReadFailed")
    [] o.current.kind # "backup" /\ o.plan = "accepted" -> Complete(o, "Unverified")
    [] o.current.kind # "backup" /\ o.plan = "apply" ->
         IF o.stage \in {"Main", "ObserveFn", "ObserveBase"} THEN BeginRecovery(o)
         ELSE Complete(o, "Unverified")

FailStep(o) ==
  CASE o.current.kind = "backup" -> Complete(o, "NotAttempted")
    [] o.current.kind # "backup" /\ o.plan \in {"read", "archive"} -> Complete(o, "ReadFailed")
    [] o.current.kind # "backup" /\ o.plan = "accepted" -> Complete(o, "Unverified")
    [] o.current.kind # "backup" /\ o.plan = "apply" ->
         CASE o.stage = "Main" -> BeginRecovery(o)
           [] o.stage \in {"ObserveFn", "ObserveBase"} -> SequenceDone([o EXCEPT !.queue = <<>>])
           [] OTHER -> Complete(o, "Unverified")

(* Faulty: only the setter that failed is asked about, not the earlier ones. *)
FaultyWriteError(o, sent) ==
  IF sent THEN FailStep([o EXCEPT !.attempted = TRUE]) ELSE Complete(o, "NotAttempted")

(* effect_error of a write: nothing to undo while no setter was sent.       *)
WriteError(o, sent) ==
  LET attempted == o.attempted \/ sent
  IN IF attempted THEN FailStep([o EXCEPT !.attempted = TRUE])
     ELSE Complete(o, "NotAttempted")

NextStep(o) ==
  LET ready == IF o.queue = <<>> THEN SequenceDone(o) ELSE o
  IN [ready EXCEPT !.current = Head(ready.queue), !.queue = Tail(ready.queue)]
-----------------------------------------------------------------------------
(* start and new.                                                          *)

StartRead(sections) ==
  NextStep(BeginRead(Operation(IF sections = Archive THEN "archive" ELSE "read", sections, {}),
                     Head(sections)))

StartApply(section, changes) ==
  LET plan == IF section[1] \in ReadBack THEN "apply" ELSE "accepted"
      o == Operation(plan, <<section>>, changes)
      queued == [o EXCEPT !.queue = <<Backup>> \o Writes(o, "target", Setters(o))]
  IN NextStep(IF changes = {} THEN Complete(o, "Ok")
              ELSE IF plan = "apply" THEN BeginRead(queued, section) ELSE queued)

Refuse(section) == NextStep(Complete(Operation("apply", <<section>>, {}), "NotAttempted"))
None == Operation("none", <<>>, {})

Init ==
  /\ op = None /\ profile \in Profiles /\ saved = FALSE /\ switches = 0
  /\ stale \in {{}} \cup {{place} : place \in AllPlaces}
  /\ keyboard = [place \in AllPlaces |-> IF place \in stale THEN "other" ELSE "old"]
  /\ faults = 0

Start ==
  /\ op = None
  /\ \/ \E sections \in Reads : op' = StartRead(sections)
     \/ \E section \in Sections :
          \/ \E changes \in Changes(section) : op' = StartApply(section, changes)
          \/ op' = Refuse(section)
  /\ UNCHANGED <<keyboard, profile, saved, faults, environment>>
-----------------------------------------------------------------------------
(* advance: the result of the current effect.                              *)

AtFault == faults' = IF faults = 2 THEN 2 ELSE faults + 1

BackupCommitted ==
  /\ op.current.kind = "backup"
  /\ saved' = TRUE /\ op' = NextStep(op)
  /\ UNCHANGED <<keyboard, profile, faults, environment>>

BackupFails ==
  /\ op.current.kind = "backup"
  /\ op' = NextStep(FailStep(op)) /\ AtFault
  /\ UNCHANGED <<keyboard, profile, saved, environment>>

Taken == keyboard' = [keyboard EXCEPT ![op.current.place] = op.current.value]

(* The transport accepts a setter; the keyboard may still ignore it.        *)
WriteAccepted ==
  /\ op.current.kind = "write"
  /\ op' = NextStep([op EXCEPT !.attempted = TRUE])
  /\ \/ Taken /\ UNCHANGED faults
     \/ UNCHANGED keyboard /\ AtFault
  /\ UNCHANGED <<profile, saved, environment>>

(* The effect fails before the setter is sent or after it.                  *)
WriteFails ==
  /\ op.current.kind = "write"
  /\ \E sent \in BOOLEAN :
       /\ op' = NextStep(WriteError(op, sent))
       /\ (sent /\ Taken) \/ UNCHANGED keyboard
  /\ AtFault
  /\ UNCHANGED <<profile, saved, environment>>

ReplyArrives ==
  /\ op.current.kind = "exchange"
  /\ LET place == op.current.place
     IN op' = NextStep(AcceptReply(op, place, IF place = Identity THEN profile ELSE keyboard[place]))
  /\ UNCHANGED <<keyboard, profile, saved, faults, environment>>

(* No reply, a cancelled scan, or the reply of another request.             *)
ExchangeFails ==
  /\ op.current.kind = "exchange"
  /\ op' = NextStep(FailStep(op)) /\ AtFault
  /\ UNCHANGED <<keyboard, profile, saved, environment>>

Answers == BackupCommitted \/ BackupFails \/ WriteAccepted \/ WriteFails
             \/ ReplyArrives \/ ExchangeFails

(* The user switches the profile at the keyboard.                           *)
SwitchProfile ==
  /\ switches < MaxSwitches /\ switches' = switches + 1
  /\ profile' \in Profiles \ {profile}
  /\ UNCHANGED <<op, keyboard, saved, stale, faults>>

Next == Start \/ Answers \/ SwitchProfile

(* Every effect settles: web/executor.mjs answers each step it performs.    *)
Spec == Init /\ [][Next]_vars /\ WF_vars(Answers)
-----------------------------------------------------------------------------
Saving == op.plan # "none" /\ op.sections # <<>> /\ op.changes # {}
ReadsBack == Saving /\ Head(op.sections)[1] \in ReadBack
Held(image) == \A place \in ToSet(Places(Head(op.sections))) :
                 keyboard[place] = Image(op, image, place)

(* What the planner reports is so: a save that reads back and reports Ok    *)
(* has stored the target, one that was not attempted or whose original is   *)
(* not in storage has left the keyboard as it was, one that reports its     *)
(* recovery verified has put the original back, and a read reports what the *)
(* keyboard holds.                                                          *)
OutcomeIsTrue ==
  /\ ReadsBack /\ op.outcome = "Ok" => Held("target")
  /\ ReadsBack /\ op.outcome = "Verified" => Held("before")
  /\ op.outcome = "NotAttempted" \/ ~saved =>
       \A place \in AllPlaces : keyboard[place] = IF place \in stale THEN "other" ELSE "old"
  /\ op.outcome = "Read" =>
       \A i \in DOMAIN op.capture : \A j \in DOMAIN op.capture[i] :
         LET reply == op.capture[i][j]
         IN reply[1] # Identity => reply[2] = keyboard[reply[1]]

(* One effect that goes wrong never costs the original: a recovery that     *)
(* fails or cannot be verified had a second fault, a profile switched under *)
(* it or a keyboard that never held the baseline.                           *)
OneFaultIsUndone ==
  ReadsBack /\ op.outcome \in {"Failed", "Unverified"} =>
    faults = 2 \/ profile # "first" \/ switches > 0 \/ stale # {}

(* Every operation comes to an answer, however many of its effects fail:    *)
(* no failure of a recovery begins another recovery.                        *)
OperationEnds == [](op # None => <>(op.current.kind = "complete"))
=============================================================================
