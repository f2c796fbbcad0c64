---------------------------- MODULE Transaction ----------------------------
(***************************************************************************)
(* A write of one feature to a Nia87 keyboard: the locked, backed up,      *)
(* verified and restored transaction of                                    *)
(* byakko-devices/src/nia87/device/{transaction,keymaps,macros,settings,   *)
(* lighting,picture,configuration}.rs, over the exchanges of Relay.        *)
(*                                                                         *)
(* A job is one call of apply_*_with, or a host lighting session, which is *)
(* a verified write, an activity, and a verified write back.  The program  *)
(* may end at any step; another Byakko program may hold the lock, and      *)
(* write, whenever this one does not.                                      *)
(***************************************************************************)
EXTENDS Relay, Sequences, SequencesExt

CONSTANTS Requests,  \* the writes that may be asked for
          Foreign,   \* the images another program may leave on the keyboard
          MaxJobs    \* bound: the number of jobs

VARIABLES job,    \* the write in progress, or the last one
          lock,   \* who holds the transaction lock
          disk,   \* the images in durable backups
          sent,   \* history: a setter of this job may have reached the keyboard
          jobs    \* the number of jobs so far

jobVars == <<job, lock, disk, sent, jobs>>
vars    == <<relayVars, jobVars>>

Kinds == {"keymaps", "macro", "setting", "lighting", "picture", "host", "archive"}
Recoveries == {"NotAttempted", "Verified", "Failed", "Unverified"}
Outcomes   == {"none", "ok"} \cup Recoveries

(* The cells a feature is made of: the layers of the keymap, or pages.     *)
Layers == {"base", "fn"}
Scope(kind) == {c \in Cells : \/ kind = "archive"
                              \/ kind = "keymaps" /\ c[1] \in Layers
                              \/ kind # "keymaps" /\ c[1] \notin Layers}

(* A request is the cached before-image and the image wanted.  They differ *)
(* within the feature only.                                                *)
ASSUME RequestAssumption ==
    /\ Requests \subseteq [kind : Kinds, expected : Images, target : Images]
    /\ \A r \in Requests : \A c \in Cells \ Scope(r.kind) : r.expected[c] = r.target[c]
    /\ Foreign \subseteq Images /\ MaxJobs \in Nat

Agree(a, b, kind) == \A c \in Scope(kind) : a[c] = b[c]

(* What happens before the first setter, in the order of each feature.     *)
(* compare answers a target equal to the cached image at once; create and  *)
(* sync are the two halves of save_custom_backup.                          *)
FaultyPrelude(kind) ==
    IF kind = "picture" THEN <<"compare", "create", "sync", "lock", "open">>
    ELSE <<"lock", "open", "compare", "create">>
Prelude(kind) ==
    CASE kind \in {"keymaps", "macro"} -> <<"lock", "compare", "create", "sync", "open">>
      [] kind = "setting"              -> <<"lock", "compare", "open", "create", "sync">>
      [] kind \in {"lighting", "host"} -> <<"lock", "open", "compare", "create", "sync">>
      [] kind = "picture"              -> <<"compare", "create", "sync", "lock", "open">>
      [] kind = "archive"              -> <<"compare", "lock", "open", "create", "sync">>

(* The cells a list of writes names, in the order of the code: a macro or  *)
(* a picture goes page by page whatever changed, an archive's pages come   *)
(* before the keys that refer to them, base keys before Fn keys.           *)
(* Pages, and keys of one layer, are taken in one order, whichever it is.  *)
InOrder(cells) == SetToSeq(cells)
Keys(layer, from, to) == InOrder({c \in Cells : c[1] = layer /\ from[c] # to[c]})
Pages(kind, from, to) ==
    LET pages == {c \in Cells : c[1] \notin Layers}
    IN IF kind \in {"macro", "picture"} THEN InOrder(pages)
       ELSE IF \E c \in pages : from[c] # to[c]
            THEN IF kind = "archive" THEN InOrder(pages)
                 ELSE InOrder({c \in pages : from[c] # to[c]})
            ELSE << >>
Writes(kind, from, to) ==
    IF kind = "keymaps" THEN Keys("base", from, to) \o Keys("fn", from, to)
    ELSE IF kind = "archive"
         THEN Pages(kind, from, to) \o Keys("base", from, to) \o Keys("fn", from, to)
         ELSE Pages(kind, from, to)

(* slots_to_restore: where the layer was seen to differ, or, unread, where *)
(* the write meant to change it.                                           *)
SlotsToRestore(layer, observed, attempted, original) ==
    Keys(layer, IF observed = << >> THEN attempted ELSE observed[1], original)

(* A setter of this job has been handed to the cable or to the receiver.   *)
MayHaveSent == \/ sent
               \/ /\ exchange.command.kind = "set" /\ exchange.phase = "done"
                  /\ exchange.result # "refused"

Stages == {"idle", "prelude", "write", "read", "observe", "restore", "verify", "reread",
           "hosting", "report", "crashed"}
NoJob == [kind |-> "keymaps", stage |-> "idle", expected |-> AnyImage, target |-> AnyImage,
          saved |-> AnyImage, steps |-> << >>, todo |-> << >>, prior |-> FALSE, layer |-> "fn",
          finishing |-> FALSE, outcome |-> "none"]

(* Features whose write is submitted and not read back.                    *)
Submitted == {"lighting", "picture"}

(* The outcome is known.  Whatever a host session failed to restore is     *)
(* unverified to its caller (nia87/host_adapter.rs).                       *)
Report(outcome) ==
    job' = [job EXCEPT !.stage = "report",
                       !.outcome = IF job.finishing /\ outcome # "ok" THEN "Unverified"
                                   ELSE outcome]

(* The write is verified, or there was none to make: a host activity       *)
(* begins, anything else is done.                                          *)
Succeeded(j) == IF j.kind = "host" /\ ~ j.finishing
                THEN [j EXCEPT !.stage = "hosting"]
                ELSE [j EXCEPT !.stage = "report", !.outcome = "ok"]

---------------------------------------------------------------------------
(* A write is asked for.                                                   *)
Start ==
    /\ job.stage \in {"idle", "crashed"} /\ jobs < MaxJobs
    /\ \E r \in Requests :
          job' = [NoJob EXCEPT !.kind = r.kind, !.expected = r.expected, !.target = r.target,
                               !.saved = r.expected,
                               !.steps = Prelude(r.kind),
                               !.todo = Writes(r.kind, r.expected, r.target),
                               !.stage = "prelude"]
    /\ jobs' = jobs + 1
    /\ sent' = FALSE
    /\ UNCHANGED <<relayVars, lock, disk>>

(* One step of the prelude succeeds.                                       *)
PreludeStep(step) ==
    /\ job.stage = "prelude" /\ Head(job.steps) = step
    /\ job' = [job EXCEPT !.steps = Tail(@),
                          !.stage = IF Tail(job.steps) = << >> THEN "write" ELSE "prelude"]
    /\ UNCHANGED <<relayVars, sent, jobs>>

Compare ==
    /\ job.stage = "prelude" /\ Head(job.steps) = "compare"
    /\ job' = IF job.expected = job.target THEN Succeeded(job)
              ELSE [job EXCEPT !.steps = Tail(@)]
    /\ UNCHANGED <<relayVars, lock, disk, sent, jobs>>

TakeLock   == PreludeStep("lock") /\ lock = "free" /\ lock' = "us" /\ UNCHANGED disk
Create     == PreludeStep("create") /\ UNCHANGED <<lock, disk>>
Sync       == PreludeStep("sync") /\ disk' = disk \cup {job.expected} /\ UNCHANGED lock
(* The receiver is refused for host lighting (start_mode_with).            *)
OpenDevice == PreludeStep("open") /\ ~ (job.kind = "host" /\ link = "receiver")
              /\ UNCHANGED <<lock, disk>>

(* A step of the prelude fails, the lock held by another program included. *)
PreludeFails ==
    /\ job.stage = "prelude" /\ ~ job.finishing
    /\ Report("NotAttempted")
    /\ UNCHANGED <<relayVars, lock, disk, sent, jobs>>

---------------------------------------------------------------------------
(* The next setter of the list is sent: of the write, or of the restore.   *)
Submit ==
    /\ job.stage \in {"write", "restore"} /\ job.todo # << >>
    /\ Begin(Setter(Head(job.todo),
                    (IF job.stage = "write" THEN job.target ELSE job.expected)[Head(job.todo)]))
    /\ UNCHANGED jobVars

SetterEnded(result) ==
    /\ job.stage \in {"write", "restore"} /\ exchange.phase = "done" /\ exchange.result = result
    /\ exchange' = NoExchange
    /\ sent' = MayHaveSent
    /\ UNCHANGED <<keyboard, link, radio, lock, disk, jobs>>

SetterAccepted ==
    /\ SetterEnded("ok")
    /\ job' = [job EXCEPT !.todo = Tail(@), !.prior = TRUE]

(* no_logical_setter_sent, with after_prior_setter or setter_started.      *)
FaultyNoneSent(result) == result = "refused"
NoneSent(result) == result = "refused" /\ ~ job.prior

(* How the recovery begins once a write has failed: the layers of the      *)
(* keymap are read before they are restored, anything else is written      *)
(* back at once.                                                           *)
Recover(j) ==
    IF j.kind \in {"keymaps", "archive"}
    THEN [j EXCEPT !.stage = "observe", !.layer = "fn"]
    ELSE [j EXCEPT !.stage = "restore", !.todo = Writes(j.kind, j.target, j.expected)]

(* A setter of the write fails.                                            *)
WriteFails ==
    /\ job.stage = "write"
    /\ \E result \in {"refused", "uncertain"} :
          /\ SetterEnded(result)
          /\ IF NoneSent(result) THEN Report("NotAttempted")
             ELSE IF job.kind \in Submitted THEN Report("Unverified")
             ELSE job' = Recover(job)

(* The list is written: a submitted feature is done, any other is read     *)
(* back.                                                                   *)
Written ==
    /\ job.stage = "write" /\ job.todo = << >>
    /\ IF job.kind \in Submitted THEN Report("ok") ELSE job' = [job EXCEPT !.stage = "read"]
    /\ UNCHANGED <<relayVars, lock, disk, sent, jobs>>

---------------------------------------------------------------------------
Reading == {"read", "observe", "verify", "reread"}

(* The feature is read: after the write, before each layer is restored and *)
(* after the restore.                                                      *)
Read ==
    /\ job.stage \in Reading
    /\ Begin(Reader)
    /\ UNCHANGED jobVars

ReadEnded(ok) ==
    /\ job.stage \in Reading /\ exchange.phase = "done" /\ ok = (exchange.result = "ok")
    /\ exchange' = NoExchange
    /\ UNCHANGED <<keyboard, link, radio, lock, disk, sent, jobs>>

(* The one readback: the complete feature is what was wanted, or the       *)
(* recovery begins.                                                        *)
Verified(image) == Agree(image, job.target, job.kind)

ReadBack ==
    /\ job.stage = "read"
    /\ \/ /\ ReadEnded(TRUE)
          /\ job' = IF Verified(exchange.image) THEN Succeeded(job) ELSE Recover(job)
       \/ ReadEnded(FALSE) /\ job' = Recover(job)

(* A layer was read before it is restored.  The read opens the keyboard    *)
(* anew, which may fail as well.                                           *)
Observed ==
    /\ job.stage = "observe"
    /\ \/ /\ ReadEnded(TRUE)
          /\ job' = [job EXCEPT !.stage = "restore",
                                !.todo = SlotsToRestore(job.layer, <<exchange.image>>,
                                                        job.target, job.expected)]
       \/ /\ ReadEnded(FALSE)
          /\ job' = [job EXCEPT !.stage = "restore",
                                !.todo = SlotsToRestore(job.layer, << >>, job.target, job.expected)]

(* A setter of the restore fails: the restore ends unverified, except that *)
(* an archive goes on with what remains (recover_configuration), but not   *)
(* with the later pages of the same macro.                                 *)
FaultyRestoreFails ==
    /\ job.stage = "restore"
    /\ \E result \in {"refused", "uncertain"} :
          /\ SetterEnded(result)
          /\ IF job.kind = "archive" THEN UNCHANGED job ELSE Report("Unverified")
RestoreFails ==
    /\ job.stage = "restore"
    /\ \E result \in {"refused", "uncertain"} :
          /\ SetterEnded(result)
          /\ IF job.kind = "archive"
             THEN job' = [job EXCEPT !.todo = IF Head(@)[1] \in Layers THEN Tail(@) ELSE << >>]
             ELSE Report("Unverified")

(* The list is restored: the Fn layer is followed by the base layer, the   *)
(* keys of an archive by its pages, and the last by the readback.          *)
Restored ==
    /\ job.stage = "restore" /\ job.todo = << >>
    /\ job' = IF job.kind \in {"keymaps", "archive"} /\ job.layer = "fn"
              THEN [job EXCEPT !.stage = "observe", !.layer = "base"]
              ELSE IF job.kind = "archive" /\ job.layer = "base"
              THEN [job EXCEPT !.layer = "pages",
                               !.todo = Pages(job.kind, job.target, job.expected)]
              ELSE [job EXCEPT !.stage = "verify"]
    /\ UNCHANGED <<relayVars, lock, disk, sent, jobs>>

(* The readback of the restore decides the outcome.  An archive that could *)
(* not be read is read once more on a fresh handle.                        *)
RestoreVerified ==
    /\ job.stage \in {"verify", "reread"}
    /\ \/ /\ ReadEnded(TRUE)
          /\ Report(IF Agree(exchange.image, job.expected, job.kind) THEN "Verified" ELSE "Failed")
       \/ /\ ReadEnded(FALSE)
          /\ IF job.kind = "archive" /\ job.stage = "verify"
             THEN job' = [job EXCEPT !.stage = "reread"]
             ELSE Report("Unverified")

---------------------------------------------------------------------------
(* HostLightingSession::finish: a verified write back of the saved         *)
(* lighting, whose before-image is the active one.                         *)
WriteBack(j) == [j EXCEPT !.stage = "prelude", !.finishing = TRUE, !.prior = FALSE,
                          !.expected = j.target, !.target = j.saved,
                          !.steps = <<"compare", "create", "sync">>,
                          !.todo = Writes(j.kind, j.target, j.saved)]

(* Host lighting: parameters are written as the activity goes, without a   *)
(* read; the first failed one ends it (update_parameters and the loop of   *)
(* executor/host.rs).  job.target is the lighting the session believes     *)
(* active.                                                                 *)
UpdateParameters ==
    /\ job.stage = "hosting"
    /\ \E c \in Scope("host") : \E v \in Values :
          job.target[c] # job.saved[c] /\ v # job.target[c] /\ v # job.saved[c]
          /\ Begin(Setter(c, v))
    /\ UNCHANGED jobVars

ParametersEnded ==
    /\ job.stage = "hosting" /\ exchange.phase = "done"
    /\ exchange' = NoExchange
    /\ job' = IF exchange.result = "ok"
              THEN [job EXCEPT !.target[exchange.command.cell] = exchange.command.value]
              ELSE WriteBack(job)
    /\ UNCHANGED <<keyboard, link, radio, lock, disk, sent, jobs>>

(* The user, the sampler or the connection ends the activity.              *)
Finish ==
    /\ job.stage = "hosting" /\ exchange.phase = "idle"
    /\ job' = WriteBack(job)
    /\ UNCHANGED <<relayVars, lock, disk, sent, jobs>>

(* The backup of the write back fails: nothing was sent for it.            *)
FinishFails ==
    /\ job.stage = "prelude" /\ job.finishing
    /\ Report("NotAttempted")
    /\ UNCHANGED <<relayVars, lock, disk, sent, jobs>>

---------------------------------------------------------------------------
(* The outcome is returned and the lock released.                          *)
Return ==
    /\ job.stage = "report"
    /\ job' = [job EXCEPT !.stage = "idle", !.todo = << >>, !.steps = << >>]
    /\ lock' = IF lock = "us" THEN "free" ELSE lock
    /\ UNCHANGED <<relayVars, disk, sent, jobs>>

(* The program ends.  The operating system releases its lock.              *)
Crash ==
    /\ job.stage \notin {"idle", "crashed"}
    /\ job' = [job EXCEPT !.stage = "crashed", !.todo = << >>, !.steps = << >>, !.outcome = "none"]
    /\ lock' = IF lock = "us" THEN "free" ELSE lock
    /\ sent' = MayHaveSent
    /\ exchange' = NoExchange
    /\ UNCHANGED <<keyboard, link, radio, disk, jobs>>

(* Another program takes the lock, writes to the keyboard, and lets go.    *)
OtherLocks   == lock = "free" /\ lock' = "other"
                /\ UNCHANGED <<relayVars, job, disk, sent, jobs>>
OtherWrites  == /\ lock = "other"
                /\ keyboard' \in Foreign
                /\ UNCHANGED <<link, radio, exchange, jobVars>>
OtherUnlocks == lock = "other" /\ lock' = "free"
                /\ UNCHANGED <<relayVars, job, disk, sent, jobs>>

JobStep ==
    \/ Start \/ Compare \/ TakeLock \/ Create \/ Sync \/ OpenDevice \/ PreludeFails
    \/ Submit \/ SetterAccepted \/ WriteFails \/ Written
    \/ Read \/ ReadBack \/ Observed \/ RestoreFails \/ Restored \/ RestoreVerified
    \/ UpdateParameters \/ ParametersEnded \/ Finish \/ FinishFails \/ Return

Init ==
    /\ RelayInit
    /\ job = NoJob
    /\ lock = "free"
    /\ disk = {}
    /\ sent = FALSE
    /\ jobs = 0

Next ==
    \/ JobStep
    \/ ExchangeStep /\ UNCHANGED jobVars
    \/ RadioStep /\ UNCHANGED jobVars
    \/ Crash
    \/ OtherLocks \/ OtherWrites \/ OtherUnlocks

(* The program runs, its exchanges end: every wait in them is bounded.     *)
Spec == Init /\ [][Next]_vars /\ WF_vars(JobStep) /\ WF_vars(ExchangeStep /\ UNCHANGED jobVars)
===========================================================================
