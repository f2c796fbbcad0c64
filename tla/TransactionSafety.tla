------------------------- MODULE TransactionSafety -------------------------
(***************************************************************************)
(* What a write to the keyboard promises, whatever fails and whenever the  *)
(* program ends.                                                           *)
(***************************************************************************)
EXTENDS Transaction

JobType ==
    [kind : Kinds, stage : Stages, expected : Images, target : Images, saved : Images,
     steps : Seq({"lock", "compare", "create", "sync", "open"}), todo : Seq(Cells),
     prior : BOOLEAN, layer : {"fn", "base", "pages"}, finishing : BOOLEAN, outcome : Outcomes]

\* The variables hold what the program and the receiver can hold.
TypeOK ==
    /\ keyboard \in Images /\ link \in {"usb", "receiver"}
    /\ radio \in Radios /\ exchange \in Exchanges
    /\ job \in JobType
    /\ lock \in {"free", "us", "other"} /\ disk \subseteq Images
    /\ sent \in BOOLEAN /\ jobs \in 0 .. MaxJobs

\* The outcome returned is true of the keyboard: a verified success holds the
\* target, NotAttempted means that no setter left the program, Verified that
\* the before-image is back, Failed that it is not (transaction.rs
\* apply_with_recovery, contract.rs Recovery).  A write that had nothing to do
\* and one that is only submitted claim nothing of the keyboard.
OutcomeIsTrue ==
    job.stage = "report" =>
        /\ job.outcome = "ok" /\ job.kind \notin Submitted /\ job.expected # job.target
              => Agree(keyboard, job.target, job.kind)
        /\ job.outcome = "NotAttempted" => ~ MayHaveSent
        /\ job.outcome = "Verified" => Agree(keyboard, job.expected, job.kind)
        /\ job.outcome = "Failed" => ~ Agree(keyboard, job.expected, job.kind)

\* From the first setter of a job on, and after the end of the program, the
\* image the job was to replace is in a durable backup (transaction.rs
\* save_custom_backup): no crash loses it.
BackedUp == MayHaveSent => job.saved \in disk

\* The reply a read returns answers that read and not one that timed out
\* before it (receiver.rs before_command).
ReplyAnswersCommand ==
    exchange.phase = "done" /\ exchange.result = "ok" => exchange.command.mine

\* Every job ends, with an outcome, unless the program ends first: each wait
\* of an exchange is bounded (receiver_exchange).  A host activity lasts as
\* long as the user wants.
JobsEnd == (job.stage # "hosting") ~> (job.stage \in {"idle", "crashed", "hosting"})
===========================================================================
