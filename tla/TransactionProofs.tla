------------------------- MODULE TransactionProofs -------------------------
(***************************************************************************)
(* What a write to the keyboard promises, for any memory, any requests,    *)
(* any number of jobs and any other program.                               *)
(***************************************************************************)
EXTENDS TransactionSafety, FiniteSetTheorems, SequenceTheorems, TLAPS

(* The lists of writes name cells of the keyboard. *)

\* A finite set in some order is a sequence of its elements.
LEMMA OrderedSet ==
  ASSUME NEW S, IsFiniteSet(S)
  PROVE  SetToSeq(S) \in Seq(S)
<1>1. \E f \in [1 .. Cardinality(S) -> S] : IsInjective(f)
  BY FS_CardinalityType DEF ExistsBijection, Bijection, Injection
<1>2. SetToSeq(S) \in [1 .. Cardinality(S) -> S]
  BY <1>1 DEF SetToSeq
<1> QED BY <1>2, FS_CardinalityType

LEMMA OrderedCells ==
  ASSUME NEW S, S \subseteq Cells
  PROVE  InOrder(S) \in Seq(Cells)
<1>1. IsFiniteSet(S)
  BY FS_Subset, MemoryAssumption
<1>2. InOrder(S) \in Seq(S)
  BY <1>1, OrderedSet DEF InOrder
<1> QED BY <1>2, SeqMonotonic

LEMMA WritesNameCells ==
  ASSUME NEW kind, NEW layer, NEW from, NEW to
  PROVE  /\ Keys(layer, from, to) \in Seq(Cells)
         /\ Pages(kind, from, to) \in Seq(Cells)
         /\ Writes(kind, from, to) \in Seq(Cells)
<1>1. \A l : Keys(l, from, to) \in Seq(Cells)
  BY OrderedCells DEF Keys
<1>2. Pages(kind, from, to) \in Seq(Cells)
  <2> DEFINE pages == {c \in Cells : c[1] \notin Layers}
  <2>1. InOrder(pages) \in Seq(Cells)
    BY OrderedCells
  <2>2. InOrder({c \in pages : from[c] # to[c]}) \in Seq(Cells)
    BY OrderedCells
  <2> QED BY <2>1, <2>2 DEF Pages
<1>3. Keys("base", from, to) \o Keys("fn", from, to) \in Seq(Cells)
  BY <1>1
<1>4. Pages(kind, from, to) \o Keys("base", from, to) \o Keys("fn", from, to) \in Seq(Cells)
  BY <1>1, <1>2
<1>5. CASE kind = "keymaps"
  BY <1>1, <1>2, <1>3, <1>5 DEF Writes
<1>6. CASE kind = "archive"
  BY <1>1, <1>2, <1>4, <1>6 DEF Writes
<1>7. CASE kind \notin {"keymaps", "archive"}
  BY <1>1, <1>2, <1>7 DEF Writes
<1> QED BY <1>5, <1>6, <1>7

LEMMA PreludeSteps ==
  ASSUME NEW kind \in Kinds
  PROVE  Prelude(kind) \in Seq({"lock", "compare", "create", "sync", "open"})
<1>1. CASE kind = "keymaps"
  BY <1>1 DEF Prelude
<1>2. CASE kind = "macro"
  BY <1>2 DEF Prelude
<1>3. CASE kind = "setting"
  BY <1>3 DEF Prelude
<1>4. CASE kind = "lighting"
  BY <1>4 DEF Prelude
<1>5. CASE kind = "host"
  BY <1>5 DEF Prelude
<1>6. CASE kind = "picture"
  BY <1>6 DEF Prelude
<1>7. CASE kind = "archive"
  BY <1>7 DEF Prelude
<1> QED BY <1>1, <1>2, <1>3, <1>4, <1>5, <1>6, <1>7 DEF Kinds

LEMMA NothingTyped ==
  /\ AnyImage \in Images /\ NoCommand \in Commands /\ NoReply \in Replies
  /\ NoExchange \in Exchanges
<1>1. AnyCell \in Cells /\ AnyValue \in Values
  BY MemoryAssumption DEF AnyCell, AnyValue
<1>2. AnyImage \in Images /\ NoCommand \in Commands
  BY <1>1 DEF AnyImage, Images, NoCommand, Commands
<1>3. NoReply \in Replies
  BY <1>2 DEF NoReply, Replies
<1> QED BY <1>2, <1>3, PollsAssumption DEF NoExchange, Exchanges, Results
-----------------------------------------------------------------------------
(* Types. *)

RelayTyped ==
    /\ keyboard \in Images /\ link \in {"usb", "receiver"}
    /\ radio \in Radios /\ exchange \in Exchanges
JobTyped ==
    /\ job \in JobType /\ lock \in {"free", "us", "other"} /\ disk \subseteq Images
    /\ sent \in BOOLEAN /\ jobs \in 0 .. MaxJobs

LEMMA ExecutionTyped ==
  ASSUME NEW command \in Commands, NEW image \in Images
  PROVE  Executions(command, image) \subseteq Images
BY DEF Executions, Commands, Images

LEMMA BeginTyped ==
  ASSUME RelayTyped, NEW command \in Commands, Begin(command)
  PROVE  RelayTyped'
BY NothingTyped DEF Begin, RelayTyped, Exchanges, Radios, Commands, Replies

LEMMA ExchangeTyped ==
  ASSUME RelayTyped, ExchangeStep
  PROVE  RelayTyped'
<1> USE DEF RelayTyped
<1>1. ASSUME NEW phase \in {"idle", "await", "send", "reply", "done"}, NEW result \in Results
      PROVE  /\ [exchange EXCEPT !.phase = phase] \in Exchanges
             /\ [exchange EXCEPT !.phase = phase, !.result = result] \in Exchanges
  BY DEF Exchanges
<1>2. ASSUME exchange.polls + 1 # MaxPolls
      PROVE  [exchange EXCEPT !.polls = @ + 1] \in Exchanges
  BY <1>2, PollsAssumption DEF Exchanges
<1>3. [exchange EXCEPT !.phase = "send", !.polls = 0] \in Exchanges
  <2>1. 0 \in 0 .. MaxPolls - 1
    BY PollsAssumption
  <2> QED BY <2>1 DEF Exchanges
<1>4. \A result \in Results : Done(result) => exchange' \in Exchanges
  BY <1>1 DEF Done
<1>5. ASSUME StatusFails \/ StatusRejected PROVE RelayTyped'
  BY <1>4, <1>5 DEF StatusFails, StatusRejected, Refused, Results
<1>6. ASSUME StatusBusy PROVE RelayTyped'
  <2>1. CASE exchange.polls + 1 = MaxPolls
    BY <1>4, <1>6, <2>1 DEF StatusBusy, Refused, Results
  <2>2. CASE exchange.polls + 1 # MaxPolls
    BY <1>2, <1>6, <2>2 DEF StatusBusy
  <2> QED BY <2>1, <2>2
<1>7. ASSUME ReplyLate PROVE RelayTyped'
  <2>1. CASE exchange.polls + 1 = MaxPolls
    BY <1>4, <1>7, <2>1 DEF ReplyLate, Results
  <2>2. CASE exchange.polls + 1 # MaxPolls
    BY <1>2, <1>7, <2>2 DEF ReplyLate
  <2> QED BY <2>1, <2>2
<1>8. ASSUME StatusReady PROVE RelayTyped'
  BY <1>3, <1>4, <1>8 DEF StatusReady, Refused, Results
<1>9. ASSUME SendUsb PROVE RelayTyped'
  BY <1>9, ExecutionTyped DEF SendUsb, Exchanges, Results
<1>10. ASSUME SendReceiver PROVE RelayTyped'
  <2>1. exchange' \in Exchanges
    BY <1>1, <1>4, <1>10 DEF SendReceiver, Results
  <2>2. radio' \in Radios
    BY <1>10 DEF SendReceiver, Radios, Exchanges
  <2> QED BY <1>10, <2>1, <2>2 DEF SendReceiver
<1>11. ASSUME ReplyFails PROVE RelayTyped'
  BY <1>4, <1>11 DEF ReplyFails, Results
<1>12. ASSUME ReplyReceived PROVE RelayTyped'
  <2>1. [exchange EXCEPT !.phase = "done", !.result = "ok", !.image = radio.reply.image,
                         !.command.mine = radio.reply.mine] \in Exchanges
    BY DEF Exchanges, Results, Radios, Replies, Commands
  <2>2. exchange' \in Exchanges
    BY <1>4, <1>12, <2>1 DEF ReplyReceived, Results
  <2>3. radio' \in Radios
    BY <1>12, NothingTyped DEF ReplyReceived, Radios
  <2> QED BY <1>12, <2>2, <2>3 DEF ReplyReceived
<1> QED BY <1>5, <1>6, <1>7, <1>8, <1>9, <1>10, <1>11, <1>12 DEF ExchangeStep

LEMMA RadioTyped ==
  ASSUME RelayTyped, RadioStep
  PROVE  RelayTyped'
<1> USE DEF RelayTyped
<1>1. ASSUME Carried PROVE RelayTyped'
  <2>1. radio.carrying \in Commands
    BY DEF Radios
  <2>2. [ready |-> TRUE, image |-> keyboard, mine |-> radio.carrying.mine] \in Replies
    BY <2>1 DEF Replies, Commands
  <2>3. radio' \in Radios
    BY <1>1, <2>2, NothingTyped DEF Carried, Radios
  <2>4. keyboard' \in Images
    BY <1>1, <2>1, ExecutionTyped DEF Carried
  <2> QED BY <1>1, <2>3, <2>4 DEF Carried
<1>2. ASSUME Dropped \/ Presence \/ Replug PROVE RelayTyped'
  BY <1>2, NothingTyped DEF Dropped, Presence, Replug, Radios
<1> QED BY <1>1, <1>2 DEF RadioStep

-----------------------------------------------------------------------------

LEMMA ReportTyped ==
  ASSUME job \in JobType, NEW outcome \in Outcomes, Report(outcome)
  PROVE  job' \in JobType
BY DEF Report, JobType, Stages, Outcomes, Recoveries

LEMMA FollowUpsTyped ==
  ASSUME NEW j \in JobType
  PROVE  Succeeded(j) \in JobType /\ Recover(j) \in JobType /\ WriteBack(j) \in JobType
<1>1. Succeeded(j) \in JobType
  BY DEF Succeeded, JobType, Stages, Outcomes
<1>2. Recover(j) \in JobType
  BY WritesNameCells DEF Recover, JobType, Stages
<1>3. WriteBack(j) \in JobType
  <2>1. <<"compare", "create", "sync">> \in Seq({"lock", "compare", "create", "sync", "open"})
    OBVIOUS
  <2> QED BY <2>1, WritesNameCells DEF WriteBack, JobType, Stages
<1> QED BY <1>1, <1>2, <1>3

LEMMA StartTyped ==
  ASSUME JobTyped, Start
  PROVE  JobTyped'
<1>1. PICK r \in Requests :
        job' = [NoJob EXCEPT !.kind = r.kind, !.expected = r.expected, !.target = r.target,
                             !.saved = r.expected, !.steps = Prelude(r.kind),
                             !.todo = Writes(r.kind, r.expected, r.target),
                             !.stage = "prelude"]
  BY DEF Start
<1>2. r.kind \in Kinds /\ r.expected \in Images /\ r.target \in Images
  BY RequestAssumption
<1>3. job' \in JobType
  BY <1>1, <1>2, PreludeSteps, WritesNameCells DEF NoJob, JobType, Stages, Outcomes
<1>4. jobs' \in 0 .. MaxJobs
  BY RequestAssumption DEF Start, JobTyped
<1> QED BY <1>3, <1>4 DEF Start, JobTyped

LEMMA PreludeTyped ==
  ASSUME JobTyped, Compare \/ TakeLock \/ Create \/ Sync \/ OpenDevice \/ PreludeFails \/ FinishFails,
         job.stage = "prelude" => job.steps # << >>
  PROVE  JobTyped'
<1> USE DEF JobTyped
<1> DEFINE Steps == Seq({"lock", "compare", "create", "sync", "open"})
<1>1. job.stage = "prelude" => Tail(job.steps) \in Steps
  BY DEF JobType
<1>2. \A step : PreludeStep(step) => job' \in JobType /\ UNCHANGED <<sent, jobs>>
  BY <1>1 DEF PreludeStep, JobType, Stages
<1>3. ASSUME Compare PROVE JobTyped'
  <2>1. [job EXCEPT !.steps = Tail(@)] \in JobType
    BY <1>1, <1>3 DEF JobType, Compare
  <2> QED BY <1>3, <2>1, FollowUpsTyped DEF Compare
<1>4. ASSUME TakeLock \/ Create \/ OpenDevice PROVE JobTyped'
  BY <1>2, <1>4 DEF TakeLock, Create, OpenDevice
<1>5. ASSUME Sync PROVE JobTyped'
  BY <1>2, <1>5 DEF Sync, JobType
<1>6. ASSUME PreludeFails \/ FinishFails PROVE JobTyped'
  BY <1>6, ReportTyped DEF PreludeFails, FinishFails, Outcomes, Recoveries
<1> QED BY <1>3, <1>4, <1>5, <1>6

LEMMA WritingTyped ==
  ASSUME RelayTyped, JobTyped,
         SetterAccepted \/ WriteFails \/ Written \/ RestoreFails \/ Restored,
         SetterAccepted => job.todo # << >>, RestoreFails => job.todo # << >>
  PROVE  JobTyped'
<1> USE DEF JobTyped
<1>1. sent' \in BOOLEAN \/ UNCHANGED sent
  BY DEF SetterAccepted, WriteFails, Written, RestoreFails, Restored, SetterEnded, MayHaveSent
<1>2. job.todo # << >> => Tail(job.todo) \in Seq(Cells)
  BY DEF JobType
<1>3. ASSUME SetterAccepted PROVE JobTyped'
  BY <1>1, <1>2, <1>3 DEF SetterAccepted, SetterEnded, JobType
<1>4. ASSUME WriteFails PROVE JobTyped'
  <2>1. job' \in JobType
    BY <1>4, FollowUpsTyped, ReportTyped DEF WriteFails, Outcomes, Recoveries
  <2> QED BY <1>1, <1>4, <2>1 DEF WriteFails, SetterEnded
<1>5. ASSUME Written PROVE JobTyped'
  <2>1. [job EXCEPT !.stage = "read"] \in JobType
    BY DEF JobType, Stages
  <2>2. job' \in JobType
    BY <1>5, <2>1, ReportTyped DEF Written, Outcomes
  <2> QED BY <1>5, <2>2 DEF Written
<1>6. ASSUME RestoreFails PROVE JobTyped'
  <2>1. [job EXCEPT !.todo = IF Head(@)[1] \in Layers THEN Tail(@) ELSE << >>] \in JobType
    <3> DEFINE rest == IF Head(job.todo)[1] \in Layers THEN Tail(job.todo) ELSE << >>
    <3>1. rest \in Seq(Cells)
      BY <1>2, <1>6
    <3>2. [job EXCEPT !.todo = rest] \in JobType
      BY <3>1 DEF JobType
    <3> QED BY <3>2
  <2>2. job' \in JobType
    BY <1>6, <2>1, ReportTyped DEF RestoreFails, Outcomes, Recoveries
  <2> QED BY <1>1, <1>6, <2>2 DEF RestoreFails, SetterEnded
<1>7. ASSUME Restored PROVE JobTyped'
  <2>1. job' \in JobType
    BY <1>7, WritesNameCells DEF Restored, JobType, Stages
  <2> QED BY <1>7, <2>1 DEF Restored
<1> QED BY <1>3, <1>4, <1>5, <1>6, <1>7

LEMMA ReadingTyped ==
  ASSUME RelayTyped, JobTyped, ReadBack \/ Observed \/ RestoreVerified
  PROVE  JobTyped'
<1> USE DEF JobTyped, ReadEnded
<1>1. ASSUME ReadBack PROVE JobTyped'
  BY <1>1, FollowUpsTyped DEF ReadBack
<1>2. ASSUME Observed PROVE JobTyped'
  <2>1. job' \in JobType
    <3>1. \A todo \in Seq(Cells) :
            [job EXCEPT !.stage = "restore", !.todo = todo] \in JobType
      BY DEF JobType, Stages
    <3>2. \A seen : SlotsToRestore(job.layer, seen, job.target, job.expected) \in Seq(Cells)
      BY WritesNameCells DEF SlotsToRestore
    <3>3. \E seen : job' = [job EXCEPT !.stage = "restore",
                                      !.todo = SlotsToRestore(job.layer, seen, job.target,
                                                              job.expected)]
      BY <1>2 DEF Observed
    <3> QED BY <3>1, <3>2, <3>3
  <2> QED BY <1>2, <2>1 DEF Observed
<1>3. ASSUME RestoreVerified PROVE JobTyped'
  <2>1. [job EXCEPT !.stage = "reread"] \in JobType
    BY DEF JobType, Stages
  <2>2. job' \in JobType
    BY <1>3, <2>1, ReportTyped DEF RestoreVerified, Outcomes, Recoveries
  <2> QED BY <1>3, <2>2 DEF RestoreVerified
<1> QED BY <1>1, <1>2, <1>3

LEMMA HostingTyped ==
  ASSUME RelayTyped, JobTyped, ParametersEnded \/ Finish \/ Return \/ Crash
  PROVE  JobTyped'
<1> USE DEF JobTyped
<1>1. ASSUME ParametersEnded PROVE JobTyped'
  <2>1. exchange.command.cell \in Cells /\ exchange.command.value \in Values
    BY DEF RelayTyped, Exchanges, Commands
  <2>2. [job EXCEPT !.target[exchange.command.cell] = exchange.command.value] \in JobType
    BY <2>1 DEF JobType, Images
  <2> QED BY <1>1, <2>2, FollowUpsTyped DEF ParametersEnded
<1>2. ASSUME Finish PROVE JobTyped'
  BY <1>2, FollowUpsTyped DEF Finish
<1> << >> \in Seq(Cells) /\ << >> \in Seq({"lock", "compare", "create", "sync", "open"})
  BY EmptySeq
<1>3. ASSUME Return PROVE JobTyped'
  <2>1. [job EXCEPT !.stage = "idle", !.todo = << >>, !.steps = << >>] \in JobType
    BY DEF JobType, Stages
  <2> QED BY <1>3, <2>1 DEF Return
<1>4. ASSUME Crash PROVE JobTyped'
  <2>1. [job EXCEPT !.stage = "crashed", !.todo = << >>, !.steps = << >>, !.outcome = "none"]
          \in JobType
    BY DEF JobType, Stages, Outcomes
  <2> QED BY <1>4, <2>1 DEF Crash, MayHaveSent
<1> QED BY <1>1, <1>2, <1>3, <1>4

-----------------------------------------------------------------------------
(* The exchange and the job, together. *)

Busy == exchange.phase # "idle"
Carrying == radio.carrying.kind

\* A reply that is passed on was made for this exchange by the receiver, which
\* carries no other command while this one is out.
ExchangeInv ==
    /\ exchange.phase \in {"await", "send", "reply"} => exchange.command.mine
    /\ exchange.phase = "await" => link = "receiver"
    /\ link = "usb" => Carrying = "none"
    /\ exchange.phase = "send" => Carrying = "none" /\ (link = "receiver" => ~ radio.reply.ready)
    /\ exchange.phase = "reply" =>
          /\ link = "receiver"
          /\ Carrying # "set" /\ (Carrying # "none" => radio.carrying.mine)
          /\ radio.reply.ready => radio.reply.mine /\ radio.reply.image = keyboard
    /\ exchange.phase = "done" /\ exchange.result = "ok" =>
          /\ exchange.command.mine
          /\ exchange.command.kind = "get" => exchange.image = keyboard /\ Carrying # "set"

\* The stages in which the job may talk to the keyboard, and for what.
Setting == {"write", "restore", "hosting"}
Working == Setting \cup Reading
Ahead(step) == \E i \in 1 .. Len(job.steps) : job.steps[i] = step

\* The job talks to the keyboard under the lock, sets what it means to set and
\* reads what it means to read.
TalkInv ==
    /\ Busy => job.stage \in Working
    /\ Busy /\ job.stage \in Setting => exchange.command.kind = "set"
    /\ Busy /\ job.stage \in Reading => exchange.command.kind = "get"
    /\ Busy /\ job.stage \in {"write", "restore"} => job.todo # << >>
    /\ job.stage \in Working => lock = "us"
    /\ job.stage = "prelude" =>
          /\ job.steps # << >> /\ job.steps[Len(job.steps)] # "compare"
          /\ ~ Ahead("lock") => lock = "us"
          /\ job.kind = "host" => \A n \in 2 .. Len(job.steps) : job.steps[n] # "lock"

\* The image to go back to is in a durable backup, or there is nothing to go
\* back from: nothing was written and nothing will be before a backup.
BackupInv ==
    /\ job.stage \in Working /\ job.stage # "hosting" => job.saved \in disk
    /\ job.stage = "hosting" /\ job.target # job.saved => job.saved \in disk
    /\ sent \/ (Busy /\ exchange.command.kind = "set") => job.saved \in disk
    /\ job.stage = "prelude" /\ ~ job.finishing =>
          /\ job.expected = job.saved /\ ~ sent
          /\ ~ Ahead("sync") => job.saved \in disk
    /\ job.stage = "prelude" /\ job.finishing =>
          \/ job.saved \in disk
          \/ job.target = job.expected /\ job.steps[1] = "compare"
    /\ job.stage = "write" /\ ~ job.prior /\ ~ job.finishing => ~ sent

\* An outcome that speaks of the keyboard is held until it is returned: nobody
\* else may write, and no command of ours is on its way.
OutcomeInv ==
    /\ OutcomeIsTrue
    /\ job.stage = "report" /\ (\/ job.outcome \in {"Verified", "Failed"}
                                \/ job.outcome = "ok" /\ job.kind \notin Submitted
                                     /\ job.expected # job.target) =>
          lock = "us" /\ Carrying # "set"

TransactionInv == ExchangeInv /\ TalkInv /\ BackupInv /\ OutcomeInv
-----------------------------------------------------------------------------
(* What a step means for the exchange. *)

\* A step of the job begins an exchange of its own, ends the one there is, or
\* leaves the relay alone.
LEMMA JobStepsOfExchange ==
  ASSUME JobTyped, JobStep \/ Crash \/ OtherLocks \/ OtherUnlocks
  PROVE  \/ \E command \in {Reader} \cup {Setter(c, v) : c \in Cells, v \in Values} :
               Begin(command) /\ UNCHANGED jobVars
         \/ exchange' = NoExchange /\ UNCHANGED <<keyboard, link, radio>>
         \/ UNCHANGED relayVars
<1> USE DEF relayVars, PreludeStep, SetterEnded, ReadEnded
<1>1. ASSUME Submit \/ Read \/ UpdateParameters
      PROVE  \E command \in {Reader} \cup {Setter(c, v) : c \in Cells, v \in Values} :
               Begin(command) /\ UNCHANGED jobVars
  <2>1. CASE Submit
    <3>1. Head(job.todo) \in Cells
      BY <2>1 DEF Submit, JobTyped, JobType
    <3>2. job.target[Head(job.todo)] \in Values /\ job.expected[Head(job.todo)] \in Values
      BY <3>1 DEF JobTyped, JobType, Images
    <3> QED BY <2>1, <3>1, <3>2 DEF Submit
  <2>2. CASE Read
    BY <2>2 DEF Read
  <2>3. CASE UpdateParameters
    BY <2>3 DEF UpdateParameters, Scope
  <2> QED BY <1>1, <2>1, <2>2, <2>3
<1>2. ASSUME SetterAccepted \/ WriteFails \/ RestoreFails \/ ReadBack \/ Observed
               \/ RestoreVerified \/ ParametersEnded \/ Crash
      PROVE  exchange' = NoExchange /\ UNCHANGED <<keyboard, link, radio>>
  BY <1>2 DEF SetterAccepted, WriteFails, RestoreFails, ReadBack, Observed, RestoreVerified,
              ParametersEnded, Crash
<1>3. ASSUME \/ Start \/ Compare \/ TakeLock \/ Create \/ Sync \/ OpenDevice \/ PreludeFails
             \/ Written \/ Restored \/ Finish \/ FinishFails \/ Return
             \/ OtherLocks \/ OtherUnlocks
      PROVE  UNCHANGED relayVars
  BY <1>3 DEF Start, Compare, TakeLock, Create, Sync, OpenDevice, PreludeFails, Written,
              Restored, Finish, FinishFails, Return, OtherLocks, OtherUnlocks
<1> QED BY <1>1, <1>2, <1>3 DEF JobStep

LEMMA ExchangeGoesOn ==
  ASSUME RelayTyped, ExchangeStep
  PROVE  Busy /\ Busy' /\ exchange'.command.kind = exchange.command.kind
<1> USE DEF Busy, RelayTyped, Exchanges, Done
<1>1. CASE StatusFails \/ StatusRejected \/ StatusBusy \/ StatusReady
  BY <1>1 DEF StatusFails, StatusRejected, StatusBusy, StatusReady, Refused
<1>2. CASE SendUsb
  BY <1>2 DEF SendUsb
<1>3. CASE SendReceiver \/ ReplyFails \/ ReplyLate
  BY <1>3 DEF SendReceiver, ReplyFails, ReplyLate
<1>4. CASE ReplyReceived
  <2>1. CASE Done("uncertain")
    BY <1>4, <2>1 DEF ReplyReceived
  <2>2. CASE exchange' = [exchange EXCEPT !.phase = "done", !.result = "ok",
                                          !.image = radio.reply.image,
                                          !.command.mine = radio.reply.mine]
    BY <1>4, <2>2 DEF ReplyReceived, Commands
  <2> QED BY <1>4, <2>1, <2>2 DEF ReplyReceived
<1> QED BY <1>1, <1>2, <1>3, <1>4 DEF ExchangeStep

LEMMA ExchangeKept ==
  ASSUME RelayTyped, ExchangeInv, TalkInv,
         \/ \E command \in Commands : command.mine /\ Begin(command)
         \/ exchange' = NoExchange /\ UNCHANGED <<keyboard, link, radio>>
         \/ UNCHANGED relayVars
  PROVE  ExchangeInv'
<1> USE DEF ExchangeInv, RelayTyped, Carrying
<1>1. ASSUME NEW command \in Commands, command.mine, Begin(command) PROVE ExchangeInv'
  BY <1>1 DEF Begin, NoExchange, NoCommand, Radios, Exchanges, Commands
<1>2. ASSUME exchange' = NoExchange, UNCHANGED <<keyboard, link, radio>> PROVE ExchangeInv'
  BY <1>2 DEF NoExchange
<1>3. ASSUME UNCHANGED relayVars PROVE ExchangeInv'
  BY <1>3 DEF relayVars
<1> QED BY <1>1, <1>2, <1>3

LEMMA ExchangeStepKept ==
  ASSUME RelayTyped, ExchangeInv, ExchangeStep
  PROVE  ExchangeInv'
<1> USE DEF ExchangeInv, RelayTyped, Carrying, Done, Exchanges, Radios
<1>1. ASSUME StatusFails \/ StatusRejected \/ StatusBusy PROVE ExchangeInv'
  BY <1>1 DEF StatusFails, StatusRejected, StatusBusy, Refused
<1>2. ASSUME StatusReady PROVE ExchangeInv'
  BY <1>2 DEF StatusReady, Refused, RejectedBy, CommandReady
<1>3. ASSUME SendUsb PROVE ExchangeInv'
  <2>1. PICK arrived \in BOOLEAN, result \in {"ok", "uncertain"} :
          /\ exchange' = [exchange EXCEPT !.phase = "done", !.result = result,
                            !.image = IF result = "ok" /\ exchange.command.kind = "get"
                                      THEN keyboard ELSE @]
          /\ exchange.command.kind # "set" => UNCHANGED keyboard
    BY <1>3 DEF SendUsb
  <2>2. exchange'.phase = "done" /\ exchange'.command = exchange.command
    BY <2>1
  <2>3. exchange.command.kind = "get" /\ exchange'.result = "ok" => exchange'.image = keyboard'
    BY <2>1
  <2>4. UNCHANGED <<link, radio>> /\ exchange.phase = "send" /\ link = "usb"
    BY <1>3 DEF SendUsb
  <2> QED BY <2>2, <2>3, <2>4
<1>4. ASSUME SendReceiver PROVE ExchangeInv'
  <2>1. exchange.phase = "send" /\ link = "receiver" /\ UNCHANGED <<keyboard, link>>
    BY <1>4 DEF SendReceiver
  <2>2. CASE Done("uncertain")
    BY <1>4, <2>1, <2>2 DEF SendReceiver
  <2>3. CASE /\ radio' = [radio EXCEPT !.carrying = exchange.command]
             /\ exchange.command.kind = "set" /\ Done("ok")
    BY <2>1, <2>3
  <2>4. CASE /\ radio' = [radio EXCEPT !.carrying = exchange.command]
             /\ exchange.command.kind # "set" /\ exchange' = [exchange EXCEPT !.phase = "reply"]
    BY <2>1, <2>4
  <2> QED BY <1>4, <2>2, <2>3, <2>4 DEF SendReceiver
<1>5. ASSUME ReplyFails \/ ReplyLate PROVE ExchangeInv'
  BY <1>5 DEF ReplyFails, ReplyLate
<1>6. ASSUME ReplyReceived PROVE ExchangeInv'
  <2>1. exchange.phase = "reply" /\ radio.reply.ready /\ UNCHANGED <<keyboard, link>>
    BY <1>6 DEF ReplyReceived
  <2>2. radio'.carrying = radio.carrying
    BY <1>6 DEF ReplyReceived
  <2>3. CASE Done("uncertain")
    BY <2>1, <2>2, <2>3
  <2>4. CASE exchange' = [exchange EXCEPT !.phase = "done", !.result = "ok",
                                          !.image = radio.reply.image,
                                          !.command.mine = radio.reply.mine]
    <3>1. exchange'.phase = "done" /\ exchange'.image = radio.reply.image
      BY <2>4
    <3>2. exchange'.command.mine = radio.reply.mine
      BY <2>4 DEF Commands
    <3> QED BY <2>1, <2>2, <3>1, <3>2
  <2> QED BY <1>6, <2>3, <2>4 DEF ReplyReceived
<1> QED BY <1>1, <1>2, <1>3, <1>4, <1>5, <1>6 DEF ExchangeStep

LEMMA RadioKept ==
  ASSUME RelayTyped, ExchangeInv, RadioStep
  PROVE  ExchangeInv'
<1> USE DEF ExchangeInv, RelayTyped, Carrying, Radios
<1>1. ASSUME Carried PROVE ExchangeInv'
  <2>1. radio.carrying.kind # "none" /\ UNCHANGED <<link, exchange>>
    BY <1>1 DEF Carried
  <2>2. radio'.carrying.kind = "none"
    <3>1. radio'.carrying = NoCommand
      BY <1>1 DEF Carried
    <3> QED BY <3>1 DEF NoCommand
  <2>3. CASE radio.carrying.kind = "set"
    <3>1. radio'.reply = radio.reply
      BY <1>1, <2>3 DEF Carried
    <3> QED BY <2>1, <2>2, <2>3, <3>1
  <2>4. CASE radio.carrying.kind # "set"
    <3>1. /\ radio'.reply = [ready |-> TRUE, image |-> keyboard, mine |-> radio.carrying.mine]
          /\ UNCHANGED keyboard
      BY <1>1, <2>4 DEF Carried
    <3>2. radio'.reply.image = keyboard' /\ radio'.reply.mine = radio.carrying.mine
      BY <3>1
    <3> QED BY <2>1, <2>2, <3>1, <3>2
  <2> QED BY <2>3, <2>4
<1>2. ASSUME Dropped \/ Presence \/ Replug PROVE ExchangeInv'
  BY <1>2 DEF Dropped, Presence, Replug, NoCommand, NoReply
<1> QED BY <1>1, <1>2 DEF RadioStep

-----------------------------------------------------------------------------
(* What a step means for the job. *)

\* The exchange, the receiver and another program change nothing of the job,
\* and of the keyboard only what the lock and the receiver's command allow.
LEMMA OutsideKept ==
  ASSUME RelayTyped, ExchangeInv, TalkInv, BackupInv, OutcomeInv,
         \/ ExchangeStep /\ UNCHANGED jobVars
         \/ RadioStep /\ UNCHANGED jobVars
         \/ OtherLocks \/ OtherWrites \/ OtherUnlocks
         \/ UNCHANGED vars
  PROVE  TalkInv' /\ BackupInv' /\ OutcomeInv'
<1> USE DEF jobVars, TalkInv, BackupInv, OutcomeInv, OutcomeIsTrue, MayHaveSent, Agree, Ahead
<1>1. ASSUME ExchangeStep, UNCHANGED jobVars PROVE TalkInv' /\ BackupInv' /\ OutcomeInv'
  <2>1. Busy /\ Busy' /\ exchange'.command.kind = exchange.command.kind
    BY <1>1, ExchangeGoesOn
  <2>2. job.stage \in Working /\ job.stage # "report"
    BY <2>1 DEF Working, Setting, Reading
  <2>3. TalkInv'
    BY <1>1, <2>1
  <2>4. BackupInv'
    BY <1>1, <2>1
  <2> QED BY <1>1, <2>2, <2>3, <2>4
<1>2. ASSUME RadioStep, UNCHANGED jobVars PROVE TalkInv' /\ BackupInv' /\ OutcomeInv'
  <2>1. UNCHANGED exchange
    BY <1>2 DEF RadioStep, Carried, Dropped, Presence, Replug
  <2>2. Carrying # "set" => UNCHANGED keyboard /\ Carrying' # "set"
    <3>1. radio'.carrying = NoCommand \/ radio'.carrying = radio.carrying
      BY <1>2 DEF RadioStep, Carried, Dropped, Presence, Replug, RelayTyped, Radios
    <3>2. Carrying # "set" => UNCHANGED keyboard
      BY <1>2 DEF RadioStep, Carried, Dropped, Presence, Replug, Carrying
    <3> QED BY <3>1, <3>2 DEF Carrying, NoCommand
  <2>3. TalkInv' /\ BackupInv'
    BY <1>2, <2>1 DEF Busy
  <2>4. OutcomeInv'
    BY <1>2, <2>1, <2>2
  <2> QED BY <2>3, <2>4
<1>3. ASSUME OtherWrites PROVE TalkInv' /\ BackupInv' /\ OutcomeInv'
  <2>1. lock = "other" /\ UNCHANGED <<exchange, radio, jobVars>>
    BY <1>3 DEF OtherWrites
  <2> QED BY <2>1 DEF Busy, Carrying
<1>4. ASSUME OtherLocks \/ OtherUnlocks PROVE TalkInv' /\ BackupInv' /\ OutcomeInv'
  <2>1. lock # "us" /\ UNCHANGED <<relayVars, job, disk, sent>>
    BY <1>4 DEF OtherLocks, OtherUnlocks
  <2> QED BY <2>1 DEF Busy, Carrying, relayVars
<1>5. ASSUME UNCHANGED vars PROVE TalkInv' /\ BackupInv' /\ OutcomeInv'
  BY <1>5 DEF Busy, Carrying, relayVars, vars
<1> QED BY <1>1, <1>2, <1>3, <1>4, <1>5

JobInv == TalkInv /\ BackupInv /\ OutcomeInv

LEMMA StartKept ==
  ASSUME JobTyped, JobInv, Start
  PROVE  JobInv'
<1>1. PICK r \in Requests :
        job' = [NoJob EXCEPT !.kind = r.kind, !.expected = r.expected, !.target = r.target,
                             !.saved = r.expected, !.steps = Prelude(r.kind),
                             !.todo = Writes(r.kind, r.expected, r.target),
                             !.stage = "prelude"]
  BY DEF Start
<1>2. /\ job'.stage = "prelude" /\ ~ job'.finishing /\ job'.steps = Prelude(r.kind)
      /\ job'.expected = job'.saved
  BY <1>1 DEF NoJob
<1>3. r.kind \in Kinds
  BY RequestAssumption
<1>4. ~ Busy /\ UNCHANGED relayVars /\ sent' = FALSE /\ UNCHANGED lock
  BY DEF Start, JobInv, TalkInv, Working, Setting, Reading
<1>5. \E n \in 1 .. 5 : Prelude(r.kind)[n] = "lock"
  BY <1>3 DEF Prelude, Kinds
<1>6. \E n \in 1 .. 5 : Prelude(r.kind)[n] = "sync"
  BY <1>3 DEF Prelude, Kinds
<1>7. Len(Prelude(r.kind)) = 5 /\ Prelude(r.kind)[5] # "compare" /\ Prelude(r.kind) # << >>
  BY <1>3 DEF Prelude, Kinds
<1>8. Ahead("lock")' /\ Ahead("sync")'
  BY <1>2, <1>5, <1>6, <1>7 DEF Ahead
<1>9. r.kind = "host" => \A n \in 2 .. 5 : Prelude(r.kind)[n] # "lock"
  BY DEF Prelude
<1>10. job'.kind = "host" => \A n \in 2 .. Len(job'.steps) : job'.steps[n] # "lock"
  BY <1>1, <1>2, <1>7, <1>9 DEF NoJob
<1>11. TalkInv'
  BY <1>2, <1>4, <1>7, <1>8, <1>10 DEF TalkInv, Working, Setting, Reading, Busy, relayVars
<1>12. BackupInv'
  BY <1>2, <1>4, <1>8 DEF BackupInv, Working, Setting, Reading, Busy, relayVars
<1>13. OutcomeInv'
  BY <1>2 DEF OutcomeInv, OutcomeIsTrue
<1> QED BY <1>11, <1>12, <1>13 DEF JobInv

\* What remains of the prelude once its first step is taken.
LEMMA StepTaken ==
  ASSUME job \in JobType, job.steps # << >>, job'.steps = Tail(job.steps)
  PROVE  /\ \A step : Ahead(step) /\ Head(job.steps) # step => Ahead(step)'
         /\ job.steps[Len(job.steps)] # Head(job.steps) => job'.steps # << >>
         /\ job'.steps # << >> => job'.steps[Len(job'.steps)] = job.steps[Len(job.steps)]
         /\ \A step : (\A n \in 2 .. Len(job.steps) : job.steps[n] # step) =>
                \A n \in 1 .. Len(job'.steps) : job'.steps[n] # step
<1>1. job.steps \in Seq({"lock", "compare", "create", "sync", "open"})
  BY DEF JobType
<1>2. /\ Len(job.steps) \in Nat \ {0} /\ Len(job'.steps) = Len(job.steps) - 1
      /\ \A n \in 1 .. Len(job'.steps) : job'.steps[n] = job.steps[n + 1]
      /\ Head(job.steps) = job.steps[1]
  BY <1>1
<1>3. ASSUME NEW step, Ahead(step), Head(job.steps) # step
      PROVE  Ahead(step)'
  <2>1. PICK n \in 1 .. Len(job.steps) : job.steps[n] = step
    BY <1>3 DEF Ahead
  <2>2. n - 1 \in 1 .. Len(job'.steps) /\ job'.steps[n - 1] = step
    BY <1>2, <1>3, <2>1
  <2> QED BY <2>2 DEF Ahead
<1>4. ASSUME job.steps[Len(job.steps)] # Head(job.steps) PROVE job'.steps # << >>
  <2>1. Len(job.steps) # 1
    BY <1>2, <1>4
  <2>2. Len(job'.steps) # 0
    BY <1>2, <2>1
  <2>3. Len(<< >>) = 0
    OBVIOUS
  <2> QED BY <2>2, <2>3, Zenon
<1>5. ASSUME job'.steps # << >>
      PROVE  job'.steps[Len(job'.steps)] = job.steps[Len(job.steps)]
  <2>1. job'.steps \in Seq({"lock", "compare", "create", "sync", "open"})
    BY <1>1
  <2>2. Len(job'.steps) \in 1 .. Len(job'.steps)
    BY <1>5, <2>1
  <2> QED BY <1>2, <2>2
<1>6. ASSUME NEW step, \A n \in 2 .. Len(job.steps) : job.steps[n] # step
      PROVE  \A n \in 1 .. Len(job'.steps) : job'.steps[n] # step
  BY <1>2, <1>6
<1> QED BY <1>3, <1>4, <1>5, <1>6

LEMMA PreludeKept ==
  ASSUME JobTyped, JobInv, NEW step, PreludeStep(step), step # "compare",
         step = "lock" => lock' = "us", step # "lock" => UNCHANGED lock,
         disk \subseteq disk', step = "sync" => job.expected \in disk'
  PROVE  JobInv'
<1>1. /\ job.stage = "prelude" /\ Head(job.steps) = step
      /\ UNCHANGED <<relayVars, sent>>
  BY DEF PreludeStep
<1>2. /\ job'.steps = Tail(job.steps)
      /\ job'.stage = IF Tail(job.steps) = << >> THEN "write" ELSE "prelude"
      /\ job'.expected = job.expected /\ job'.target = job.target /\ job'.saved = job.saved
      /\ job'.finishing = job.finishing /\ job'.kind = job.kind
  BY DEF PreludeStep, JobTyped, JobType
<1>3. job.steps # << >> /\ job.steps[Len(job.steps)] # "compare" /\ (~ Ahead("lock") => lock = "us")
  BY <1>1 DEF JobInv, TalkInv
<1>4. job.steps[1] # "compare"
  BY <1>1, <1>3 DEF JobTyped, JobType
<1>5. ~ Busy
  BY <1>1 DEF JobInv, TalkInv, Working, Setting, Reading
<1>6. ~ Ahead("lock")' => lock' = "us"
  <2>1. CASE step = "lock"
    BY <2>1
  <2>2. CASE step # "lock" /\ ~ Ahead("lock")
    BY <1>3, <2>2
  <2>3. CASE step # "lock" /\ Ahead("lock")
    BY <1>1, <1>2, <1>3, <2>3, StepTaken DEF JobTyped
  <2> QED BY <2>1, <2>2, <2>3
<1>7. ~ job.finishing /\ ~ Ahead("sync")' => job.saved \in disk'
  <2> SUFFICES ASSUME ~ job.finishing, ~ Ahead("sync")' PROVE job.saved \in disk'
    OBVIOUS
  <2>1. job.expected = job.saved /\ (~ Ahead("sync") => job.saved \in disk)
    BY <1>1 DEF JobInv, BackupInv
  <2>2. CASE step = "sync"
    BY <2>1, <2>2
  <2>3. CASE step # "sync"
    BY <1>1, <1>2, <1>3, <2>1, <2>3, StepTaken DEF JobTyped
  <2> QED BY <2>2, <2>3
<1>8. job'.steps = << >> => ~ Ahead("lock")' /\ ~ Ahead("sync")'
  <2>1. Len(<< >>) = 0 /\ 1 .. 0 = {}
    OBVIOUS
  <2>2. ASSUME job'.steps = << >> PROVE 1 .. Len(job'.steps) = {}
    BY <2>1, <2>2, Zenon
  <2> QED BY <2>2, Zenon DEF Ahead
<1>9. TalkInv'
  <2>1. job'.steps # << >> => job'.steps[Len(job'.steps)] # "compare"
    BY <1>2, <1>3, StepTaken DEF JobTyped
  <2>2. job'.kind = "host" => \A n \in 2 .. Len(job'.steps) : job'.steps[n] # "lock"
    BY <1>1, <1>2, <1>3, StepTaken DEF JobTyped, JobInv, TalkInv
  <2> QED BY <1>1, <1>2, <1>5, <1>6, <1>8, <2>1, <2>2
          DEF TalkInv, Working, Setting, Reading, Busy, relayVars
<1>10. BackupInv'
  <2>1. job.finishing => job.saved \in disk
    BY <1>1, <1>4 DEF JobInv, BackupInv
  <2>2. ~ job.finishing => job.expected = job.saved /\ ~ sent
    BY <1>1 DEF JobInv, BackupInv
  <2> QED BY <1>1, <1>2, <1>5, <1>7, <1>8, <2>1, <2>2
          DEF BackupInv, Working, Setting, Reading, Busy, relayVars
<1>11. OutcomeInv'
  BY <1>2 DEF OutcomeInv, OutcomeIsTrue
<1> QED BY <1>9, <1>10, <1>11 DEF JobInv

LEMMA CompareKept ==
  ASSUME JobTyped, JobInv, Compare
  PROVE  JobInv'
<1>1. /\ job.stage = "prelude" /\ Head(job.steps) = "compare"
      /\ UNCHANGED <<relayVars, lock, disk, sent>>
  BY DEF Compare
<1>2. ~ Busy
  BY <1>1 DEF JobInv, TalkInv, Working, Setting, Reading
<1>3. job.steps # << >> /\ job.steps[Len(job.steps)] # "compare" /\ (~ Ahead("lock") => lock = "us")
  BY <1>1 DEF JobInv, TalkInv
<1>4. CASE job.expected = job.target /\ job.kind = "host" /\ ~ job.finishing
  <2>1. /\ job'.stage = "hosting" /\ job'.target = job.target /\ job'.saved = job.saved
    BY <1>4 DEF Compare, Succeeded, JobTyped, JobType
  <2>2. job.target = job.saved /\ ~ sent
    BY <1>1, <1>4 DEF JobInv, BackupInv
  <2>3. lock = "us"
    <3>1. \A n \in 2 .. Len(job.steps) : job.steps[n] # "lock"
      BY <1>1, <1>4 DEF JobInv, TalkInv
    <3>2. job.steps[1] = "compare"
      BY <1>1, <1>3 DEF JobTyped, JobType
    <3>3. ~ Ahead("lock")
      BY <3>1, <3>2 DEF Ahead
    <3> QED BY <1>3, <3>3
  <2> QED BY <1>1, <1>2, <2>1, <2>2, <2>3
          DEF JobInv, TalkInv, BackupInv, OutcomeInv, OutcomeIsTrue, Working, Setting, Reading,
              Busy, relayVars
<1>5. CASE job.expected = job.target /\ ~ (job.kind = "host" /\ ~ job.finishing)
  <2>1. /\ job'.stage = "report" /\ job'.outcome = "ok" /\ job'.expected = job'.target
        /\ job'.saved = job.saved
    BY <1>5 DEF Compare, Succeeded, JobTyped, JobType
  <2>2. sent => job.saved \in disk
    BY DEF JobInv, BackupInv
  <2> QED BY <1>1, <1>2, <2>1, <2>2
          DEF JobInv, TalkInv, BackupInv, OutcomeInv, OutcomeIsTrue, Working, Setting, Reading,
              Busy, relayVars
<1>6. CASE job.expected # job.target
  <2>1. job' = [job EXCEPT !.steps = Tail(@)]
    BY <1>6 DEF Compare
  <2>2. /\ job'.stage = "prelude" /\ job'.steps = Tail(job.steps)
        /\ job'.expected = job.expected /\ job'.saved = job.saved
        /\ job'.finishing = job.finishing /\ job'.kind = job.kind /\ job'.target = job.target
    BY <1>1, <2>1 DEF JobTyped, JobType
  <2>3. /\ job'.steps # << >> /\ job'.steps[Len(job'.steps)] # "compare"
        /\ Ahead("lock") => Ahead("lock")'
        /\ Ahead("sync") => Ahead("sync")'
    BY <1>1, <1>3, <2>2, StepTaken DEF JobTyped
  <2>4. job.finishing => job.saved \in disk
    BY <1>1, <1>6 DEF JobInv, BackupInv
  <2>5. job'.kind = "host" => \A n \in 2 .. Len(job'.steps) : job'.steps[n] # "lock"
    BY <1>1, <1>3, <2>2, StepTaken DEF JobTyped, JobInv, TalkInv
  <2>6. TalkInv'
    BY <1>1, <1>2, <1>3, <2>2, <2>3, <2>5 DEF TalkInv, Working, Setting, Reading, Busy, relayVars
  <2>7. BackupInv'
    BY <1>1, <1>2, <2>2, <2>3, <2>4
       DEF JobInv, BackupInv, Working, Setting, Reading, Busy, relayVars
  <2> QED BY <2>2, <2>6, <2>7 DEF JobInv, OutcomeInv, OutcomeIsTrue
<1> QED BY <1>4, <1>5, <1>6

\* An outcome other than ok, with the exchange over.
LEMMA ReportKept ==
  ASSUME JobTyped, JobInv, NEW outcome \in Recoveries, Report(outcome),
         exchange'.phase = "idle", UNCHANGED <<keyboard, radio, lock, disk>>,
         sent' => job.saved \in disk,
         outcome = "NotAttempted" /\ ~ job.finishing => ~ sent',
         outcome \in {"Verified", "Failed"} => lock = "us" /\ Carrying # "set",
         outcome = "Verified" => Agree(keyboard, job.expected, job.kind),
         outcome = "Failed" => ~ Agree(keyboard, job.expected, job.kind)
  PROVE  JobInv'
<1>1. /\ job'.stage = "report" /\ job'.expected = job.expected /\ job'.kind = job.kind
      /\ job'.saved = job.saved
      /\ job'.outcome = IF job.finishing THEN "Unverified" ELSE outcome
  BY DEF Report, JobTyped, JobType, Recoveries
<1>2. TalkInv' /\ BackupInv'
  BY <1>1 DEF TalkInv, BackupInv, Working, Setting, Reading, Busy
<1>3. OutcomeIsTrue'
  BY <1>1 DEF OutcomeIsTrue, MayHaveSent, Agree, Recoveries
<1>4. OutcomeInv'
  BY <1>1, <1>3 DEF OutcomeInv, Carrying, Recoveries
<1> QED BY <1>2, <1>4 DEF JobInv

LEMMA FailuresKept ==
  ASSUME JobTyped, JobInv, PreludeFails \/ FinishFails
  PROVE  JobInv'
<1>1. /\ job.stage = "prelude" /\ Report("NotAttempted")
      /\ UNCHANGED <<relayVars, lock, disk, sent>>
  BY DEF PreludeFails, FinishFails
<1>2. ~ Busy
  BY <1>1 DEF JobInv, TalkInv, Working, Setting, Reading
<1>3. (sent => job.saved \in disk) /\ (~ job.finishing => ~ sent)
  BY <1>1 DEF JobInv, BackupInv
<1> QED BY <1>1, <1>2, <1>3, ReportKept DEF Recoveries, relayVars, Busy

LEMMA BeginKept ==
  ASSUME JobTyped, JobInv, Submit \/ Read \/ UpdateParameters
  PROVE  JobInv'
<1>1. /\ UNCHANGED <<keyboard, jobVars>> /\ ~ Busy
  BY DEF Submit, Read, UpdateParameters, Begin, Busy, jobVars
<1>2. job.stage \in Working
  BY DEF Submit, Read, UpdateParameters, Working, Setting
<1>3. CASE Submit
  <2>1. /\ job.stage \in {"write", "restore"} /\ job.todo # << >>
        /\ exchange'.command.kind = "set"
    BY <1>3 DEF Submit, Begin, Setter, NoExchange
  <2> QED BY <1>1, <1>2, <2>1
          DEF JobInv, TalkInv, BackupInv, OutcomeInv, OutcomeIsTrue, jobVars, Ahead,
              Working, Setting, Reading
<1>4. CASE Read
  <2>1. job.stage \in Reading /\ exchange'.command.kind = "get"
    BY <1>4 DEF Read, Begin, Reader, NoExchange
  <2> QED BY <1>1, <1>2, <2>1
          DEF JobInv, TalkInv, BackupInv, OutcomeInv, OutcomeIsTrue, jobVars, Ahead,
              Working, Setting, Reading
<1>5. CASE UpdateParameters
  <2>1. /\ job.stage = "hosting" /\ job.target # job.saved
        /\ exchange'.command.kind = "set"
    <3>1. PICK c \in Scope("host"), v \in Values :
            job.target[c] # job.saved[c] /\ Begin(Setter(c, v))
      BY <1>5 DEF UpdateParameters
    <3>2. job.target # job.saved
      BY <3>1
    <3>3. exchange'.command.kind = "set"
      BY <3>1 DEF Begin, Setter, NoExchange
    <3> QED BY <1>5, <3>2, <3>3 DEF UpdateParameters
  <2> QED BY <1>1, <1>2, <2>1
          DEF JobInv, TalkInv, BackupInv, OutcomeInv, OutcomeIsTrue, jobVars, Ahead,
              Working, Setting, Reading
<1> QED BY <1>3, <1>4, <1>5

\* What every end of an exchange of the job leaves.
LEMMA SetterEndKept ==
  ASSUME JobTyped, JobInv, NEW result, SetterEnded(result)
  PROVE  /\ exchange'.phase = "idle" /\ UNCHANGED <<keyboard, link, radio, lock, disk>>
         /\ job.stage \in {"write", "restore"} /\ lock = "us" /\ job.saved \in disk
         /\ job.todo # << >>
         /\ sent' = (sent \/ result # "refused")
<1>1. /\ job.stage \in {"write", "restore"} /\ exchange.phase = "done" /\ exchange.result = result
      /\ exchange' = NoExchange /\ sent' = MayHaveSent
      /\ UNCHANGED <<keyboard, link, radio, lock, disk>>
  BY DEF SetterEnded
<1>2. Busy /\ exchange.command.kind = "set" /\ lock = "us" /\ job.todo # << >>
  BY <1>1 DEF JobInv, TalkInv, Busy, Working, Setting
<1>3. job.saved \in disk
  BY <1>1 DEF JobInv, BackupInv, Working, Setting
<1>4. sent' = (sent \/ result # "refused")
  BY <1>1, <1>2 DEF MayHaveSent
<1> QED BY <1>1, <1>2, <1>3, <1>4 DEF NoExchange

\* What Recover leaves of the job.
LEMMA Recovering ==
  ASSUME job \in JobType
  PROVE  LET j == Recover(job)
         IN /\ j.stage \in {"observe", "restore"} /\ j.saved = job.saved
            /\ j.expected = job.expected /\ j.target = job.target
BY DEF Recover, JobType

LEMMA SettersKept ==
  ASSUME JobTyped, JobInv, SetterAccepted \/ WriteFails \/ RestoreFails
  PROVE  JobInv'
<1> USE DEF Working, Setting, Reading, Busy
<1>1. CASE SetterAccepted
  <2>1. SetterEnded("ok") /\ job' = [job EXCEPT !.todo = Tail(@), !.prior = TRUE]
    BY <1>1 DEF SetterAccepted
  <2>2. job'.stage = job.stage /\ job'.prior /\ job'.saved = job.saved
    BY <2>1 DEF JobTyped, JobType
  <2> QED BY <2>1, <2>2, SetterEndKept
          DEF JobInv, TalkInv, BackupInv, OutcomeInv, OutcomeIsTrue
<1>2. CASE WriteFails
  <2>1. PICK result \in {"refused", "uncertain"} :
          /\ SetterEnded(result)
          /\ IF NoneSent(result) THEN Report("NotAttempted")
             ELSE IF job.kind \in Submitted THEN Report("Unverified")
             ELSE job' = Recover(job)
    BY <1>2 DEF WriteFails
  <2>2. job.stage = "write"
    BY <1>2 DEF WriteFails
  <2>3. CASE NoneSent(result)
    <3>1. ~ job.finishing => ~ sent'
      BY <2>1, <2>2, <2>3, SetterEndKept DEF NoneSent, JobInv, BackupInv
    <3> QED BY <2>1, <2>3, <3>1, SetterEndKept, ReportKept DEF Recoveries
  <2>4. CASE ~ NoneSent(result) /\ job.kind \in Submitted
    BY <2>1, <2>4, SetterEndKept, ReportKept DEF Recoveries
  <2>5. CASE ~ NoneSent(result) /\ job.kind \notin Submitted
    <3>1. job'.stage \in {"observe", "restore"} /\ job'.saved = job.saved
      BY <2>1, <2>5, Recovering DEF JobTyped
    <3> QED BY <2>1, <3>1, SetterEndKept
            DEF JobInv, TalkInv, BackupInv, OutcomeInv, OutcomeIsTrue
  <2> QED BY <2>3, <2>4, <2>5
<1>3. CASE RestoreFails
  <2>1. PICK result \in {"refused", "uncertain"} :
          /\ SetterEnded(result)
          /\ IF job.kind = "archive"
             THEN job' = [job EXCEPT !.todo = IF Head(@)[1] \in Layers THEN Tail(@) ELSE << >>]
             ELSE Report("Unverified")
    BY <1>3 DEF RestoreFails
  <2>2. job.stage = "restore"
    BY <1>3 DEF RestoreFails
  <2>3. CASE job.kind = "archive"
    <3>1. job'.stage = "restore" /\ job'.saved = job.saved
      BY <2>1, <2>2, <2>3 DEF JobTyped, JobType
    <3> QED BY <2>1, <3>1, SetterEndKept
            DEF JobInv, TalkInv, BackupInv, OutcomeInv, OutcomeIsTrue
  <2>4. CASE job.kind # "archive"
    BY <2>1, <2>4, SetterEndKept, ReportKept DEF Recoveries
  <2> QED BY <2>3, <2>4
<1> QED BY <1>1, <1>2, <1>3

LEMMA ListsKept ==
  ASSUME JobTyped, JobInv, Written \/ Restored
  PROVE  JobInv'
<1> USE DEF Working, Setting, Reading, Busy
<1>1. /\ job.stage \in {"write", "restore"} /\ job.todo = << >>
      /\ UNCHANGED <<relayVars, lock, disk, sent>>
  BY DEF Written, Restored
<1>2. ~ Busy /\ lock = "us" /\ job.saved \in disk
  BY <1>1 DEF JobInv, TalkInv, BackupInv
<1>3. CASE Written /\ job.kind \in Submitted
  <2>1. /\ job'.stage = "report" /\ job'.saved = job.saved /\ job'.kind = job.kind
        /\ job'.outcome = "ok"
    BY <1>3 DEF Written, Report, JobTyped, JobType
  <2> QED BY <1>1, <1>2, <1>3, <2>1
          DEF JobInv, TalkInv, BackupInv, OutcomeInv, OutcomeIsTrue, relayVars
<1>4. CASE \/ Written /\ job.kind \notin Submitted
           \/ Restored
  <2>1. job'.stage \in {"read", "observe", "restore", "verify"} /\ job'.saved = job.saved
    BY <1>1, <1>4 DEF Written, Restored, JobTyped, JobType
  <2> QED BY <1>1, <1>2, <2>1
          DEF JobInv, TalkInv, BackupInv, OutcomeInv, OutcomeIsTrue, relayVars
<1> QED BY <1>3, <1>4

\* A read that came back shows the keyboard as it is, under the lock and with
\* no setter on its way.
LEMMA ReadEndKept ==
  ASSUME JobTyped, ExchangeInv, JobInv, NEW ok \in BOOLEAN, ReadEnded(ok)
  PROVE  /\ exchange'.phase = "idle" /\ UNCHANGED <<keyboard, link, radio, lock, disk, sent>>
         /\ lock = "us" /\ job.saved \in disk
         /\ ok => exchange.image = keyboard /\ Carrying # "set"
<1>1. /\ job.stage \in Reading /\ exchange.phase = "done" /\ ok = (exchange.result = "ok")
      /\ exchange' = NoExchange /\ UNCHANGED <<keyboard, link, radio, lock, disk, sent>>
  BY DEF ReadEnded
<1>2. exchange.command.kind = "get" /\ lock = "us"
  BY <1>1 DEF JobInv, TalkInv, Busy, Working
<1>3. job.saved \in disk
  BY <1>1 DEF JobInv, BackupInv, Working, Reading
<1>4. ok => exchange.image = keyboard /\ Carrying # "set"
  BY <1>1, <1>2 DEF ExchangeInv
<1> QED BY <1>1, <1>2, <1>3, <1>4 DEF NoExchange

LEMMA ReadsKept ==
  ASSUME JobTyped, ExchangeInv, JobInv, ReadBack \/ Observed \/ RestoreVerified
  PROVE  JobInv'
<1> USE DEF Working, Setting, Reading, Busy
<1>1. ASSUME job'.stage \in {"observe", "restore", "reread"}, job'.saved = job.saved,
             NEW ok \in BOOLEAN, ReadEnded(ok)
      PROVE  JobInv'
  BY <1>1, ReadEndKept DEF JobInv, TalkInv, BackupInv, OutcomeInv, OutcomeIsTrue
<1>2. CASE ReadBack
  <2>1. CASE job' = Recover(job)
    <3>1. \E ok \in BOOLEAN : ReadEnded(ok)
      BY <1>2 DEF ReadBack
    <3> QED BY <1>1, <2>1, <3>1, Recovering DEF JobTyped
  <2>2. CASE job' # Recover(job)
    <3>1. ReadEnded(TRUE) /\ Verified(exchange.image) /\ job' = Succeeded(job)
      BY <1>2, <2>2 DEF ReadBack
    <3>2. /\ lock = "us" /\ Carrying # "set" /\ job.saved \in disk
          /\ Agree(keyboard, job.target, job.kind)
          /\ exchange'.phase = "idle" /\ UNCHANGED <<keyboard, radio, lock, disk, sent>>
      BY <3>1, ReadEndKept DEF Verified
    <3>3. /\ job'.saved = job.saved /\ job'.target = job.target /\ job'.kind = job.kind
          /\ \/ job'.stage = "hosting"
             \/ job'.stage = "report" /\ job'.outcome = "ok"
      BY <3>1 DEF Succeeded, JobTyped, JobType
    <3>4. TalkInv' /\ BackupInv'
      BY <3>2, <3>3 DEF TalkInv, BackupInv
    <3>5. OutcomeInv'
      BY <3>2, <3>3 DEF OutcomeInv, OutcomeIsTrue, Carrying, Agree
    <3> QED BY <3>4, <3>5 DEF JobInv
  <2> QED BY <2>1, <2>2
<1>3. CASE Observed
  <2>1. \E ok \in BOOLEAN : ReadEnded(ok)
    BY <1>3 DEF Observed
  <2>2. job'.stage = "restore" /\ job'.saved = job.saved
    BY <1>3 DEF Observed, JobTyped, JobType
  <2> QED BY <1>1, <2>1, <2>2
<1>4. CASE RestoreVerified
  <2>1. CASE /\ ReadEnded(TRUE)
             /\ Report(IF Agree(exchange.image, job.expected, job.kind) THEN "Verified"
                       ELSE "Failed")
    <3>1. /\ exchange.image = keyboard /\ lock = "us" /\ Carrying # "set" /\ job.saved \in disk
          /\ exchange'.phase = "idle" /\ UNCHANGED <<keyboard, radio, lock, disk, sent>>
      BY <2>1, ReadEndKept
    <3>2. CASE Agree(keyboard, job.expected, job.kind)
      BY <2>1, <3>1, <3>2, ReportKept DEF Recoveries
    <3>3. CASE ~ Agree(keyboard, job.expected, job.kind)
      BY <2>1, <3>1, <3>3, ReportKept DEF Recoveries
    <3> QED BY <3>2, <3>3
  <2>2. CASE ReadEnded(FALSE) /\ Report("Unverified")
    BY <2>2, ReadEndKept, ReportKept DEF Recoveries
  <2>3. CASE ReadEnded(FALSE) /\ job' = [job EXCEPT !.stage = "reread"]
    <3>1. job'.stage = "reread" /\ job'.saved = job.saved
      BY <2>3 DEF JobTyped, JobType
    <3> QED BY <1>1, <2>3, <3>1
  <2> QED BY <1>4, <2>1, <2>2, <2>3 DEF RestoreVerified
<1> QED BY <1>2, <1>3, <1>4

LEMMA WriteBackKept ==
  ASSUME JobTyped, JobInv, job.stage = "hosting", job' = WriteBack(job),
         exchange'.phase = "idle", UNCHANGED <<keyboard, radio, lock, disk, sent>>
  PROVE  JobInv'
<1> USE DEF Working, Setting, Reading, Busy
<1>1. /\ job'.stage = "prelude" /\ job'.finishing /\ job'.saved = job.saved
      /\ job'.expected = job.target /\ job'.target = job.saved
      /\ job'.steps = <<"compare", "create", "sync">>
  BY DEF WriteBack, JobTyped, JobType
<1>2. lock = "us" /\ (job.target # job.saved \/ sent => job.saved \in disk)
  BY DEF JobInv, TalkInv, BackupInv
<1>3. /\ job'.steps # << >> /\ Len(job'.steps) = 3 /\ job'.steps[1] = "compare"
      /\ job'.steps[3] = "sync" /\ \A n \in 2 .. 3 : job'.steps[n] # "lock"
  BY <1>1
<1>4. TalkInv' /\ BackupInv'
  BY <1>1, <1>2, <1>3 DEF TalkInv, BackupInv
<1> QED BY <1>1, <1>4 DEF JobInv, OutcomeInv, OutcomeIsTrue

LEMMA HostingKept ==
  ASSUME JobTyped, JobInv, ParametersEnded \/ Finish
  PROVE  JobInv'
<1> USE DEF Busy
<1>1. CASE ParametersEnded /\ exchange.result = "ok"
  <2>1. /\ job.stage = "hosting" /\ exchange.phase = "done" /\ exchange' = NoExchange
        /\ UNCHANGED <<keyboard, link, radio, lock, disk, sent>>
        /\ job'.stage = "hosting" /\ job'.saved = job.saved
    BY <1>1 DEF ParametersEnded, JobTyped, JobType
  <2>2. job.saved \in disk /\ lock = "us"
    BY <2>1 DEF JobInv, TalkInv, BackupInv, Working, Setting
  <2> QED BY <2>1, <2>2
          DEF JobInv, TalkInv, BackupInv, OutcomeInv, OutcomeIsTrue, Working, Setting, Reading,
              NoExchange
<1>2. CASE \/ ParametersEnded /\ exchange.result # "ok"
           \/ Finish
  <2>1. /\ job.stage = "hosting" /\ job' = WriteBack(job) /\ exchange'.phase = "idle"
        /\ UNCHANGED <<keyboard, radio, lock, disk, sent>>
    BY <1>2 DEF ParametersEnded, Finish, relayVars, NoExchange
  <2> QED BY <2>1, WriteBackKept
<1> QED BY <1>1, <1>2

LEMMA EndsKept ==
  ASSUME JobTyped, JobInv, Return \/ Crash
  PROVE  JobInv'
<1> USE DEF Busy, Working, Setting, Reading
<1>1. CASE Return
  <2>1. /\ job.stage = "report" /\ job'.stage = "idle" /\ job'.saved = job.saved
        /\ UNCHANGED <<relayVars, disk, sent>>
    BY <1>1 DEF Return, JobTyped, JobType
  <2> QED BY <2>1 DEF JobInv, TalkInv, BackupInv, OutcomeInv, OutcomeIsTrue, relayVars
<1>2. CASE Crash
  <2>1. /\ job'.stage = "crashed" /\ job'.saved = job.saved /\ exchange'.phase = "idle"
        /\ UNCHANGED disk /\ sent' = MayHaveSent
    BY <1>2 DEF Crash, JobTyped, JobType, NoExchange
  <2>2. MayHaveSent => job.saved \in disk
    BY DEF MayHaveSent, JobInv, BackupInv
  <2> QED BY <2>1, <2>2 DEF JobInv, TalkInv, BackupInv, OutcomeInv, OutcomeIsTrue
<1> QED BY <1>1, <1>2
\* What the job sends is its own.
LEMMA OwnCommands ==
  \A command \in {Reader} \cup {Setter(c, v) : c \in Cells, v \in Values} :
      command \in Commands /\ command.mine
<1>1. AnyCell \in Cells /\ AnyValue \in Values
  BY MemoryAssumption DEF AnyCell, AnyValue
<1>2. Reader \in Commands /\ Reader.mine
  BY <1>1 DEF Reader, Commands
<1>3. ASSUME NEW c \in Cells, NEW v \in Values
      PROVE  Setter(c, v) \in Commands /\ Setter(c, v).mine
  BY DEF Setter, Commands
<1> QED BY <1>2, <1>3

\* A step of the job, and the end of the program, keep every part.
LEMMA JobStepsTyped ==
  ASSUME RelayTyped, JobTyped, JobInv, JobStep \/ Crash
  PROVE  RelayTyped' /\ JobTyped'
<1> DEFINE Sent == {Reader} \cup {Setter(c, v) : c \in Cells, v \in Values}
<1>1. RelayTyped'
  <2>1. Sent \subseteq Commands
    BY OwnCommands
  <2>2. \/ \E command \in Sent : Begin(command)
        \/ exchange' = NoExchange /\ UNCHANGED <<keyboard, link, radio>>
        \/ UNCHANGED relayVars
    BY JobStepsOfExchange
  <2>3. ASSUME NEW command \in Sent, Begin(command) PROVE RelayTyped'
    BY <2>1, <2>3, BeginTyped
  <2>4. ASSUME exchange' = NoExchange, UNCHANGED <<keyboard, link, radio>> PROVE RelayTyped'
    BY <2>4, NothingTyped DEF RelayTyped
  <2>5. ASSUME UNCHANGED relayVars PROVE RelayTyped'
    BY <2>5 DEF RelayTyped, relayVars
  <2> QED BY <2>2, <2>3, <2>4, <2>5
<1>2. CASE Start
  BY <1>1, <1>2, StartTyped
<1>3. CASE Compare \/ TakeLock \/ Create \/ Sync \/ OpenDevice \/ PreludeFails \/ FinishFails
  <2>1. job.stage = "prelude" => job.steps # << >>
    BY DEF JobInv, TalkInv
  <2> QED BY <1>1, <1>3, <2>1, PreludeTyped
<1>4. CASE SetterAccepted \/ WriteFails \/ Written \/ RestoreFails \/ Restored
  <2>1. (SetterAccepted => job.todo # << >>) /\ (RestoreFails => job.todo # << >>)
    BY SetterEndKept DEF SetterAccepted, RestoreFails
  <2> QED BY <1>1, <1>4, <2>1, WritingTyped
<1>5. CASE ReadBack \/ Observed \/ RestoreVerified
  BY <1>1, <1>5, ReadingTyped
<1>6. CASE ParametersEnded \/ Finish \/ Return \/ Crash
  BY <1>1, <1>6, HostingTyped
<1>7. CASE Submit \/ Read \/ UpdateParameters
  BY <1>1, <1>7 DEF Submit, Read, UpdateParameters, jobVars, JobTyped
<1> QED BY <1>2, <1>3, <1>4, <1>5, <1>6, <1>7 DEF JobStep

LEMMA JobStepsKept ==
  ASSUME RelayTyped, JobTyped, ExchangeInv, JobInv, JobStep \/ Crash
  PROVE  ExchangeInv' /\ JobInv'
<1> DEFINE Sent == {Reader} \cup {Setter(c, v) : c \in Cells, v \in Values}
<1>1. ExchangeInv'
  <2>1. \A command \in Sent : command \in Commands /\ command.mine
    BY OwnCommands
  <2>2. \/ \E command \in Sent : Begin(command)
        \/ exchange' = NoExchange /\ UNCHANGED <<keyboard, link, radio>>
        \/ UNCHANGED relayVars
    BY JobStepsOfExchange
  <2>3. \/ \E command \in Commands : command.mine /\ Begin(command)
        \/ exchange' = NoExchange /\ UNCHANGED <<keyboard, link, radio>>
        \/ UNCHANGED relayVars
    BY <2>1, <2>2
  <2> QED BY <2>3, ExchangeKept DEF JobInv
<1>2. CASE Start
  BY <1>1, <1>2, StartKept
<1>3. CASE Compare
  BY <1>1, <1>3, CompareKept
<1>4. CASE TakeLock
  BY <1>1, <1>4, PreludeKept DEF TakeLock
<1>5. CASE Create
  BY <1>1, <1>5, PreludeKept DEF Create
<1>6. CASE Sync
  BY <1>1, <1>6, PreludeKept DEF Sync
<1>7. CASE OpenDevice
  BY <1>1, <1>7, PreludeKept DEF OpenDevice
<1>8. CASE PreludeFails \/ FinishFails
  BY <1>1, <1>8, FailuresKept
<1>9. CASE Submit \/ Read \/ UpdateParameters
  BY <1>1, <1>9, BeginKept
<1>10. CASE SetterAccepted \/ WriteFails \/ RestoreFails
  BY <1>1, <1>10, SettersKept
<1>11. CASE Written \/ Restored
  BY <1>1, <1>11, ListsKept
<1>12. CASE ReadBack \/ Observed \/ RestoreVerified
  BY <1>1, <1>12, ReadsKept
<1>13. CASE ParametersEnded \/ Finish
  BY <1>1, <1>13, HostingKept
<1>14. CASE Return \/ Crash
  BY <1>1, <1>14, EndsKept
<1> QED BY <1>1, <1>2, <1>3, <1>4, <1>5, <1>6, <1>7, <1>8, <1>9, <1>10, <1>11, <1>12, <1>13,
           <1>14 DEF JobStep
-----------------------------------------------------------------------------
(* The theorems. *)

\* The variables keep their types, and the exchange, the backup and the outcome
\* the invariants above, whatever the requests, the faults and the crashes.
THEOREM TransactionInvariant == Spec => [](TypeOK /\ TransactionInv)
<1> DEFINE Inv == TypeOK /\ TransactionInv
<1>1. Init => Inv
  <2> SUFFICES ASSUME Init PROVE Inv
    OBVIOUS
  <2>1. RelayTyped
    BY NothingTyped DEF Init, RelayInit, RelayTyped, Radios
  <2>2. JobTyped
    <3>1. << >> \in Seq({"lock", "compare", "create", "sync", "open"}) /\ << >> \in Seq(Cells)
      BY EmptySeq
    <3>2. NoJob \in JobType
      BY <3>1, NothingTyped DEF NoJob, JobType, Kinds, Stages, Outcomes
    <3>3. job = NoJob /\ lock = "free" /\ disk = {} /\ sent = FALSE /\ jobs = 0
      BY DEF Init
    <3>4. 0 \in 0 .. MaxJobs
      BY RequestAssumption
    <3> QED BY <3>2, <3>3, <3>4 DEF JobTyped
  <2>3. ExchangeInv
    BY DEF Init, RelayInit, ExchangeInv, NoExchange, NoCommand, NoReply, Carrying
  <2>4. JobInv
    BY DEF Init, RelayInit, NoJob, NoExchange, JobInv, TalkInv, BackupInv, OutcomeInv,
           OutcomeIsTrue, Busy, Working, Setting, Reading
  <2>5. TypeOK
    BY <2>1, <2>2 DEF TypeOK, RelayTyped, JobTyped
  <2> QED BY <2>3, <2>4, <2>5 DEF TransactionInv, JobInv
<1>2. Inv /\ [Next]_vars => Inv'
  <2> SUFFICES ASSUME Inv, [Next]_vars PROVE Inv'
    OBVIOUS
  <2>1. RelayTyped /\ JobTyped /\ ExchangeInv /\ JobInv
    BY DEF TypeOK, RelayTyped, JobTyped, TransactionInv, JobInv
  <2>2. CASE \/ ExchangeStep /\ UNCHANGED jobVars
             \/ RadioStep /\ UNCHANGED jobVars
             \/ OtherLocks \/ OtherWrites \/ OtherUnlocks \/ UNCHANGED vars
    <3>1. JobInv'
      BY <2>1, <2>2, OutsideKept DEF JobInv
    <3>2. RelayTyped' /\ JobTyped' /\ ExchangeInv'
      <4>1. CASE ExchangeStep /\ UNCHANGED jobVars
        BY <2>1, <4>1, ExchangeTyped, ExchangeStepKept DEF JobTyped, jobVars
      <4>2. CASE RadioStep /\ UNCHANGED jobVars
        BY <2>1, <4>2, RadioTyped, RadioKept DEF JobTyped, jobVars
      <4>3. CASE OtherWrites
        <5>1. keyboard' \in Images /\ UNCHANGED <<link, radio, exchange, jobVars>> /\ lock = "other"
          BY <4>3, RequestAssumption DEF OtherWrites
        <5>2. ~ Busy
          BY <2>1, <5>1 DEF JobInv, TalkInv
        <5> QED BY <2>1, <5>1, <5>2 DEF RelayTyped, JobTyped, jobVars, ExchangeInv, Busy, Carrying
      <4>4. CASE OtherLocks \/ OtherUnlocks \/ UNCHANGED vars
        <5>1. UNCHANGED relayVars /\ UNCHANGED <<job, disk, sent, jobs>>
          BY <4>4 DEF OtherLocks, OtherUnlocks, vars, jobVars
        <5>2. lock' \in {"free", "us", "other"}
          BY <2>1, <4>4 DEF OtherLocks, OtherUnlocks, vars, jobVars, JobTyped
        <5>3. ExchangeInv'
          BY <2>1, <5>1, ExchangeKept DEF JobInv
        <5> QED BY <2>1, <5>1, <5>2, <5>3 DEF RelayTyped, JobTyped, relayVars
      <4> QED BY <2>2, <4>1, <4>2, <4>3, <4>4
    <3>3. TypeOK'
      BY <3>2 DEF TypeOK, RelayTyped, JobTyped
    <3> QED BY <3>1, <3>2, <3>3 DEF TransactionInv, JobInv
  <2>3. CASE JobStep \/ Crash
    <3>1. RelayTyped' /\ JobTyped'
      BY <2>1, <2>3, JobStepsTyped
    <3>2. ExchangeInv' /\ JobInv'
      BY <2>1, <2>3, JobStepsKept
    <3>3. TypeOK'
      BY <3>1 DEF TypeOK, RelayTyped, JobTyped
    <3> QED BY <3>2, <3>3 DEF TransactionInv, JobInv
  <2> QED BY <2>2, <2>3 DEF Next
<1> QED BY <1>1, <1>2, PTL DEF Spec

\* The outcome of a write is true of the keyboard (transaction.rs
\* apply_with_recovery).
THEOREM OutcomesAreTrue == Spec => []OutcomeIsTrue
<1>1. TransactionInv => OutcomeIsTrue
  BY DEF TransactionInv, OutcomeInv
<1> QED BY <1>1, TransactionInvariant, PTL

\* Nothing is set before the image it replaces is in a durable backup, which
\* outlives the program (transaction.rs save_custom_backup).
THEOREM AlwaysBackedUp == Spec => []BackedUp
<1>1. TransactionInv => BackedUp
  BY DEF TransactionInv, BackupInv, BackedUp, MayHaveSent, Busy
<1> QED BY <1>1, TransactionInvariant, PTL

\* No read is answered by the reply to an earlier one (receiver.rs
\* before_command).
THEOREM RepliesAnswerCommands == Spec => []ReplyAnswersCommand
<1>1. TransactionInv => ReplyAnswersCommand
  BY DEF TransactionInv, ExchangeInv, ReplyAnswersCommand
<1> QED BY <1>1, TransactionInvariant, PTL
===========================================================================
