------------------------------- MODULE Relay -------------------------------
(***************************************************************************)
(* One exchange between the program and a Nia87 keyboard: a setter or a    *)
(* read, over the cable or through the 3151:4011 receiver                  *)
(* (nia87/device/transport.rs, byakko-protocol nia87/receiver.rs).         *)
(*                                                                         *)
(* The program side is `exchange'.  The receiver and the keyboard are not  *)
(* code of this repository: `radio' and `keyboard' say what the code in    *)
(* transport.rs relies on.  A receiver carries at most one command to the  *)
(* keyboard, and says it is ready for a command only when it carries none. *)
(***************************************************************************)
EXTENDS Naturals, FiniteSets

CONSTANTS Cells,     \* the cells of the keyboard: <<memory, place>>
          Values,    \* the contents of a cell
          MaxPolls   \* receiver::MAX_POLLS

ASSUME PollsAssumption == MaxPolls \in Nat \ {0}
ASSUME MemoryAssumption == IsFiniteSet(Cells) /\ Cells # {} /\ Values # {}

VARIABLES keyboard,  \* the contents of the keyboard
          link,      \* "usb" or "receiver"
          radio,     \* what the receiver holds
          exchange   \* the exchange the program is in

relayVars == <<keyboard, link, radio, exchange>>

Images == [Cells -> Values]

(* A command sets one cell or reads the keyboard.  "mine" says that the    *)
(* exchange in progress sent it; a command that outlives its exchange is   *)
(* an earlier one.                                                         *)
Commands == [kind : {"none", "set", "get"}, cell : Cells, value : Values, mine : BOOLEAN]
Replies  == [ready : BOOLEAN, image : Images, mine : BOOLEAN]
Radios   == [online : BOOLEAN, carrying : Commands, reply : Replies]
Results  == {"none", "ok", "refused", "uncertain"}
Exchanges == [phase : {"idle", "await", "send", "reply", "done"}, command : Commands,
              polls : 0 .. MaxPolls - 1, result : Results, image : Images]

AnyCell  == CHOOSE c \in Cells : TRUE
AnyValue == CHOOSE v \in Values : TRUE
AnyImage == [c \in Cells |-> AnyValue]

NoCommand == [kind |-> "none", cell |-> AnyCell, value |-> AnyValue, mine |-> FALSE]
NoReply   == [ready |-> FALSE, image |-> AnyImage, mine |-> FALSE]
Setter(cell, value) == [kind |-> "set", cell |-> cell, value |-> value, mine |-> TRUE]
Reader   == [kind |-> "get", cell |-> AnyCell, value |-> AnyValue, mine |-> TRUE]
NoExchange == [phase |-> "idle", command |-> NoCommand, polls |-> 0,
               result |-> "none", image |-> AnyImage]

(* A setter changes its cell.  When keymap setters follow each other too   *)
(* closely the firmware may also write the cell of the other layer at the  *)
(* same place (transaction.rs, pacing).                                    *)
Crossed(cell) == IF cell[1] = "base" THEN {<<"fn", cell[2]>>}
                 ELSE IF cell[1] = "fn" THEN {<<"base", cell[2]>>} ELSE {}
Executions(command, image) ==
    {[c \in Cells |-> IF c \in written THEN command.value ELSE image[c]] :
        written \in {{command.cell}, {command.cell} \cup (Crossed(command.cell) \cap Cells)}}

---------------------------------------------------------------------------
(* The exchange begins.  Over the cable the command is sent at once; a     *)
(* receiver is polled first.  What an earlier exchange left with the       *)
(* receiver is not this one's.                                             *)
Begin(command) ==
    /\ exchange.phase = "idle"
    /\ exchange' = [NoExchange EXCEPT !.phase = IF link = "usb" THEN "send" ELSE "await",
                                      !.command = command]
    /\ radio' = [radio EXCEPT !.carrying.mine = FALSE, !.reply.mine = FALSE]
    /\ UNCHANGED <<keyboard, link>>

Done(result) == exchange' = [exchange EXCEPT !.phase = "done", !.result = result]

(* An exchange that ends before the logical send is typed                  *)
(* SetterNotAttempted (a read error when the command is a read).           *)
Refused == Done("refused")

(* The status request or its reply fails, or the status does not decode.   *)
StatusFails ==
    /\ exchange.phase = "await"
    /\ Refused
    /\ UNCHANGED <<keyboard, link, radio>>

(* Status::before_command: the keyboard is offline, or the reply to an     *)
(* earlier command waits and nothing could tell it from the reply to this. *)
FaultyRejectedBy(r) == ~ r.online
RejectedBy(r) == ~ r.online \/ r.reply.ready

StatusRejected ==
    /\ exchange.phase = "await"
    /\ RejectedBy(radio)
    /\ Refused
    /\ UNCHANGED <<keyboard, link, radio>>

(* Not ready for a command: polled again, and refused after MAX_POLLS.  A  *)
(* receiver may be busy with something else than a command of ours.        *)
StatusBusy ==
    /\ exchange.phase = "await"
    /\ ~ RejectedBy(radio)
    /\ IF exchange.polls + 1 = MaxPolls
       THEN Refused
       ELSE exchange' = [exchange EXCEPT !.polls = @ + 1]
    /\ UNCHANGED <<keyboard, link, radio>>

CommandReady(r) == r.carrying.kind = "none"

(* Ready: the keyboard is selected, which may fail, and then the command   *)
(* is sent.                                                                *)
StatusReady ==
    /\ exchange.phase = "await"
    /\ ~ RejectedBy(radio)
    /\ CommandReady(radio)
    /\ \/ Refused
       \/ exchange' = [exchange EXCEPT !.phase = "send", !.polls = 0]
    /\ UNCHANGED <<keyboard, link, radio>>

(* The logical send, over the cable: the keyboard executes the command and *)
(* a read returns its contents, or the transfer fails and nobody knows     *)
(* whether the command arrived.                                            *)
SendUsb ==
    /\ exchange.phase = "send" /\ link = "usb"
    /\ \E arrived \in BOOLEAN, result \in {"ok", "uncertain"} :
          /\ result = "ok" => arrived
          /\ exchange' = [exchange EXCEPT !.phase = "done", !.result = result,
                            !.image = IF result = "ok" /\ exchange.command.kind = "get"
                                      THEN keyboard ELSE @]
          /\ IF arrived /\ exchange.command.kind = "set"
             THEN keyboard' \in Executions(exchange.command, keyboard)
             ELSE UNCHANGED keyboard
    /\ UNCHANGED <<link, radio>>

(* The logical send to the receiver.  A setter is done when the receiver   *)
(* has it; a read goes on to wait for its reply.                           *)
SendReceiver ==
    /\ exchange.phase = "send" /\ link = "receiver"
    /\ \/ /\ radio' = [radio EXCEPT !.carrying = exchange.command]
          /\ IF exchange.command.kind = "set"
             THEN Done("ok")
             ELSE exchange' = [exchange EXCEPT !.phase = "reply"]
       \/ /\ \/ UNCHANGED radio
             \/ radio' = [radio EXCEPT !.carrying = exchange.command]
          /\ Done("uncertain")
    /\ UNCHANGED <<keyboard, link>>

(* Waiting for the reply: a failed status or an offline keyboard ends the  *)
(* read; so does the last poll without a reply.  Nothing is sent again.    *)
ReplyFails ==
    /\ exchange.phase = "reply"
    /\ Done("uncertain")
    /\ UNCHANGED <<keyboard, link, radio>>

ReplyLate ==
    /\ exchange.phase = "reply"
    /\ radio.online /\ ~ radio.reply.ready
    /\ IF exchange.polls + 1 = MaxPolls
       THEN Done("uncertain")
       ELSE exchange' = [exchange EXCEPT !.polls = @ + 1]
    /\ UNCHANGED <<keyboard, link, radio>>

(* The reply is there: it is released and received.  Receiving may fail,   *)
(* with the reply released or not.                                         *)
ReplyReceived ==
    /\ exchange.phase = "reply"
    /\ radio.online /\ radio.reply.ready
    /\ \/ /\ exchange' = [exchange EXCEPT !.phase = "done", !.result = "ok",
                                          !.image = radio.reply.image,
                                          !.command.mine = radio.reply.mine]
          /\ radio' = [radio EXCEPT !.reply = NoReply]
       \/ /\ Done("uncertain")
          /\ \/ UNCHANGED radio
             \/ radio' = [radio EXCEPT !.reply = NoReply]
    /\ UNCHANGED <<keyboard, link>>

ExchangeStep ==
    \/ StatusFails \/ StatusRejected \/ StatusBusy \/ StatusReady
    \/ SendUsb \/ SendReceiver \/ ReplyFails \/ ReplyLate \/ ReplyReceived

---------------------------------------------------------------------------
(* The receiver brings its command to the keyboard, and a read's reply     *)
(* back, or loses it.                                                      *)
Carried ==
    /\ radio.carrying.kind # "none" /\ radio.online
    /\ IF radio.carrying.kind = "set"
       THEN /\ keyboard' \in Executions(radio.carrying, keyboard)
            /\ radio' = [radio EXCEPT !.carrying = NoCommand]
       ELSE /\ radio' = [radio EXCEPT !.carrying = NoCommand,
                                      !.reply = [ready |-> TRUE, image |-> keyboard,
                                                 mine |-> radio.carrying.mine]]
            /\ UNCHANGED keyboard
    /\ UNCHANGED <<link, exchange>>

Dropped ==
    /\ radio.carrying.kind # "none"
    /\ radio' = [radio EXCEPT !.carrying = NoCommand]
    /\ UNCHANGED <<keyboard, link, exchange>>

(* The keyboard sleeps and wakes.                                          *)
Presence ==
    /\ link = "receiver"
    /\ radio' = [radio EXCEPT !.online = ~ @]
    /\ UNCHANGED <<keyboard, link, exchange>>

(* The user unplugs and reconnects the receiver, as RelayError advises.    *)
Replug ==
    /\ link = "receiver" /\ exchange.phase = "idle"
    /\ radio' = [radio EXCEPT !.carrying = NoCommand, !.reply = NoReply]
    /\ radio' # radio
    /\ UNCHANGED <<keyboard, link, exchange>>

RadioStep == Carried \/ Dropped \/ Presence \/ Replug

RelayInit ==
    /\ keyboard = AnyImage
    /\ link \in {"usb", "receiver"}
    /\ radio = [online |-> TRUE, carrying |-> NoCommand, reply |-> NoReply]
    /\ exchange = NoExchange
===========================================================================
