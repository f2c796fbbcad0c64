--------------------------- MODULE BrowserProofs ---------------------------
(***************************************************************************)
(* Theorems about the page: one connection at a time uses the keyboard,    *)
(* and lighting presented as verified is what the keyboard shows.          *)
(***************************************************************************)
EXTENDS BrowserSafety, SequenceTheorems, TLAPS

(* Sequences. *)

IsSeq(q) == q \in Seq({q[i] : i \in DOMAIN q})

\* Every sequence is one in this sense.
LEMMA SeqIsSeq ==
  ASSUME NEW S, NEW q \in Seq(S) PROVE IsSeq(q)
<1> DEFINE T == {q[i] : i \in DOMAIN q}
<1>1. q \in [1..Len(q) -> T] /\ Len(q) \in Nat
  OBVIOUS
<1> QED BY <1>1, SeqDef DEF IsSeq

\* A sequence is the function of its indices, and empty when it has none.
LEMMA SeqFacts ==
  ASSUME NEW q, IsSeq(q)
  PROVE  /\ Len(q) \in Nat /\ DOMAIN q = 1..Len(q) /\ q = [i \in 1..Len(q) |-> q[i]]
         /\ q = << >> <=> Len(q) = 0
<1> DEFINE S == {q[i] : i \in DOMAIN q}
<1>1. q \in Seq(S)
  BY DEF IsSeq
<1> HIDE DEF S
<1>2. Len(q) \in Nat /\ q \in [1..Len(q) -> S]
  BY <1>1
<1>3. q # << >> => Len(q) # 0
  BY <1>1, EmptySeq
<1> QED BY <1>2, <1>3

\* A function of 1 .. n is a sequence of n elements.
LEMMA FcnIsSeq ==
  ASSUME NEW n \in Nat, NEW q, q = [i \in 1..n |-> q[i]] PROVE IsSeq(q) /\ Len(q) = n
<1> DEFINE T == {q[i] : i \in DOMAIN q}
<1>1. DOMAIN q = 1..n
  OBVIOUS
<1>2. q \in [1..n -> T]
  BY <1>1
<1> HIDE DEF T
<1>3. q \in Seq(T)
  BY <1>2, SeqDef
<1> QED BY <1>1, <1>3, SeqIsSeq

\* The empty sequence.
LEMMA EmptyIsSeq == IsSeq(<< >>) /\ Len(<< >>) = 0 /\ DOMAIN << >> = {}
<1>1. IsSeq(<< >>) /\ Len(<< >>) = 0
  BY EmptySeq, SeqIsSeq
<1>2. DOMAIN << >> = 1..0 /\ 1..0 = {}
  BY <1>1, SeqFacts
<1> QED BY <1>1, <1>2

\* Appending adds one element behind the others.
LEMMA Appended ==
  ASSUME NEW q, NEW x, IsSeq(q)
  PROVE  /\ IsSeq(Append(q, x)) /\ Len(q) \in Nat /\ Len(Append(q, x)) = Len(q) + 1
         /\ \A i \in DOMAIN q : i \in DOMAIN Append(q, x) /\ Append(q, x)[i] = q[i]
         /\ DOMAIN Append(q, x) = DOMAIN q \cup {Len(q) + 1} /\ Len(q) + 1 \notin DOMAIN q
         /\ Append(q, x)[Len(q) + 1] = x /\ Append(q, x) # << >>
<1> DEFINE S == {q[i] : i \in DOMAIN q} \cup {x}
<1>1. q \in Seq(S) /\ x \in S
  BY DEF IsSeq
<1> HIDE DEF S
<1>2. Append(q, x) \in Seq(S) /\ Len(q) \in Nat /\ Len(Append(q, x)) = Len(q) + 1
  BY <1>1
<1>3. /\ \A i \in 1..Len(q) : Append(q, x)[i] = q[i]
      /\ Append(q, x)[Len(q) + 1] = x
  BY <1>1
<1>4. DOMAIN q = 1..Len(q) /\ DOMAIN Append(q, x) = 1..(Len(q) + 1)
  BY <1>1, <1>2
<1>5. Append(q, x) # << >>
  BY <1>2, EmptyIsSeq
<1>6. 1..(Len(q) + 1) = 1..Len(q) \cup {Len(q) + 1} /\ Len(q) + 1 \notin 1..Len(q)
  BY <1>2
<1>7. IsSeq(Append(q, x))
  BY <1>2, SeqIsSeq
<1> QED BY <1>2, <1>3, <1>4, <1>5, <1>6, <1>7

\* Taking the head moves every other element one place forward.
LEMMA TailFacts ==
  ASSUME NEW q, IsSeq(q), q # << >>
  PROVE  /\ IsSeq(Tail(q)) /\ 1 \in DOMAIN q /\ Head(q) = q[1]
         /\ \A i \in DOMAIN Tail(q) :
              i \in Nat /\ i + 1 \in DOMAIN q /\ i + 1 # 1 /\ Tail(q)[i] = q[i + 1]
         /\ \A i, j \in DOMAIN Tail(q) : i + 1 = j + 1 => i = j
<1> DEFINE S == {q[i] : i \in DOMAIN q}
<1>1. q \in Seq(S)
  BY DEF IsSeq
<1> HIDE DEF S
<1>2. /\ Tail(q) \in Seq(S) /\ Len(Tail(q)) = Len(q) - 1
      /\ \A i \in 1..Len(Tail(q)) : Tail(q)[i] = q[i + 1]
  BY <1>1, HeadTailProperties
<1>3. Head(q) = q[1] /\ Len(q) \in Nat \ {0}
  BY <1>1, EmptySeq
<1>4. DOMAIN Tail(q) = 1..Len(Tail(q)) /\ DOMAIN q = 1..Len(q)
  BY <1>1, <1>2
<1>5. IsSeq(Tail(q))
  BY <1>2, SeqIsSeq
<1>6. 1 \in DOMAIN q
  BY <1>3, <1>4
<1>7. /\ \A i \in DOMAIN Tail(q) :
              i \in Nat /\ i + 1 \in DOMAIN q /\ i + 1 # 1 /\ Tail(q)[i] = q[i + 1]
      /\ \A i, j \in DOMAIN Tail(q) : i + 1 = j + 1 => i = j
  BY <1>2, <1>3, <1>4
<1> QED BY <1>3, <1>5, <1>6, <1>7

\* A function of the same indices is a sequence too.
LEMMA Mapped ==
  ASSUME NEW q, NEW f, IsSeq(q), DOMAIN f = DOMAIN q, f = [i \in DOMAIN f |-> f[i]]
  PROVE  IsSeq(f)
BY SeqFacts, FcnIsSeq
-----------------------------------------------------------------------------
(* What the page consists of. *)

PageFields ==
  {"generation", "connects", "pending", "lighting", "keymap", "scan", "scans", "recording",
   "hosting", "hosts", "task", "closing", "force", "listener", "timer", "recorder", "host",
   "settled", "executors"}
ExecutorFields == {"active", "at", "job", "answer", "foreground", "catalogs"}
JobFields ==
  {"kind", "by", "step", "slot", "value", "scan", "cancelled", "awaited", "connection"}
EditorFields == {"baseline", "draft", "submitted", "status"}
HostFields == {"phase", "activity", "stopping", "frame", "problem", "draining", "saved"}

HostKinds == {"Start", "Stop", "Frame"}
SessionKinds == {"Keymap", "Lighting", "Apply"}
Kinds == HostKinds \cup SessionKinds \cup {"Identity", "Catalog"}

\* The steps of a job before its last one.
Steps(kind) ==
  CASE kind = "Start" -> {"backup", "write", "verify", "restore", "restored"}
    [] kind = "Stop" -> {"backup", "write", "verify"}
    [] kind = "Apply" -> {"backup", "write"}
    [] kind = "Frame" -> {"write"}
    [] OTHER -> {"exchange"}

\* A job of connection g.
IsJob(j, g) ==
  /\ JobFields \subseteq DOMAIN j
  /\ j.kind \in Kinds /\ (j.by = "host" <=> j.kind \in HostKinds)
  /\ j.connection = g

Busy == {"io", "wait", "refused"}

\* An executor with jobs of connection g.
Sound(x, g) ==
  /\ ExecutorFields \subseteq DOMAIN x
  /\ x.at \in Busy \cup {"idle", "yield"}
  /\ IsSeq(x.foreground) /\ IsSeq(x.catalogs)
  /\ \A i \in DOMAIN x.foreground :
       /\ IsJob(x.foreground[i], g) /\ x.foreground[i].kind # "Catalog"
       /\ x.foreground[i].step = FirstStep(x.foreground[i].kind)
  /\ \A i \in DOMAIN x.catalogs :
       /\ IsJob(x.catalogs[i], g) /\ x.catalogs[i].kind = "Catalog"
       /\ x.catalogs[i].step = "exchange"
  /\ x.at \in Busy => IsJob(x.job, g) /\ x.job.step \in Steps(x.job.kind)

Shaped(p) ==
  /\ PageFields \subseteq DOMAIN p /\ HostFields \subseteq DOMAIN p.host
  /\ DOMAIN p.executors = Connections
  /\ \A c \in Connections : Sound(p.executors[c], p.connects)
  /\ IsSeq(p.settled) /\ \A i \in DOMAIN p.settled : IsJob(p.settled[i], p.connects)

-----------------------------------------------------------------------------
(* Where jobs are. *)

In(s, K) == {i \in DOMAIN s : s[i].kind \in K}
Running(x, K) == x.at \in Busy /\ x.job.kind \in K
One(places) == \A i, j \in places : i = j

\* At an executor and among the jobs it has settled there is at most one job of
\* the kinds K, and it is of a kind in E.
FlightAt(s, x, K, E) ==
  /\ One(In(s, K)) /\ One(In(x.foreground, K))
  /\ In(s, K) # {} => ~Running(x, K) /\ In(x.foreground, K) = {}
  /\ Running(x, K) => In(x.foreground, K) = {} /\ x.job.kind \in E
  /\ \A i \in In(s, K) : s[i].kind \in E
  /\ \A i \in In(x.foreground, K) : x.foreground[i].kind \in E
Flight(p, K, E) ==
  p.connects \in Connections => FlightAt(p.settled, p.executors[p.connects], K, E)

\* Neither connected nor disconnecting from a keyboard still in use.
AtRest(p) == ~Connected(p) /\ p.closing \notin {"Listener", "Executor"}

\* Only the last connection has jobs, and none once it is disconnected.
Placed(p) ==
  /\ p.connects \in 0 .. MaxConnections /\ p.generation \in {0, p.connects}
  /\ p.connects = 0 => AtRest(p)
  /\ \A c \in Connections : c # p.connects => Finished(p.executors[c])
  /\ AtRest(p) =>
       p.settled = <<>> /\ \A c \in Connections : Finished(p.executors[c])
  /\ p.closing \in {"No", "Host", "Listener", "Executor", "Device"}
  /\ p.closing = "Host" => Connected(p)
  /\ p.closing \in {"Listener", "Executor", "Device"} => ~Connected(p)
  /\ p.recording => Connected(p)
  /\ p.task = "Choosing" =>
       ~Connected(p) /\ p.closing = "No" /\ p.connects < MaxConnections

\* The jobs of the host controller that are to be expected in flight.
HostExpected(h) ==
  IF h.phase \in {"Idle", "Preparing"} \/ (h.activity /\ ~h.draining) THEN {}
  ELSE IF h.activity THEN {"Stop", "Frame"} ELSE {"Start"}
Hosted(p) ==
  /\ p.host.phase \in {"Idle", "Preparing", "Starting", "Active", "Stopping"}
  /\ {p.host.activity, p.host.draining, p.host.stopping, p.host.problem} \subseteq BOOLEAN
  /\ p.host.phase # "Idle" => Connected(p)
  /\ p.host.draining => p.host.activity
  /\ p.host.phase = "Active" => p.host.activity
  /\ p.host.phase = "Stopping" => p.host.stopping
  /\ p.host.phase = "Preparing" => ~p.host.activity
  /\ p.closing = "Host" => p.host.phase \in {"Idle", "Stopping"}

Ordered(p, E) ==
  Shaped(p) /\ Placed(p) /\ Hosted(p) /\ Flight(p, HostKinds, E)
PageInvariant == "shown" \in DOMAIN keyboard /\ Ordered(page, HostExpected(page.host))

-----------------------------------------------------------------------------
(* What jobs say of the keyboard, which shows `shown`. *)

\* A waiting or running job: lighting of a save is a value, host lighting goes
\* back to what was saved.
Meant(j, saved) ==
  /\ j.kind = "Apply" => j.value \in Values
  /\ j.kind \in {"Start", "Stop"} => j.value = saved
Told(j, saved, shown) ==
  /\ j.kind \in {"Lighting", "Apply"} =>
       /\ j.value.kind \in {"ok", "error"}
       /\ j.value.kind = "ok" => j.value.snapshot = Snapshot(shown)
  /\ j.kind \in {"Start", "Stop"} =>
       /\ j.value \in {"NotAttempted", "Verified", "Restored", "Unverified", "Started"}
       /\ j.kind = "Stop" => j.value # "Started"
       /\ j.value \in {"NotAttempted", "Verified", "Restored"} => shown = saved
Unsent(j) == j.kind = "Start" /\ j.step \in {"backup", "write"}
Content(s, x, saved, shown) ==
  /\ \A i \in DOMAIN s : Told(s[i], saved, shown)
  /\ \A i \in DOMAIN x.foreground :
       Meant(x.foreground[i], saved) /\ (Unsent(x.foreground[i]) => shown = saved)
  /\ x.at \in Busy => Meant(x.job, saved)
  /\ x.at \in {"io", "refused"} /\ Unsent(x.job) => shown = saved
  /\ x.at = "wait" =>
       /\ x.job.step \in Writes /\ x.answer.attempted = TRUE /\ x.answer.ok \in BOOLEAN
       /\ x.answer.ok /\ x.job.kind = "Apply" => shown = x.job.value
Honest(p, shown) ==
  p.connects \in Connections =>
    Content(p.settled, p.executors[p.connects], p.host.saved, shown)

Hosting(p) == p.host.phase \notin {"Idle", "Preparing"}
\* The operation that is pending is the one in flight; a value is edited.
EditorHeld(p, shown) ==
  /\ p.pending \in SessionKinds \cup {None}
  /\ EditorFields \subseteq DOMAIN p.lighting /\ p.lighting.draft \in Values \cup {None}
  /\ Connected(p) => Flight(p, SessionKinds, {p.pending} \ {None})
  /\ shown \in Values \cup 1 .. p.connects
  /\ p.closing = "Host" /\ ~p.force => ~Writing(p)
LightingTrue(p, shown) ==
  Connected(p) /\ Ready(p.lighting) /\ ~Writing(p) /\ p.hosting = "Idle" =>
    p.lighting.baseline = Snapshot(shown)
\* Host lighting keeps the lighting to come back to, and a problem is noted if
\* it is still shown once it is over.
HostHeld(p, shown) ==
  /\ p.hosting # "Idle" <=> Hosting(p)
  /\ Hosting(p) => /\ p.pending = None /\ p.host.saved \in Values
                   /\ p.lighting.baseline = Snapshot(p.host.saved)
  /\ Connected(p) /\ shown = p.generation => p.host.problem \/ Hosting(p)
Presented(p, shown) == EditorHeld(p, shown) /\ LightingTrue(p, shown) /\ HostHeld(p, shown)

Truthful(p, shown) == Honest(p, shown) /\ Presented(p, shown)
TruthInvariant == Truthful(page, keyboard.shown)
-----------------------------------------------------------------------------
(* Moving a job. *)

\* q differs from p in the jobs under way and the catalog asked for.
Same(p, q) ==
  /\ DOMAIN q = DOMAIN p
  /\ q.generation = p.generation /\ q.connects = p.connects /\ q.pending = p.pending
  /\ q.lighting = p.lighting /\ q.keymap = p.keymap
  /\ q.recording = p.recording /\ q.hosting = p.hosting /\ q.hosts = p.hosts /\ q.task = p.task
  /\ q.closing = p.closing /\ q.force = p.force /\ q.listener = p.listener
  /\ q.timer = p.timer /\ q.recorder = p.recorder /\ q.host = p.host

\* Appending a job adds its place when it is of the kinds asked for.
LEMMA AppendedFlight ==
  ASSUME NEW s, NEW j, NEW K, IsSeq(s)
  PROVE  In(Append(s, j), K) = In(s, K) \cup (IF j.kind \in K THEN {Len(s) + 1} ELSE {})
BY Appended DEF In

\* A job taken leaves what is in flight behind it, or nothing.
LEMMA TailFlight ==
  ASSUME NEW s, NEW K, IsSeq(s), s # << >>, One(In(s, K))
  PROVE  /\ One(In(Tail(s), K))
         /\ In(s, K) = {} => In(Tail(s), K) = {}
         /\ Head(s).kind \in K => In(Tail(s), K) = {} /\ 1 \in In(s, K)
         /\ \A i \in In(Tail(s), K) : i + 1 \in In(s, K) /\ Tail(s)[i] = s[i + 1]
<1>1. \A i \in In(Tail(s), K) : i + 1 \in In(s, K) /\ i + 1 # 1 /\ Tail(s)[i] = s[i + 1]
  BY TailFacts DEF In
<1>2. One(In(Tail(s), K))
  BY <1>1, TailFacts DEF One, In
<1>3. Head(s).kind \in K => 1 \in In(s, K)
  BY TailFacts DEF In
<1> QED BY <1>1, <1>2, <1>3 DEF One

\* An executor begins the first of its waiting jobs.
LEMMA BeginFacts ==
  ASSUME NEW x, NEW job, NEW g, ExecutorFields \subseteq DOMAIN x
  PROVE  LET y == Begin(x, job)
         IN /\ DOMAIN y = DOMAIN x /\ y.at \in {"io", "refused"} /\ y.job = job
            /\ y.foreground = x.foreground /\ y.catalogs = x.catalogs /\ y.active = x.active
            /\ y.at = "io" <=> ~(job.cancelled \/ ~x.active)
BY DEF Begin, ExecutorFields

\* Jobs s and executor x became t and y: what is in flight among them, apart
\* from catalogs, is what was.
Kept(s, x, t, y) ==
  \A K, E : "Catalog" \notin K /\ FlightAt(s, x, K, E) => FlightAt(t, y, K, E)

\* What a pump leaves of an executor.
Pumped(x, y) ==
  \/ y = x
  \/ /\ x.at = "idle" /\ x.foreground # << >>
     /\ y = Begin([x EXCEPT !.foreground = Tail(@)], Head(x.foreground))
  \/ /\ x.at = "idle" /\ x.foreground = << >> /\ x.catalogs # << >>
     /\ y = Begin([x EXCEPT !.catalogs = Tail(@)], Head(x.catalogs))

\* A pump leaves a sound executor, with the same in flight.
LEMMA PumpedFacts ==
  ASSUME NEW x, NEW y, NEW g, Sound(x, g), Pumped(x, y)
  PROVE  /\ Sound(y, g) /\ y.active = x.active
         /\ \A s : Kept(s, x, s, y)
<1>1. CASE y = x
  BY <1>1 DEF Kept
<1>2. CASE /\ x.at = "idle" /\ x.foreground # << >>
           /\ y = Begin([x EXCEPT !.foreground = Tail(@)], Head(x.foreground))
  <2> DEFINE z == [x EXCEPT !.foreground = Tail(@)]
             job == Head(x.foreground)
  <2>1. /\ DOMAIN z = DOMAIN x /\ z.foreground = Tail(x.foreground) /\ z.catalogs = x.catalogs
        /\ z.active = x.active
    BY DEF Sound, ExecutorFields
  <2>2. /\ DOMAIN y = DOMAIN x /\ y.at \in {"io", "refused"} /\ y.job = job
        /\ y.foreground = Tail(x.foreground) /\ y.catalogs = x.catalogs /\ y.active = x.active
    <3> HIDE DEF z, job
    <3>1. ExecutorFields \subseteq DOMAIN z
      BY <2>1 DEF Sound
    <3>2. y = Begin(z, job)
      BY <1>2 DEF z, job
    <3> QED BY <2>1, <3>1, <3>2, BeginFacts
  <2>3. /\ IsSeq(Tail(x.foreground)) /\ 1 \in DOMAIN x.foreground /\ job = x.foreground[1]
        /\ \A i \in DOMAIN Tail(x.foreground) :
             i + 1 \in DOMAIN x.foreground /\ Tail(x.foreground)[i] = x.foreground[i + 1]
    BY <1>2, TailFacts DEF Sound
  <2> HIDE DEF z, job
  <2>4. IsJob(job, g) /\ job.step = FirstStep(job.kind)
    BY <2>3 DEF Sound
  <2>5. job.step \in Steps(job.kind)
    BY <2>4 DEF IsJob, Kinds, HostKinds, SessionKinds, FirstStep, Steps
  <2>6. Sound(y, g)
    BY <2>2, <2>3, <2>4, <2>5 DEF Sound, Busy
  <2>7. ASSUME NEW s, NEW K, NEW E, FlightAt(s, x, K, E) PROVE FlightAt(s, y, K, E)
    <3>1. One(In(x.foreground, K)) /\ IsSeq(x.foreground)
      BY <2>7 DEF FlightAt, Sound
    <3>2. /\ One(In(Tail(x.foreground), K))
          /\ In(x.foreground, K) = {} => In(Tail(x.foreground), K) = {}
          /\ job.kind \in K => In(Tail(x.foreground), K) = {} /\ 1 \in In(x.foreground, K)
          /\ \A i \in In(Tail(x.foreground), K) :
               i + 1 \in In(x.foreground, K) /\ Tail(x.foreground)[i] = x.foreground[i + 1]
      BY <3>1, <1>2, TailFlight DEF job
    <3>3. Running(y, K) => job.kind \in K
      BY <2>2 DEF Running
    <3> QED BY <3>2, <3>3, <2>2, <2>3, <2>7 DEF FlightAt
  <2> QED BY <2>2, <2>6, <2>7 DEF Kept
<1>3. CASE /\ x.at = "idle" /\ x.foreground = << >> /\ x.catalogs # << >>
           /\ y = Begin([x EXCEPT !.catalogs = Tail(@)], Head(x.catalogs))
  <2> DEFINE z == [x EXCEPT !.catalogs = Tail(@)]
             job == Head(x.catalogs)
  <2>1. /\ DOMAIN z = DOMAIN x /\ z.foreground = x.foreground /\ z.catalogs = Tail(x.catalogs)
        /\ z.active = x.active
    BY DEF Sound, ExecutorFields
  <2>2. /\ DOMAIN y = DOMAIN x /\ y.at \in {"io", "refused"} /\ y.job = job
        /\ y.foreground = x.foreground /\ y.catalogs = Tail(x.catalogs) /\ y.active = x.active
    <3> HIDE DEF z, job
    <3>1. ExecutorFields \subseteq DOMAIN z
      BY <2>1 DEF Sound
    <3>2. y = Begin(z, job)
      BY <1>3 DEF z, job
    <3> QED BY <2>1, <3>1, <3>2, BeginFacts
  <2>3. /\ IsSeq(Tail(x.catalogs)) /\ 1 \in DOMAIN x.catalogs /\ job = x.catalogs[1]
        /\ \A i \in DOMAIN Tail(x.catalogs) :
             i + 1 \in DOMAIN x.catalogs /\ Tail(x.catalogs)[i] = x.catalogs[i + 1]
    BY <1>3, TailFacts DEF Sound
  <2> HIDE DEF z, job
  <2>4. IsJob(job, g) /\ job.kind = "Catalog" /\ job.step = "exchange"
    BY <2>3 DEF Sound
  <2>5. job.step \in Steps(job.kind)
    BY <2>4 DEF Steps
  <2>6. Sound(y, g)
    BY <2>2, <2>3, <2>4, <2>5 DEF Sound, Busy
  <2>7. \A s : Kept(s, x, s, y)
    BY <2>2, <2>4, <1>3 DEF Kept, FlightAt, Running, Busy
  <2> QED BY <2>2, <2>6, <2>7
<1> QED BY <1>1, <1>2, <1>3 DEF Pumped

\* What the jobs say of the keyboard is still so when one of them is begun.
LEMMA PumpedContent ==
  ASSUME NEW x, NEW y, NEW g, Sound(x, g), Pumped(x, y), NEW s, NEW saved, NEW shown,
         Content(s, x, saved, shown)
  PROVE  Content(s, y, saved, shown)
<1>1. CASE y = x
  BY <1>1
<1>2. CASE /\ x.at = "idle" /\ x.foreground # << >>
           /\ y = Begin([x EXCEPT !.foreground = Tail(@)], Head(x.foreground))
  <2> DEFINE z == [x EXCEPT !.foreground = Tail(@)]
             job == Head(x.foreground)
  <2>1. ExecutorFields \subseteq DOMAIN z /\ z.foreground = Tail(x.foreground)
    BY DEF Sound, ExecutorFields
  <2>2. /\ y.at \in {"io", "refused"} /\ y.job = job /\ y.foreground = Tail(x.foreground)
    <3> HIDE DEF z, job
    <3>1. y = Begin(z, job)
      BY <1>2 DEF z, job
    <3> QED BY <2>1, <3>1, BeginFacts
  <2>3. /\ 1 \in DOMAIN x.foreground /\ job = x.foreground[1]
        /\ \A i \in DOMAIN Tail(x.foreground) :
             i + 1 \in DOMAIN x.foreground /\ Tail(x.foreground)[i] = x.foreground[i + 1]
    BY <1>2, TailFacts DEF Sound
  <2> HIDE DEF z, job
  <2> QED BY <2>2, <2>3 DEF Content
<1>3. CASE /\ x.at = "idle" /\ x.foreground = << >> /\ x.catalogs # << >>
           /\ y = Begin([x EXCEPT !.catalogs = Tail(@)], Head(x.catalogs))
  <2> DEFINE z == [x EXCEPT !.catalogs = Tail(@)]
             job == Head(x.catalogs)
  <2>1. ExecutorFields \subseteq DOMAIN z /\ z.foreground = x.foreground
    BY DEF Sound, ExecutorFields
  <2>2. /\ y.at \in {"io", "refused"} /\ y.job = job /\ y.foreground = x.foreground
    <3> HIDE DEF z, job
    <3>1. y = Begin(z, job)
      BY <1>3 DEF z, job
    <3> QED BY <2>1, <3>1, BeginFacts
  <2>3. job.kind = "Catalog"
    BY <1>3, TailFacts DEF Sound
  <2> HIDE DEF z, job
  <2> QED BY <2>2, <2>3 DEF Content, Meant, Unsent
<1> QED BY <1>1, <1>2, <1>3 DEF Pumped

\* From p to q nothing new is in flight, and what is there still says what is so.
Carried(p, q) ==
  /\ Shaped(q) /\ Placed(q)
  /\ \A K, E : "Catalog" \notin K /\ Flight(p, K, E) => Flight(q, K, E)
  /\ \A shown : Honest(p, shown) => Honest(q, shown)

\* Two steps that carry what is in flight carry it together.
LEMMA CarriedAgain ==
  ASSUME NEW p, NEW q, NEW r, Carried(p, q), Carried(q, r) PROVE Carried(p, r)
BY DEF Carried

\* Two steps that leave the session alone leave it alone together.
LEMMA SameAgain ==
  ASSUME NEW p, NEW q, NEW r, Same(p, q), Same(q, r) PROVE Same(p, r)
BY DEF Same

\* A page that does not change carries what it has.
LEMMA CarriedItself ==
  ASSUME NEW p, Shaped(p), Placed(p) PROVE Carried(p, p) /\ Same(p, p)
BY DEF Carried, Same

\* A step of the session or of the host controller that moves no job.
Elsewhere(p, q) ==
  /\ DOMAIN q = DOMAIN p /\ q.executors = p.executors /\ q.settled = p.settled
  /\ q.generation = p.generation /\ q.connects = p.connects /\ q.closing = p.closing
  /\ HostFields \subseteq DOMAIN q.host /\ q.host.saved = p.host.saved
  /\ q.task = p.task \/ q.task # "Choosing"
  /\ q.recording => p.recording \/ Connected(p)

\* What moves no job carries the jobs.
LEMMA ElsewhereCarried ==
  ASSUME NEW p, NEW q, Shaped(p), Placed(p), Elsewhere(p, q) PROVE Carried(p, q)
<1>1. Shaped(q)
  BY DEF Shaped, Elsewhere
<1>2. Placed(q)
  BY DEF Placed, Elsewhere, AtRest, Connected
<1>3. \A K, E : Flight(p, K, E) => Flight(q, K, E)
  BY DEF Flight, Elsewhere
<1>4. \A shown : Honest(p, shown) => Honest(q, shown)
  BY DEF Honest, Elsewhere
<1> QED BY <1>1, <1>2, <1>3, <1>4 DEF Carried

\* A busy executor is the last connection's, and that is still in use.
LEMMA BusyPlaced ==
  ASSUME NEW p, NEW c \in Connections, Placed(p), ~Finished(p.executors[c])
  PROVE  c = p.connects /\ ~AtRest(p)
BY DEF Placed

\* The last connection's executor and the settled jobs are replaced.
LEMMA ExecutorCarried ==
  ASSUME NEW p, NEW q, Shaped(p), Placed(p), NEW c \in Connections, c = p.connects, ~AtRest(p),
         Same(p, q), NEW y, q.executors = [p.executors EXCEPT ![c] = y], Sound(y, c),
         IsSeq(q.settled), \A i \in DOMAIN q.settled : IsJob(q.settled[i], c)
  PROVE  /\ Shaped(q) /\ Placed(q)
         /\ \A K, E : /\ Flight(p, K, E) <=> FlightAt(p.settled, p.executors[c], K, E)
                      /\ Flight(q, K, E) <=> FlightAt(q.settled, y, K, E)
         /\ \A shown :
              /\ Honest(p, shown) <=> Content(p.settled, p.executors[c], p.host.saved, shown)
              /\ Honest(q, shown) <=> Content(q.settled, y, p.host.saved, shown)
<1>1. q.executors[c] = y /\ DOMAIN q.executors = Connections
  BY DEF Shaped
<1>2. \A d \in Connections : d # c => q.executors[d] = p.executors[d]
  BY DEF Shaped
<1>3. Shaped(q)
  BY <1>1, <1>2 DEF Shaped, Same
<1>4. ~AtRest(q)
  BY DEF AtRest, Same, Connected
<1>5. Placed(q)
  BY <1>2, <1>4 DEF Placed, Same, Connected
<1>6. q.connects = c /\ q.host = p.host
  BY DEF Same
<1>7. \A K, E : /\ Flight(p, K, E) <=> FlightAt(p.settled, p.executors[c], K, E)
                /\ Flight(q, K, E) <=> FlightAt(q.settled, y, K, E)
  BY <1>1, <1>6 DEF Flight
<1>8. \A shown :
        /\ Honest(p, shown) <=> Content(p.settled, p.executors[c], p.host.saved, shown)
        /\ Honest(q, shown) <=> Content(q.settled, y, p.host.saved, shown)
  BY <1>1, <1>6 DEF Honest
<1> QED BY <1>3, <1>5, <1>7, <1>8

\* A pump carries the jobs of the page.
LEMMA PumpCarried ==
  ASSUME NEW p, NEW c \in Connections, Shaped(p), Placed(p)
  PROVE  Carried(p, Pump(p, c)) /\ Same(p, Pump(p, c)) /\ Pump(p, c).settled = p.settled
<1> DEFINE x == p.executors[c]
           q == Pump(p, c)
<1>1. CASE ~MayTake(p, c)
  BY <1>1, CarriedItself DEF Pump
<1>2. CASE MayTake(p, c)
  <2> DEFINE y == IF x.foreground # <<>>
                    THEN Begin([x EXCEPT !.foreground = Tail(@)], Head(x.foreground))
                    ELSE Begin([x EXCEPT !.catalogs = Tail(@)], Head(x.catalogs))
  <2>1. q = [p EXCEPT !.executors[c] = y]
    BY <1>2 DEF Pump
  <2>2. Pumped(x, y)
    BY <1>2 DEF MayTake, Pumped
  <2>3. ~Finished(x) /\ c = p.connects /\ ~AtRest(p)
    <3>1. ~Finished(x)
      BY <1>2 DEF MayTake, Finished
    <3> QED BY <3>1, BusyPlaced
  <2> HIDE DEF y, q
  <2>4. Same(p, q) /\ q.executors = [p.executors EXCEPT ![c] = y] /\ q.settled = p.settled
    BY <2>1 DEF Same, Shaped, PageFields
  <2>5. Sound(x, c) /\ IsSeq(q.settled) /\ \A i \in DOMAIN q.settled : IsJob(q.settled[i], c)
    BY <2>3, <2>4 DEF Shaped
  <2> HIDE DEF x
  <2>6. Sound(y, c) /\ \A s : Kept(s, x, s, y)
    BY <2>2, <2>5, PumpedFacts
  <2>7. \A s, saved, shown : Content(s, x, saved, shown) => Content(s, y, saved, shown)
    BY <2>2, <2>5, PumpedContent
  <2>8. /\ Shaped(q) /\ Placed(q)
        /\ \A K, E : /\ Flight(p, K, E) <=> FlightAt(p.settled, x, K, E)
                     /\ Flight(q, K, E) <=> FlightAt(q.settled, y, K, E)
        /\ \A shown :
              /\ Honest(p, shown) <=> Content(p.settled, x, p.host.saved, shown)
              /\ Honest(q, shown) <=> Content(q.settled, y, p.host.saved, shown)
    BY <2>3, <2>4, <2>5, <2>6, ExecutorCarried DEF x
  <2>9. Carried(p, q)
    BY <2>4, <2>6, <2>7, <2>8 DEF Carried, Kept
  <2> QED BY <2>4, <2>9 DEF q
<1> QED BY <1>1, <1>2

\* The jobs of an executor, each with another mark.
Marked(a, b) ==
  /\ DOMAIN b = DOMAIN a /\ b.kind = a.kind /\ b.by = a.by /\ b.step = a.step
  /\ b.value = a.value /\ b.connection = a.connection
Relabelled(x, y) ==
  /\ DOMAIN y = DOMAIN x /\ y.active = x.active /\ y.at = x.at /\ y.answer = x.answer
  /\ y.job = x.job \/ Marked(x.job, y.job)
  /\ DOMAIN y.foreground = DOMAIN x.foreground
  /\ y.foreground = [i \in DOMAIN y.foreground |-> y.foreground[i]]
  /\ \A i \in DOMAIN x.foreground : Marked(x.foreground[i], y.foreground[i])
  /\ DOMAIN y.catalogs = DOMAIN x.catalogs
  /\ y.catalogs = [i \in DOMAIN y.catalogs |-> y.catalogs[i]]
  /\ \A i \in DOMAIN x.catalogs : Marked(x.catalogs[i], y.catalogs[i])

\* Marks change nothing that is said of jobs.
LEMMA RelabelledFacts ==
  ASSUME NEW x, NEW y, NEW g, Sound(x, g), Relabelled(x, y)
  PROVE  /\ Sound(y, g) /\ \A s : Kept(s, x, s, y)
         /\ \A s, saved, shown : Content(s, x, saved, shown) => Content(s, y, saved, shown)
<1>1. IsSeq(y.foreground) /\ IsSeq(y.catalogs)
  BY Mapped DEF Sound, Relabelled
<1>2. \A i \in DOMAIN y.foreground :
        /\ IsJob(y.foreground[i], g) /\ y.foreground[i].kind # "Catalog"
        /\ y.foreground[i].step = FirstStep(y.foreground[i].kind)
  BY DEF Sound, Relabelled, Marked, IsJob
<1>3. \A i \in DOMAIN y.catalogs :
        /\ IsJob(y.catalogs[i], g) /\ y.catalogs[i].kind = "Catalog"
        /\ y.catalogs[i].step = "exchange"
  BY DEF Sound, Relabelled, Marked, IsJob
<1>4. y.at \in Busy => IsJob(y.job, g) /\ y.job.step \in Steps(y.job.kind)
  BY DEF Sound, Relabelled, Marked, IsJob
<1>5. Sound(y, g)
  BY <1>1, <1>2, <1>3, <1>4 DEF Sound, Relabelled
<1>6. \A K : In(y.foreground, K) = In(x.foreground, K) /\ Running(y, K) = Running(x, K)
  BY DEF Relabelled, Marked, In, Running
<1>7. \A i \in DOMAIN x.foreground : y.foreground[i].kind = x.foreground[i].kind
  BY DEF Relabelled, Marked
<1>8. y.job.kind = x.job.kind
  BY DEF Relabelled, Marked
<1>9. ASSUME NEW s, NEW K, NEW E, FlightAt(s, x, K, E) PROVE FlightAt(s, y, K, E)
  <2>1. \A i \in In(x.foreground, K) : i \in DOMAIN x.foreground
    BY DEF In
  <2> QED BY <1>6, <1>7, <1>8, <1>9, <2>1 DEF FlightAt
<1>10. ASSUME NEW s, NEW saved, NEW shown, Content(s, x, saved, shown)
       PROVE  Content(s, y, saved, shown)
  BY <1>10 DEF Content, Relabelled, Marked, Meant, Unsent
<1> QED BY <1>5, <1>9, <1>10 DEF Kept

\* Catalogs are cancelled.
CancelledJobs(x) ==
  LET Cancel(job) == [job EXCEPT !.cancelled = @ \/ job.kind = "Catalog"]
  IN EachJob(x, Cancel)

\* Cancelling is marking.
LEMMA CancelledRelabelled ==
  ASSUME NEW x, NEW g, Sound(x, g) PROVE Relabelled(x, CancelledJobs(x))
<1> DEFINE Cancel(job) == [job EXCEPT !.cancelled = @ \/ job.kind = "Catalog"]
           y == CancelledJobs(x)
<1>1. /\ DOMAIN y = DOMAIN x /\ y.active = x.active /\ y.at = x.at /\ y.answer = x.answer
      /\ y.job = IF x.job = None THEN None ELSE Cancel(x.job)
      /\ y.foreground = [i \in DOMAIN x.foreground |-> Cancel(x.foreground[i])]
      /\ y.catalogs = [i \in DOMAIN x.catalogs |-> Cancel(x.catalogs[i])]
  BY DEF CancelledJobs, EachJob, Sound, ExecutorFields
<1>2. \A job : Marked(job, Cancel(job))
  BY DEF Marked
<1> HIDE DEF y, Cancel
<1>3. y.job = x.job \/ Marked(x.job, y.job)
  BY <1>1, <1>2
<1>4. /\ DOMAIN y.foreground = DOMAIN x.foreground
      /\ y.foreground = [i \in DOMAIN y.foreground |-> y.foreground[i]]
      /\ \A i \in DOMAIN x.foreground : Marked(x.foreground[i], y.foreground[i])
  BY <1>1, <1>2
<1>5. /\ DOMAIN y.catalogs = DOMAIN x.catalogs
      /\ y.catalogs = [i \in DOMAIN y.catalogs |-> y.catalogs[i]]
      /\ \A i \in DOMAIN x.catalogs : Marked(x.catalogs[i], y.catalogs[i])
  BY <1>1, <1>2
<1>6. Relabelled(x, y)
  BY <1>1, <1>3, <1>4, <1>5 DEF Relabelled
<1> QED BY <1>6 DEF y

\* A page whose connected executor's jobs are marked.
LEMMA RelabelledCarried ==
  ASSUME NEW p, Shaped(p), Placed(p), Connected(p), NEW y,
         Relabelled(p.executors[p.generation], y)
  PROVE  LET q == [p EXCEPT !.executors[p.generation] = y]
         IN Carried(p, q) /\ Same(p, q) /\ p.generation \in Connections
<1> DEFINE c == p.generation
           x == p.executors[c]
           q == [p EXCEPT !.executors[c] = y]
<1>1. c \in Connections /\ c = p.connects /\ ~AtRest(p)
  BY BrowserAssumption DEF Placed, Connected, AtRest, Connections
<1> HIDE DEF c
<1>2. Same(p, q) /\ q.executors = [p.executors EXCEPT ![c] = y] /\ q.settled = p.settled
  BY DEF Same, Shaped, PageFields
<1> HIDE DEF q
<1>3. Sound(x, c) /\ IsSeq(q.settled) /\ \A i \in DOMAIN q.settled : IsJob(q.settled[i], c)
  BY <1>1, <1>2 DEF Shaped
<1>4. Relabelled(x, y)
  BY DEF c
<1> HIDE DEF x
<1>5. /\ Sound(y, c) /\ \A s : Kept(s, x, s, y)
      /\ \A s, saved, shown : Content(s, x, saved, shown) => Content(s, y, saved, shown)
  BY <1>3, <1>4, RelabelledFacts
<1>6. /\ Shaped(q) /\ Placed(q)
      /\ \A K, E : /\ Flight(p, K, E) <=> FlightAt(p.settled, x, K, E)
                   /\ Flight(q, K, E) <=> FlightAt(q.settled, y, K, E)
      /\ \A shown :
            /\ Honest(p, shown) <=> Content(p.settled, x, p.host.saved, shown)
            /\ Honest(q, shown) <=> Content(q.settled, y, p.host.saved, shown)
  BY <1>1, <1>2, <1>3, <1>5, ExecutorCarried DEF x
<1>7. Carried(p, q)
  BY <1>2, <1>5, <1>6 DEF Carried, Kept
<1> QED BY <1>1, <1>2, <1>7 DEF q, c

\* A page all of whose jobs are marked.
LEMMA AllRelabelledCarried ==
  ASSUME NEW p, NEW q, Shaped(p), Placed(p), Same(p, q), q.settled = p.settled,
         DOMAIN q.executors = Connections,
         \A c \in Connections : Relabelled(p.executors[c], q.executors[c])
  PROVE  Carried(p, q)
<1>1. ASSUME NEW c \in Connections
      PROVE  /\ Sound(q.executors[c], q.connects)
             /\ \A s : Kept(s, p.executors[c], s, q.executors[c])
             /\ \A s, saved, shown : Content(s, p.executors[c], saved, shown) =>
                                      Content(s, q.executors[c], saved, shown)
  BY RelabelledFacts DEF Shaped, Same
<1>2. Shaped(q)
  BY <1>1 DEF Shaped, Same
<1>3. ASSUME NEW c \in Connections, Finished(p.executors[c]) PROVE Finished(q.executors[c])
  <2> DEFINE x == p.executors[c]
             y == q.executors[c]
  <2>1. /\ DOMAIN y.foreground = {} /\ IsSeq(y.foreground)
        /\ DOMAIN y.catalogs = {} /\ IsSeq(y.catalogs) /\ y.at = "idle"
    BY <1>1, <1>3, EmptyIsSeq DEF Finished, Relabelled, Sound
  <2>2. ASSUME NEW f, IsSeq(f), DOMAIN f = {} PROVE f = << >>
    <3>1. Len(f) \in Nat /\ 1..Len(f) = {}
      BY <2>2, SeqFacts
    <3>2. ASSUME NEW n \in Nat, 1..n = {} PROVE n = 0
      <4>1. 1 \notin 1..n
        BY <3>2
      <4> QED BY <4>1
    <3>3. Len(f) = 0
      BY <3>1, <3>2
    <3> QED BY <2>2, <3>3, SeqFacts
  <2> HIDE DEF y
  <2> QED BY <2>1, <2>2 DEF Finished, y
<1>4. Placed(q)
  BY <1>3 DEF Placed, Same, AtRest, Connected
<1>5. ASSUME NEW K, NEW E, "Catalog" \notin K, Flight(p, K, E), q.connects \in Connections
      PROVE  FlightAt(q.settled, q.executors[q.connects], K, E)
  <2>1. q.connects = p.connects /\ q.settled = p.settled
    BY DEF Same
  <2>2. FlightAt(p.settled, p.executors[p.connects], K, E)
    BY <1>5, <2>1 DEF Flight
  <2>3. Kept(p.settled, p.executors[p.connects], p.settled, q.executors[p.connects])
    BY <1>1, <1>5, <2>1
  <2>4. FlightAt(p.settled, q.executors[p.connects], K, E)
    BY <1>5, <2>2, <2>3 DEF Kept
  <2> QED BY <2>1, <2>4
<1>6. \A K, E : "Catalog" \notin K /\ Flight(p, K, E) => Flight(q, K, E)
  BY <1>5, Zenon DEF Flight
<1>7. \A shown : Honest(p, shown) => Honest(q, shown)
  BY <1>1 DEF Honest, Same
<1> QED BY <1>2, <1>4, <1>6, <1>7 DEF Carried

\* The jobs stay in flight when the catalog is cancelled.
LEMMA CancelJobsCarried ==
  ASSUME NEW p, Shaped(p), Placed(p)
  PROVE  Carried(p, CancelJobs(p)) /\ Same(p, CancelJobs(p))
<1>1. CASE ~Connected(p)
  BY <1>1, CarriedItself DEF CancelJobs
<1>2. CASE Connected(p)
  <2> DEFINE c == p.generation
             y == CancelledJobs(p.executors[c])
             q == [p EXCEPT !.executors[c] = y]
  <2>1. c \in Connections /\ Sound(p.executors[c], p.connects)
    BY <1>2, BrowserAssumption DEF Placed, Connected, Connections, Shaped
  <2>2. Relabelled(p.executors[c], y)
    BY <2>1, CancelledRelabelled
  <2>3. Carried(p, q) /\ Same(p, q)
    <3> HIDE DEF y
    <3> QED BY <1>2, <2>2, RelabelledCarried
  <2>4. CancelJobs(p) = Pump(q, c)
    BY <1>2 DEF CancelJobs, CancelledJobs
  <2> HIDE DEF q, y, c
  <2>5. Carried(q, Pump(q, c)) /\ Same(q, Pump(q, c))
    BY <2>1, <2>3, PumpCarried DEF Carried
  <2> QED BY <2>3, <2>4, <2>5, CarriedAgain, SameAgain
<1> QED BY <1>1, <1>2

\* The jobs stay in flight when a scan ends.
LEMMA EndScanCarried ==
  ASSUME NEW p, Shaped(p), Placed(p)
  PROVE  Carried(p, EndScan(p)) /\ Same(p, EndScan(p))
<1> DEFINE q == [p EXCEPT !.scan = 0]
<1>1. Elsewhere(p, q) /\ Same(p, q)
  BY DEF Elsewhere, Same, Shaped, PageFields
<1>2. EndScan(p) = p \/ EndScan(p) = CancelJobs(q)
  BY DEF EndScan
<1> HIDE DEF q
<1>3. Carried(p, q)
  BY <1>1, ElsewhereCarried
<1>4. Carried(q, CancelJobs(q)) /\ Same(q, CancelJobs(q))
  BY <1>3, CancelJobsCarried DEF Carried
<1> QED BY <1>1, <1>2, <1>3, <1>4, CarriedItself, CarriedAgain, SameAgain

-----------------------------------------------------------------------------
(* A job goes on. *)

\* A job goes on, or ends, as the job it is.
LEMMA GoesFacts ==
  ASSUME NEW j, NEW g, NEW v, IsJob(j, g)
  PROVE  /\ IsJob(Goes(j, v), g) /\ Goes(j, v).kind = j.kind /\ Goes(j, v).step = v
         /\ Goes(j, v).value = j.value
         /\ IsJob(Ends(j, v), g) /\ Ends(j, v).kind = j.kind /\ Ends(j, v).step = "complete"
         /\ Ends(j, v).value = v
BY DEF IsJob, JobFields, Goes, Ends

\* The answer a job gets is what its effect can return.
Answers(j, answer, saved, shown) ==
  /\ answer.ok /\ j.step \notin Writes \cup {"backup"} => answer.value = shown
  /\ j.kind = "Apply" /\ j.step = "write" /\ answer.ok => shown = j.value
  /\ Unsent(j) /\ ~answer.attempted => shown = saved
  /\ j.kind = "Start" /\ j.step = "backup" => shown = saved

\* What an answer makes of a job.
Advances(j, a, g) ==
  /\ IsJob(a, g) /\ a.kind = j.kind
  /\ a.step # "complete" =>
       /\ a.step \in Steps(a.kind) /\ a.value = j.value
       /\ j.kind = "Catalog" => a.step = "exchange"
TellsTruth(a, saved, shown) ==
  /\ a.step = "complete" => Told(a, saved, shown)
  /\ a.step # "complete" /\ Unsent(a) => shown = saved

\* Starting host lighting tells what became of the keyboard (advanceStart).
LEMMA AdvanceStartFacts ==
  ASSUME NEW j, NEW answer, NEW g, IsJob(j, g), j.kind = "Start", j.step \in Steps(j.kind),
         answer.ok \in BOOLEAN, answer.attempted \in BOOLEAN, NEW saved
  PROVE  /\ Advances(j, AdvanceStart(j, answer), g)
         /\ \A shown : Meant(j, saved) /\ Answers(j, answer, saved, shown) =>
              TellsTruth(AdvanceStart(j, answer), saved, shown)
<1> DEFINE a == AdvanceStart(j, answer)
<1>0. \A v : /\ IsJob(Goes(j, v), g) /\ Goes(j, v).kind = j.kind /\ Goes(j, v).step = v
              /\ Goes(j, v).value = j.value
              /\ IsJob(Ends(j, v), g) /\ Ends(j, v).kind = j.kind /\ Ends(j, v).step = "complete"
              /\ Ends(j, v).value = v
  BY GoesFacts
<1>1. j.step \in {"backup", "write", "verify", "restore", "restored"}
  BY DEF Steps
<1>2. \/ /\ j.step = "backup" /\ answer.ok /\ a = Goes(j, "write")
      \/ /\ j.step = "backup" /\ ~answer.ok /\ a = Ends(j, "NotAttempted")
      \/ /\ j.step = "write" /\ answer.ok /\ a = Goes(j, "verify")
      \/ /\ j.step = "write" /\ answer.attempted /\ a = Goes(j, "restore")
      \/ /\ j.step = "write" /\ ~answer.attempted /\ a = Ends(j, "NotAttempted")
      \/ /\ j.step = "verify" /\ a = Ends(j, "Started")
      \/ /\ j.step = "verify" /\ a = Goes(j, "restore")
      \/ /\ j.step = "restore" /\ a = Goes(j, "restored")
      \/ /\ j.step \in {"restore", "restored"} /\ a = Ends(j, "Unverified")
      \/ /\ j.step = "restored" /\ answer.ok /\ answer.value = j.value /\ a = Ends(j, "Verified")
  BY <1>1 DEF AdvanceStart
<1>3. \/ \E v \in {"write", "verify", "restore", "restored"} : a = Goes(j, v)
      \/ \E v : a = Ends(j, v)
  BY <1>2
<1> HIDE DEF a
<1>4. Advances(j, a, g)
  BY <1>3, <1>0 DEF Advances, Steps
<1>5. ASSUME NEW shown, Meant(j, saved), Answers(j, answer, saved, shown)
      PROVE  TellsTruth(a, saved, shown)
  <2>1. a.kind = "Start"
    BY <1>3, <1>0
  <2>2. j.value = saved
    BY <1>5 DEF Meant
  <2>3. j.step = "restored" /\ answer.ok /\ answer.value = j.value => shown = saved
    BY <1>5, <2>2 DEF Answers, Writes
  <2>4. j.step \in {"backup", "write"} => Unsent(j)
    BY DEF Unsent
  <2>5. a.step # "complete" /\ Unsent(a) => shown = saved
    <3>1. a.step = "write" => j.step = "backup"
      BY <1>2, <1>0
    <3>2. a.step # "backup"
      BY <1>3, <1>0
    <3> QED BY <3>1, <3>2, <1>5 DEF Unsent, Answers
  <2>6. a.step = "complete" /\ a.value \in {"NotAttempted", "Verified", "Restored"} => shown = saved
    <3>1. CASE j.step = "backup"
      BY <3>1, <1>5 DEF Answers
    <3>2. CASE j.step = "write" /\ ~answer.attempted
      BY <3>2, <2>4, <1>5 DEF Answers
    <3>3. CASE j.step = "restored" /\ answer.ok /\ answer.value = j.value
      BY <3>3, <2>3
    <3>4. CASE \/ \E v \in {"write", "verify", "restore", "restored"} : a = Goes(j, v)
               \/ a = Ends(j, "Started") \/ a = Ends(j, "Unverified")
      BY <3>4, <1>0
    <3> QED BY <1>2, <3>1, <3>2, <3>3, <3>4
  <2>7. a.step = "complete" => a.value \in {"NotAttempted", "Verified", "Unverified", "Started"}
    BY <1>2, <1>0
  <2> QED BY <2>1, <2>5, <2>6, <2>7 DEF TellsTruth, Told
<1> QED BY <1>4, <1>5 DEF a

\* Stopping host lighting tells what became of the keyboard.
LEMMA AdvanceStopFacts ==
  ASSUME NEW j, NEW answer, NEW g, IsJob(j, g), j.kind = "Stop", j.step \in Steps(j.kind),
         answer.ok \in BOOLEAN, answer.attempted \in BOOLEAN, NEW saved
  PROVE  /\ Advances(j, AdvanceStop(j, answer), g)
         /\ \A shown : Meant(j, saved) /\ Answers(j, answer, saved, shown) =>
              TellsTruth(AdvanceStop(j, answer), saved, shown)
<1> DEFINE a == AdvanceStop(j, answer)
<1>0. \A v : /\ IsJob(Goes(j, v), g) /\ Goes(j, v).kind = j.kind /\ Goes(j, v).step = v
              /\ Goes(j, v).value = j.value
              /\ IsJob(Ends(j, v), g) /\ Ends(j, v).kind = j.kind /\ Ends(j, v).step = "complete"
              /\ Ends(j, v).value = v
  BY GoesFacts
<1>1. \/ \E v \in {"write", "verify"} : a = Goes(j, v)
      \/ a = Ends(j, "Unverified")
      \/ /\ j.step = "verify" /\ answer.ok /\ answer.value = j.value
         /\ a = Ends(j, "Restored")
  BY DEF AdvanceStop
<1> HIDE DEF a
<1>2. Advances(j, a, g) /\ a.kind = "Stop"
  BY <1>1, <1>0 DEF Advances, Steps
<1>3. ASSUME NEW shown, Meant(j, saved), Answers(j, answer, saved, shown)
      PROVE  TellsTruth(a, saved, shown)
  <2>1. j.value = saved
    BY <1>3 DEF Meant
  <2>2. j.step = "verify" /\ answer.ok /\ answer.value = j.value => shown = saved
    BY <1>3, <2>1 DEF Answers, Writes
  <2>3. a.step = "complete" /\ a.value \in {"NotAttempted", "Verified", "Restored"} => shown = saved
    BY <1>1, <2>2, <1>0
  <2>4. a.step = "complete" => a.value \in {"Restored", "Unverified"}
    BY <1>1, <1>0
  <2> QED BY <1>2, <2>3, <2>4 DEF TellsTruth, Told, Unsent
<1> QED BY <1>2, <1>3 DEF a

\* Every job takes its own steps, and tells what it read or confirmed.
LEMMA AdvanceFacts ==
  ASSUME NEW j, NEW answer, NEW g, IsJob(j, g), j.step \in Steps(j.kind),
         answer.ok \in BOOLEAN, answer.attempted \in BOOLEAN, NEW saved
  PROVE  /\ Advances(j, Advance(j, answer), g)
         /\ \A shown : Meant(j, saved) /\ Answers(j, answer, saved, shown) =>
              TellsTruth(Advance(j, answer), saved, shown)
<1> DEFINE a == Advance(j, answer)
           told(s) == [kind |-> IF answer.ok THEN "ok" ELSE "error", snapshot |-> Snapshot(s)]
<1>0. \A v : /\ IsJob(Goes(j, v), g) /\ Goes(j, v).kind = j.kind /\ Goes(j, v).step = v
              /\ Goes(j, v).value = j.value
              /\ IsJob(Ends(j, v), g) /\ Ends(j, v).kind = j.kind /\ Ends(j, v).step = "complete"
              /\ Ends(j, v).value = v
  BY GoesFacts
<1>1. CASE j.kind = "Start"
  <2>1. a = AdvanceStart(j, answer)
    BY <1>1 DEF Advance
  <2> QED BY <1>1, <2>1, AdvanceStartFacts
<1>2. CASE j.kind = "Stop"
  <2>1. a = AdvanceStop(j, answer)
    BY <1>2 DEF Advance
  <2> QED BY <1>2, <2>1, AdvanceStopFacts
<1>3. CASE j.kind = "Apply"
  <2>1. j.step \in {"backup", "write"}
    BY <1>3 DEF Steps
  <2>2. \/ j.step = "backup" /\ answer.ok /\ a = Goes(j, "write")
        \/ ~(j.step = "backup" /\ answer.ok) /\ a = Ends(j, told(j.value))
    BY <1>3 DEF Advance
  <2>3. answer.ok => told(j.value).snapshot = Snapshot(j.value)
    OBVIOUS
  <2>4. told(j.value).kind \in {"ok", "error"} /\ (~answer.ok => told(j.value).kind # "ok")
    OBVIOUS
  <2> HIDE DEF a, told
  <2>5. Advances(j, a, g)
    BY <2>2, <1>3, <1>0 DEF Advances, Steps
  <2>6. ASSUME NEW shown, Meant(j, saved), Answers(j, answer, saved, shown)
        PROVE  TellsTruth(a, saved, shown)
    <3>1. a.kind = "Apply"
      BY <2>2, <1>3, <1>0
    <3>2. a.step = "complete" =>
            /\ a.value.kind \in {"ok", "error"}
            /\ a.value.kind = "ok" => a.value.snapshot = Snapshot(shown)
      <4>1. CASE a = Goes(j, "write")
        BY <4>1, <1>0
      <4>2. CASE ~(j.step = "backup" /\ answer.ok) /\ a = Ends(j, told(j.value))
        <5>1. a.value = told(j.value)
          BY <4>2, <1>0
        <5>2. answer.ok => shown = j.value
          BY <4>2, <2>1, <1>3, <2>6 DEF Answers
        <5> QED BY <5>1, <5>2, <2>3, <2>4
      <4> QED BY <2>2, <4>1, <4>2
    <3> QED BY <3>1, <3>2 DEF TellsTruth, Told, Unsent
  <2> QED BY <2>5, <2>6 DEF a
<1>4. CASE j.kind = "Catalog"
  <2>1. \/ a = [j EXCEPT !.slot = @ + 1]
        \/ a = Ends(j, told(answer.value))
    BY <1>4 DEF Advance
  <2>2. j.step = "exchange"
    BY <1>4 DEF Steps
  <2> HIDE DEF told
  <2>3. Advances(j, a, g) /\ a.kind = "Catalog"
    <3>1. CASE a = Ends(j, told(answer.value))
      <4> HIDE DEF a
      <4> QED BY <3>1, <1>4, <1>0 DEF Advances
    <3>2. CASE a = [j EXCEPT !.slot = @ + 1]
      BY <3>2, <2>2, <1>4 DEF Advances, IsJob, JobFields, Steps
    <3> QED BY <2>1, <3>1, <3>2
  <2> HIDE DEF a
  <2> QED BY <2>3 DEF TellsTruth, Told, Unsent, a
<1>5. CASE j.kind = "Frame"
  <2>1. a = Ends(j, told(j.value))
    BY <1>5 DEF Advance
  <2> HIDE DEF told, a
  <2>2. Advances(j, a, g) /\ a.kind = "Frame"
    BY <2>1, <1>5, <1>0 DEF Advances
  <2> QED BY <2>2 DEF TellsTruth, Told, Unsent, a
<1>6. CASE j.kind \in {"Identity", "Keymap", "Lighting"}
  <2>1. a = Ends(j, told(answer.value))
    BY <1>6 DEF Advance
  <2>2. j.step = "exchange"
    BY <1>6 DEF Steps
  <2>3. answer.ok => told(answer.value).snapshot = Snapshot(answer.value)
    OBVIOUS
  <2>4. /\ told(answer.value).kind \in {"ok", "error"}
        /\ ~answer.ok => told(answer.value).kind # "ok"
    OBVIOUS
  <2> HIDE DEF told, a
  <2>5. Advances(j, a, g) /\ a.kind = j.kind /\ a.value = told(answer.value)
    BY <2>1, <1>6, <1>0 DEF Advances
  <2>6. ASSUME NEW shown, Meant(j, saved), Answers(j, answer, saved, shown)
        PROVE  TellsTruth(a, saved, shown)
    <3>1. answer.ok => answer.value = shown
      BY <2>2, <2>6 DEF Answers, Writes
    <3> QED BY <2>3, <2>4, <2>5, <3>1, <1>6 DEF TellsTruth, Told, Unsent
  <2> QED BY <2>5, <2>6 DEF a
<1> QED BY <1>1, <1>2, <1>3, <1>4, <1>5, <1>6 DEF IsJob, Kinds, HostKinds, SessionKinds

\* The job is told to its caller.
LEMMA SettledFacts ==
  ASSUME NEW s, IsSeq(s), NEW g, \A i \in DOMAIN s : IsJob(s[i], g),
         NEW x, Sound(x, g), x.at \in Busy, NEW a, Advances(x.job, a, g), a.step = "complete",
         NEW y, y = [x EXCEPT !.at = "idle", !.job = None, !.answer = None]
  PROVE  /\ Sound(y, g) /\ IsSeq(Append(s, a)) /\ Kept(s, x, Append(s, a), y)
         /\ \A i \in DOMAIN Append(s, a) : IsJob(Append(s, a)[i], g)
         /\ \A saved, shown : Content(s, x, saved, shown) /\ TellsTruth(a, saved, shown) =>
              Content(Append(s, a), y, saved, shown)
<1>1. /\ DOMAIN y = DOMAIN x /\ y.at = "idle" /\ y.foreground = x.foreground
      /\ y.catalogs = x.catalogs
  BY DEF Sound, ExecutorFields
<1>2. Sound(y, g)
  BY <1>1 DEF Sound, Busy
<1>3. /\ IsSeq(Append(s, a)) /\ DOMAIN Append(s, a) = DOMAIN s \cup {Len(s) + 1}
      /\ \A i \in DOMAIN s : Append(s, a)[i] = s[i]
      /\ Append(s, a)[Len(s) + 1] = a
  BY Appended
<1>4. \A i \in DOMAIN Append(s, a) : IsJob(Append(s, a)[i], g)
  BY <1>3 DEF Advances
<1>5. ASSUME NEW K, NEW E, FlightAt(s, x, K, E) PROVE FlightAt(Append(s, a), y, K, E)
  <2>1. In(Append(s, a), K) = In(s, K) \cup (IF a.kind \in K THEN {Len(s) + 1} ELSE {})
    BY AppendedFlight
  <2>2. ~Running(y, K)
    BY <1>1 DEF Running, Busy
  <2>3. CASE a.kind \notin K
    <3>1. In(Append(s, a), K) = In(s, K) /\ \A i \in In(s, K) : Append(s, a)[i] = s[i]
      BY <2>1, <2>3, <1>3 DEF In
    <3> QED BY <3>1, <2>2, <1>1, <1>5 DEF FlightAt
  <2>4. CASE a.kind \in K
    <3>1. Running(x, K) /\ x.job.kind = a.kind
      BY <2>4 DEF Running, Advances
    <3>2. In(s, K) = {} /\ In(x.foreground, K) = {} /\ a.kind \in E
      BY <3>1, <1>5 DEF FlightAt
    <3>3. In(Append(s, a), K) = {Len(s) + 1}
      BY <2>1, <2>4, <3>2
    <3> QED BY <3>2, <3>3, <2>2, <1>1, <1>3, <1>5 DEF FlightAt, One
  <2> QED BY <2>3, <2>4
<1>6. ASSUME NEW saved, NEW shown, Content(s, x, saved, shown), TellsTruth(a, saved, shown)
      PROVE  Content(Append(s, a), y, saved, shown)
  BY <1>1, <1>3, <1>6 DEF Content, TellsTruth, Busy
<1> QED BY <1>2, <1>3, <1>4, <1>5, <1>6 DEF Kept

\* A catalog waits for its next slot behind the others.
Yielded(x, a) ==
  [x EXCEPT !.at = "yield", !.job = None, !.answer = None, !.catalogs = Append(@, a)]
\* A catalog gives way to the jobs that wait.
LEMMA YieldedFacts ==
  ASSUME NEW g, NEW x, Sound(x, g), x.at \in Busy, NEW a, Advances(x.job, a, g),
         a.step # "complete", x.job.kind = "Catalog"
  PROVE  /\ Sound(Yielded(x, a), g) /\ \A s : Kept(s, x, s, Yielded(x, a))
         /\ \A s, saved, shown :
              Content(s, x, saved, shown) => Content(s, Yielded(x, a), saved, shown)
<1> DEFINE y == Yielded(x, a)
<1>1. /\ DOMAIN y = DOMAIN x /\ y.at = "yield" /\ y.foreground = x.foreground
      /\ y.catalogs = Append(x.catalogs, a)
  BY DEF Sound, ExecutorFields, Yielded
<1> HIDE DEF y
<1>2. /\ IsSeq(Append(x.catalogs, a))
      /\ DOMAIN Append(x.catalogs, a) = DOMAIN x.catalogs \cup {Len(x.catalogs) + 1}
      /\ \A i \in DOMAIN x.catalogs : Append(x.catalogs, a)[i] = x.catalogs[i]
      /\ Append(x.catalogs, a)[Len(x.catalogs) + 1] = a
  BY Appended DEF Sound
<1>3. IsJob(a, g) /\ a.kind = "Catalog" /\ a.step = "exchange"
  BY DEF Advances
<1>4. Sound(y, g)
  BY <1>1, <1>2, <1>3 DEF Sound, Busy
<1>5. \A s, K, E : FlightAt(s, x, K, E) => FlightAt(s, y, K, E)
  BY <1>1 DEF FlightAt, Running, Busy
<1>6. \A s, saved, shown : Content(s, x, saved, shown) => Content(s, y, saved, shown)
  BY <1>1 DEF Content, Busy
<1> QED BY <1>4, <1>5, <1>6 DEF Kept, y

\* The job begins its next step.
LEMMA NextStepFacts ==
  ASSUME NEW g, NEW x, Sound(x, g), x.at \in Busy, NEW a, Advances(x.job, a, g),
         a.step # "complete", NEW y, y = Begin(x, a)
  PROVE  /\ Sound(y, g) /\ \A s : Kept(s, x, s, y)
         /\ \A s, saved, shown : Content(s, x, saved, shown) /\ TellsTruth(a, saved, shown) =>
              Content(s, y, saved, shown)
<1>1. /\ DOMAIN y = DOMAIN x /\ y.at \in {"io", "refused"} /\ y.job = a
      /\ y.foreground = x.foreground /\ y.catalogs = x.catalogs
  BY BeginFacts DEF Sound
<1>2. IsJob(a, g) /\ a.kind = x.job.kind /\ a.step \in Steps(a.kind) /\ a.value = x.job.value
  BY DEF Advances
<1>3. Sound(y, g)
  BY <1>1, <1>2 DEF Sound, Busy
<1>4. \A s, K, E : FlightAt(s, x, K, E) => FlightAt(s, y, K, E)
  BY <1>1, <1>2 DEF FlightAt, Running, Busy
<1>5. ASSUME NEW s, NEW saved, NEW shown, Content(s, x, saved, shown), TellsTruth(a, saved, shown)
      PROVE  Content(s, y, saved, shown)
  <2>1. Meant(a, saved)
    BY <1>2, <1>5 DEF Content, Meant
  <2>2. Unsent(a) => shown = saved
    BY <1>5 DEF TellsTruth
  <2> QED BY <1>1, <2>1, <2>2, <1>5 DEF Content
<1> QED BY <1>3, <1>4, <1>5 DEF Kept

\* The pump goes on after an effect: the jobs stay in flight, and a job that
\* ends tells the truth if the answer did.
LEMMA ResumeCarried ==
  ASSUME NEW p, NEW c \in Connections, NEW answer, Shaped(p), Placed(p),
         p.executors[c].at \in Busy, answer.ok \in BOOLEAN, answer.attempted \in BOOLEAN
  PROVE  LET q == Resume(p, c, answer)
         IN /\ Same(p, q) /\ Shaped(q) /\ Placed(q)
            /\ \A K, E : "Catalog" \notin K /\ Flight(p, K, E) => Flight(q, K, E)
            /\ \A shown :
                 Honest(p, shown) /\ Answers(p.executors[c].job, answer, p.host.saved, shown) =>
                   Honest(q, shown)
<1> DEFINE x == p.executors[c]
           a == Advance(x.job, answer)
           saved == p.host.saved
           q == Resume(p, c, answer)
           Goal(r) == /\ Same(p, r) /\ Shaped(r) /\ Placed(r)
                      /\ \A K, E : "Catalog" \notin K /\ Flight(p, K, E) => Flight(r, K, E)
                      /\ \A shown : Honest(p, shown) /\ Answers(x.job, answer, saved, shown) =>
                                      Honest(r, shown)
<1> SUFFICES Goal(q)
  OBVIOUS
<1>1. c = p.connects /\ ~AtRest(p)
  BY BusyPlaced DEF Finished, Busy
<1>2. /\ Sound(x, c) /\ IsJob(x.job, c) /\ x.job.step \in Steps(x.job.kind)
      /\ IsSeq(p.settled) /\ \A i \in DOMAIN p.settled : IsJob(p.settled[i], c)
  BY <1>1 DEF Shaped, Sound
<1>3. /\ Advances(x.job, a, c)
      /\ \A shown : Meant(x.job, saved) /\ Answers(x.job, answer, saved, shown) =>
           TellsTruth(a, saved, shown)
  BY <1>2, AdvanceFacts
<1>4. \A s, shown : Content(s, x, saved, shown) => Meant(x.job, saved)
  BY DEF Content
<1>5. x.at \in Busy
  OBVIOUS
<1> HIDE DEF a, saved
<1>6. ASSUME NEW y, NEW t, NEW r, Same(p, r), r.executors = [p.executors EXCEPT ![c] = y],
             r.settled = t, Sound(y, c), IsSeq(t), \A i \in DOMAIN t : IsJob(t[i], c),
             Kept(p.settled, x, t, y),
             \A shown : Content(p.settled, x, saved, shown) /\ TellsTruth(a, saved, shown) =>
               Content(t, y, saved, shown)
      PROVE  Goal(r)
  <2>1. /\ Shaped(r) /\ Placed(r)
        /\ \A K, E : /\ Flight(p, K, E) <=> FlightAt(p.settled, x, K, E)
                     /\ Flight(r, K, E) <=> FlightAt(r.settled, y, K, E)
        /\ \A shown :
              /\ Honest(p, shown) <=> Content(p.settled, x, saved, shown)
              /\ Honest(r, shown) <=> Content(r.settled, y, saved, shown)
    BY <1>1, <1>6, ExecutorCarried DEF saved
  <2> HIDE DEF x
  <2>2. \A K, E : "Catalog" \notin K /\ Flight(p, K, E) => Flight(r, K, E)
    BY <2>1, <1>6 DEF Kept
  <2>3. \A shown : Honest(p, shown) /\ Answers(x.job, answer, saved, shown) => Honest(r, shown)
    BY <2>1, <1>3, <1>4, <1>6
  <2> QED BY <2>1, <2>2, <2>3, <1>6
<1>7. CASE a.step = "complete"
  <2> DEFINE y == [x EXCEPT !.at = "idle", !.job = None, !.answer = None]
             r == [p EXCEPT !.settled = Append(@, a), !.executors[c] = y]
  <2>1. q = Pump(r, c)
    BY <1>7 DEF Resume, a
  <2>2. /\ Same(p, r) /\ r.executors = [p.executors EXCEPT ![c] = y]
        /\ r.settled = Append(p.settled, a)
    BY DEF Same, Shaped, PageFields
  <2> HIDE DEF r
  <2>3. /\ Sound(y, c) /\ IsSeq(Append(p.settled, a)) /\ Kept(p.settled, x, Append(p.settled, a), y)
        /\ \A i \in DOMAIN Append(p.settled, a) : IsJob(Append(p.settled, a)[i], c)
        /\ \A svd, shown : Content(p.settled, x, svd, shown) /\ TellsTruth(a, svd, shown) =>
              Content(Append(p.settled, a), y, svd, shown)
    BY <1>2, <1>3, <1>5, <1>7, SettledFacts
  <2> HIDE DEF y, x
  <2>4. Goal(r)
    BY <2>2, <2>3, <1>6
  <2>5. Carried(r, Pump(r, c)) /\ Same(r, Pump(r, c))
    BY <2>4, PumpCarried
  <2> QED BY <2>1, <2>4, <2>5, SameAgain DEF Carried
<1>8. CASE a.step # "complete" /\ x.job.kind = "Catalog"
  <2> DEFINE y == Yielded(x, a)
  <2>1. q = [p EXCEPT !.executors[c] = y]
    <3>1. a.kind = "Catalog"
      BY <1>3, <1>8 DEF Advances
    <3> QED BY <1>8, <3>1 DEF Resume, a, Yielded
  <2> HIDE DEF q
  <2>2. Same(p, q) /\ q.executors = [p.executors EXCEPT ![c] = y] /\ q.settled = p.settled
    BY <2>1 DEF Same, Shaped, PageFields
  <2> HIDE DEF x
  <2>3. /\ Sound(y, c) /\ \A s : Kept(s, x, s, y)
        /\ \A s, svd, shown : Content(s, x, svd, shown) => Content(s, y, svd, shown)
    BY <1>2, <1>3, <1>5, <1>8, YieldedFacts
  <2> HIDE DEF y, x
  <2> QED BY <2>2, <2>3, <1>2, <1>6
<1>9. CASE a.step # "complete" /\ x.job.kind # "Catalog"
  <2> DEFINE y == Begin(x, a)
  <2>1. q = [p EXCEPT !.executors[c] = y]
    <3>1. a.kind # "Catalog"
      BY <1>3, <1>9 DEF Advances
    <3> QED BY <1>9, <3>1 DEF Resume, a
  <2> HIDE DEF q
  <2>2. Same(p, q) /\ q.executors = [p.executors EXCEPT ![c] = y] /\ q.settled = p.settled
    BY <2>1 DEF Same, Shaped, PageFields
  <2>3. /\ Sound(y, c) /\ \A s : Kept(s, x, s, y)
        /\ \A s, svd, shown : Content(s, x, svd, shown) /\ TellsTruth(a, svd, shown) =>
             Content(s, y, svd, shown)
    BY <1>2, <1>3, <1>5, <1>9, NextStepFacts
  <2> HIDE DEF y, x
  <2> QED BY <2>2, <2>3, <1>2, <1>6
<1> HIDE DEF q, x
<1> QED BY <1>7, <1>8, <1>9

-----------------------------------------------------------------------------
(* A job is queued. *)

Queued(x, job) == [x EXCEPT !.foreground = Append(@, job)]
QueuedCatalog(x, job) == [x EXCEPT !.catalogs = Append(@, job)]

\* A job is put behind the others.
LEMMA QueuedFacts ==
  ASSUME NEW g, NEW x, Sound(x, g), NEW job, IsJob(job, g), job.kind # "Catalog",
         job.step = FirstStep(job.kind)
  PROVE  LET y == Queued(x, job)
         IN /\ Sound(y, g)
            /\ \A s, K, E : job.kind \notin K /\ FlightAt(s, x, K, E) => FlightAt(s, y, K, E)
            /\ \A s, K, E :
                 job.kind \in K /\ job.kind \in E /\ FlightAt(s, x, K, {}) => FlightAt(s, y, K, E)
            /\ \A s, saved, shown :
                 Content(s, x, saved, shown) /\ Meant(job, saved) /\ (Unsent(job) => shown = saved)
                   => Content(s, y, saved, shown)
<1> DEFINE y == Queued(x, job)
<1>1. /\ DOMAIN y = DOMAIN x /\ y.at = x.at /\ y.job = x.job /\ y.catalogs = x.catalogs
      /\ y.foreground = Append(x.foreground, job) /\ y.answer = x.answer
  BY DEF Sound, ExecutorFields, Queued
<1> HIDE DEF y
<1>2. /\ IsSeq(Append(x.foreground, job))
      /\ DOMAIN Append(x.foreground, job) = DOMAIN x.foreground \cup {Len(x.foreground) + 1}
      /\ \A i \in DOMAIN x.foreground : Append(x.foreground, job)[i] = x.foreground[i]
      /\ Append(x.foreground, job)[Len(x.foreground) + 1] = job
  BY Appended DEF Sound
<1>3. Sound(y, g)
  BY <1>1, <1>2 DEF Sound
<1>4. \A K : In(y.foreground, K) =
               In(x.foreground, K) \cup (IF job.kind \in K THEN {Len(x.foreground) + 1} ELSE {})
  BY <1>1, AppendedFlight DEF Sound
<1>5. \A K : Running(y, K) <=> Running(x, K)
  BY <1>1 DEF Running
<1>6. ASSUME NEW s, NEW K, NEW E, job.kind \notin K, FlightAt(s, x, K, E)
      PROVE  FlightAt(s, y, K, E)
  <2>1. In(y.foreground, K) = In(x.foreground, K)
    BY <1>4, <1>6
  <2>2. \A i \in In(x.foreground, K) : y.foreground[i] = x.foreground[i]
    BY <1>1, <1>2 DEF In
  <2> QED BY <2>1, <2>2, <1>1, <1>5, <1>6 DEF FlightAt
<1>7. ASSUME NEW s, NEW K, NEW E, job.kind \in K, job.kind \in E, FlightAt(s, x, K, {})
      PROVE  FlightAt(s, y, K, E)
  <2>1. In(s, K) = {} /\ ~Running(x, K) /\ In(x.foreground, K) = {}
    BY <1>7 DEF FlightAt
  <2>2. In(y.foreground, K) = {Len(x.foreground) + 1}
    BY <1>4, <1>7, <2>1
  <2> QED BY <2>1, <2>2, <1>1, <1>2, <1>5, <1>7 DEF FlightAt, One
<1>8. ASSUME NEW s, NEW saved, NEW shown, Content(s, x, saved, shown), Meant(job, saved),
             Unsent(job) => shown = saved
      PROVE  Content(s, y, saved, shown)
  BY <1>1, <1>2, <1>8 DEF Content
<1> QED BY <1>3, <1>6, <1>7, <1>8 DEF y

\* A catalog is put behind the others.
LEMMA QueuedCatalogFacts ==
  ASSUME NEW g, NEW x, Sound(x, g), NEW job, IsJob(job, g), job.kind = "Catalog",
         job.step = "exchange"
  PROVE  LET y == QueuedCatalog(x, job)
         IN /\ Sound(y, g)
            /\ \A s, K, E : FlightAt(s, x, K, E) => FlightAt(s, y, K, E)
            /\ \A s, saved, shown : Content(s, x, saved, shown) => Content(s, y, saved, shown)
<1> DEFINE y == QueuedCatalog(x, job)
<1>1. /\ DOMAIN y = DOMAIN x /\ y.at = x.at /\ y.job = x.job /\ y.foreground = x.foreground
      /\ y.catalogs = Append(x.catalogs, job) /\ y.answer = x.answer
  BY DEF Sound, ExecutorFields, QueuedCatalog
<1> HIDE DEF y
<1>2. /\ IsSeq(Append(x.catalogs, job))
      /\ DOMAIN Append(x.catalogs, job) = DOMAIN x.catalogs \cup {Len(x.catalogs) + 1}
      /\ \A i \in DOMAIN x.catalogs : Append(x.catalogs, job)[i] = x.catalogs[i]
      /\ Append(x.catalogs, job)[Len(x.catalogs) + 1] = job
  BY Appended DEF Sound
<1>3. Sound(y, g)
  BY <1>1, <1>2 DEF Sound
<1>4. \A s, K, E : FlightAt(s, x, K, E) => FlightAt(s, y, K, E)
  BY <1>1 DEF FlightAt, Running
<1>5. \A s, saved, shown : Content(s, x, saved, shown) => Content(s, y, saved, shown)
  BY <1>1 DEF Content
<1> QED BY <1>3, <1>4, <1>5 DEF y

\* A job of a kind that may be in flight, for the connected keyboard.
LEMMA EnqueueCarried ==
  ASSUME NEW p, Shaped(p), Placed(p), Connected(p), NEW kind \in Kinds, NEW by,
         by = "host" <=> kind \in HostKinds, NEW value
  PROVE  LET q == Enqueue(p, kind, by, value)
         IN /\ Same(p, q) /\ Shaped(q) /\ Placed(q)
            /\ \A K, E : /\ "Catalog" \notin K
                         /\ kind \in K => kind \in E /\ Flight(p, K, {})
                         /\ kind \notin K => Flight(p, K, E)
                         => Flight(q, K, E)
            /\ \A shown :
                 /\ Honest(p, shown)
                 /\ kind = "Apply" => value \in Values
                 /\ kind \in {"Start", "Stop"} => value = p.host.saved
                 /\ kind = "Start" => shown = p.host.saved
                 => Honest(q, shown)
<1> DEFINE c == p.generation
           x == p.executors[c]
           job == Job(p, kind, by, value)
           y == IF kind = "Catalog" THEN QueuedCatalog(x, job) ELSE Queued(x, job)
           r == [p EXCEPT !.executors[c] = y]
           q == Enqueue(p, kind, by, value)
           saved == p.host.saved
           Fits(shown) ==
             /\ kind = "Apply" => value \in Values
             /\ kind \in {"Start", "Stop"} => value = saved
             /\ kind = "Start" => shown = saved
<1>1. c \in Connections /\ c = p.connects /\ ~AtRest(p)
  BY BrowserAssumption DEF Placed, Connected, AtRest, Connections
<1>2. Sound(x, c) /\ IsSeq(p.settled) /\ \A i \in DOMAIN p.settled : IsJob(p.settled[i], c)
  BY <1>1 DEF Shaped
<1>3. IsJob(job, c) /\ job.kind = kind /\ job.step = FirstStep(kind) /\ job.value = value
  BY DEF Job, IsJob, JobFields
<1>4. q = Pump(r, c)
  BY DEF Enqueue, Queued, QueuedCatalog
<1> HIDE DEF job, x, saved, c, q
<1>5. Same(p, r) /\ r.executors = [p.executors EXCEPT ![c] = y] /\ r.settled = p.settled
  <2> HIDE DEF y
  <2> QED BY DEF Same, Shaped, PageFields
<1>6. FirstStep("Catalog") = "exchange"
  BY DEF FirstStep
<1>7. /\ Sound(y, c)
      /\ \A K, E : /\ "Catalog" \notin K
                   /\ kind \in K => kind \in E /\ FlightAt(p.settled, x, K, {})
                   /\ kind \notin K => FlightAt(p.settled, x, K, E)
                   => FlightAt(p.settled, y, K, E)
      /\ \A shown : Content(p.settled, x, saved, shown) /\ Fits(shown) =>
                      Content(p.settled, y, saved, shown)
  <2>1. CASE kind = "Catalog"
    <3>1. y = QueuedCatalog(x, job)
      BY <2>1
    <3> HIDE DEF y
    <3> QED BY <2>1, <3>1, <1>2, <1>3, <1>6, QueuedCatalogFacts
  <2>2. CASE kind # "Catalog"
    <3>1. y = Queued(x, job)
      BY <2>2
    <3> HIDE DEF y
    <3>2. /\ Sound(y, c)
          /\ \A s, K, E : kind \notin K /\ FlightAt(s, x, K, E) => FlightAt(s, y, K, E)
          /\ \A s, K, E :
               kind \in K /\ kind \in E /\ FlightAt(s, x, K, {}) => FlightAt(s, y, K, E)
          /\ \A s, svd, shown :
               Content(s, x, svd, shown) /\ Meant(job, svd) /\ (Unsent(job) => shown = svd)
                 => Content(s, y, svd, shown)
      BY <2>2, <3>1, <1>2, <1>3, QueuedFacts
    <3>3. \A shown : Fits(shown) => Meant(job, saved) /\ (Unsent(job) => shown = saved)
      BY <1>3 DEF Meant, Unsent
    <3> HIDE DEF Fits
    <3> QED BY <3>2, <3>3
  <2> QED BY <2>1, <2>2
<1> HIDE DEF y, r
<1>8. /\ Shaped(r) /\ Placed(r)
      /\ \A K, E : /\ Flight(p, K, E) <=> FlightAt(p.settled, x, K, E)
                   /\ Flight(r, K, E) <=> FlightAt(p.settled, y, K, E)
      /\ \A shown :
            /\ Honest(p, shown) <=> Content(p.settled, x, saved, shown)
            /\ Honest(r, shown) <=> Content(p.settled, y, saved, shown)
  BY <1>1, <1>2, <1>5, <1>7, ExecutorCarried DEF x, saved
<1>9. Carried(r, q) /\ Same(r, q)
  BY <1>1, <1>4, <1>8, PumpCarried
<1>10. Same(p, q) /\ Shaped(q) /\ Placed(q)
  BY <1>5, <1>9, SameAgain DEF Carried
<1>11. ASSUME NEW K, NEW E, "Catalog" \notin K, kind \in K => kind \in E /\ Flight(p, K, {}),
              kind \notin K => Flight(p, K, E)
       PROVE  Flight(q, K, E)
  <2>1. Flight(r, K, E)
    BY <1>7, <1>8, <1>11
  <2> QED BY <2>1, <1>9, <1>11 DEF Carried
<1>12. ASSUME NEW shown, Honest(p, shown), Fits(shown) PROVE Honest(q, shown)
  <2>1. Honest(r, shown)
    BY <1>7, <1>8, <1>12
  <2> QED BY <2>1, <1>9 DEF Carried
<1> QED BY <1>10, <1>11, <1>12 DEF q, saved

-----------------------------------------------------------------------------
(* The session's operations. *)

\* A step that leaves the host controller and the connection as they are, and
\* keeps what holds of the page whatever host job is in flight.
Steady(p, q) ==
  /\ q.host = p.host /\ q.generation = p.generation /\ q.connects = p.connects
  /\ q.closing = p.closing /\ q.force = p.force
  /\ \A E : Ordered(p, E) => Ordered(q, E)
  /\ \A E, shown : Ordered(p, E) /\ Truthful(p, shown) => Truthful(q, shown)

\* Two steady steps are one.
LEMMA SteadyAgain ==
  ASSUME NEW p, NEW q, NEW r, Steady(p, q), Steady(q, r) PROVE Steady(p, r)
BY DEF Steady

\* A page that does not change is steady.
LEMMA SteadyItself ==
  ASSUME NEW p PROVE Steady(p, p)
BY DEF Steady

\* Carried jobs and an untouched host controller make a steady step.
LEMMA CarriedSteady ==
  ASSUME NEW p, NEW q, Carried(p, q), q.host = p.host, q.generation = p.generation,
         q.connects = p.connects, q.closing = p.closing, q.force = p.force
  PROVE  /\ \A E : Ordered(p, E) => Ordered(q, E)
         /\ q.lighting = p.lighting /\ q.hosting = p.hosting /\ q.pending = p.pending =>
              Steady(p, q)
<1>1. "Catalog" \notin HostKinds /\ "Catalog" \notin SessionKinds
  BY DEF HostKinds, SessionKinds
<1>2. Hosted(p) => Hosted(q)
  BY DEF Hosted, Connected
<1>3. \A E : Ordered(p, E) => Ordered(q, E)
  BY <1>1, <1>2 DEF Carried, Ordered
<1>4. ASSUME q.lighting = p.lighting, q.hosting = p.hosting, q.pending = p.pending, NEW shown,
             Truthful(p, shown)
      PROVE  Truthful(q, shown)
  <2>1. Honest(q, shown)
    BY <1>4 DEF Carried, Truthful
  <2>2. Connected(q) => Flight(q, SessionKinds, {q.pending} \ {None})
    BY <1>1, <1>4
      DEF Carried, Truthful, Presented, EditorHeld, LightingTrue, HostHeld, Connected
  <2>3. Presented(q, shown)
    BY <1>4, <2>2
      DEF Truthful, Presented, EditorHeld, LightingTrue, HostHeld, Connected, Writing, Hosting
  <2> QED BY <2>1, <2>3 DEF Truthful
<1> QED BY <1>3, <1>4 DEF Steady

\* Carried jobs and an untouched session make a steady step.
LEMMA SameSteady ==
  ASSUME NEW p, NEW q, Carried(p, q), Same(p, q) PROVE Steady(p, q)
BY CarriedSteady DEF Same

\* The end of a scan is steady.
LEMMA EndScanSteady ==
  ASSUME NEW p, Shaped(p), Placed(p) PROVE Steady(p, EndScan(p))
BY EndScanCarried, SameSteady

\* Other fields are set.
LEMMA ElsewhereSteady ==
  ASSUME NEW p, NEW q, Shaped(p), Placed(p), Elsewhere(p, q), q.host = p.host,
         q.lighting = p.lighting, q.hosting = p.hosting, q.pending = p.pending,
         q.force = p.force
  PROVE  Steady(p, q)
BY ElsewhereCarried, CarriedSteady DEF Elsewhere

\* None is not an operation.
LEMMA NoneIsNoKind == None \notin SessionKinds
BY BrowserAssumption DEF SessionKinds

\* A snapshot of what the keyboard shows is there, and its value is a value.
LEMMA SnapshotFacts ==
  ASSUME NEW p, Placed(p), NEW shown \in Values \cup 1 .. p.connects
  PROVE  /\ Snapshot(shown) # None /\ Snapshot(shown).context = shown
         /\ Snapshot(shown).value \in Values \cup {None}
         /\ Snapshot(shown).value # None => Snapshot(shown).value = shown /\ shown \in Values
<1>1. shown \in Values \cup 1 .. MaxConnections
  BY BrowserAssumption DEF Placed
<1>2. Snapshot(shown) \in [value : Values \cup {None}, context : Values \cup 1 .. MaxConnections]
  BY <1>1 DEF Snapshot
<1>3. Snapshot(shown) # None
  BY <1>2, BrowserAssumption
<1> QED BY <1>3 DEF Snapshot

\* An operation is asked for while the session is idle.
LEMMA SubmitSteady ==
  ASSUME NEW p, Shaped(p), Placed(p), MaySubmit(p), NEW kind \in SessionKinds, NEW by,
         by # "host", kind = "Apply" => CanRequestApply(p.lighting) /\ p.closing # "Host"
  PROVE  Steady(p, Submit(p, kind, by))
<1> DEFINE value == IF kind = "Apply" THEN p.lighting.draft ELSE None
           r == IF kind = "Apply"
                  THEN [p EXCEPT !.pending = kind, !.lighting = RequestApply(@)]
                  ELSE [p EXCEPT !.pending = kind]
           q == Submit(p, kind, by)
<1>1. q = Enqueue(r, kind, by, value)
  BY DEF Submit
<1>2. /\ Connected(p) /\ p.hosting = "Idle" /\ p.pending = None
  BY DEF MaySubmit, SessionIdle
<1>3. /\ Elsewhere(p, r) /\ r.host = p.host /\ r.hosting = p.hosting /\ r.force = p.force
      /\ r.pending = kind
  BY DEF Elsewhere, Shaped, PageFields
<1>4. /\ kind # "Apply" => r.lighting = p.lighting
      /\ kind = "Apply" => r.lighting = RequestApply(p.lighting)
  BY DEF Shaped, PageFields
<1>5. Carried(p, r)
  BY <1>3, ElsewhereCarried
<1> HIDE DEF q, r
<1>6. /\ Connected(r) /\ kind \in Kinds /\ kind \notin HostKinds
      /\ by = "host" <=> kind \in HostKinds
  BY <1>2, <1>3 DEF Connected, Elsewhere, Kinds, SessionKinds, HostKinds
<1>7. /\ Same(r, q) /\ Shaped(q) /\ Placed(q)
      /\ \A K, E : /\ "Catalog" \notin K
                   /\ kind \in K => kind \in E /\ Flight(r, K, {})
                   /\ kind \notin K => Flight(r, K, E)
                   => Flight(q, K, E)
      /\ \A shown :
           /\ Honest(r, shown)
           /\ kind = "Apply" => value \in Values
           /\ kind \in {"Start", "Stop"} => value = r.host.saved
           /\ kind = "Start" => shown = r.host.saved
           => Honest(q, shown)
  BY <1>1, <1>5, <1>6, EnqueueCarried DEF Carried
<1>8. "Catalog" \notin HostKinds /\ "Catalog" \notin SessionKinds
  BY DEF HostKinds, SessionKinds
<1>9. /\ q.host = p.host /\ q.generation = p.generation /\ q.connects = p.connects
      /\ q.closing = p.closing /\ q.force = p.force /\ q.hosting = p.hosting /\ q.pending = kind
      /\ q.lighting = r.lighting
  BY <1>3, <1>7 DEF Same, Elsewhere
<1>10. ASSUME NEW E, Ordered(p, E) PROVE Ordered(q, E)
  <2>1. Hosted(q)
    BY <1>9, <1>10 DEF Ordered, Hosted, Connected
  <2>2. Flight(r, HostKinds, E)
    BY <1>5, <1>8, <1>10 DEF Carried, Ordered
  <2>3. Flight(q, HostKinds, E)
    BY <2>2, <1>6, <1>7, <1>8
  <2> QED BY <2>1, <2>3, <1>7 DEF Ordered
<1>11. ASSUME NEW E, NEW shown, Ordered(p, E), Truthful(p, shown) PROVE Truthful(q, shown)
  <2>1. /\ Honest(p, shown) /\ Presented(p, shown)
    BY <1>11 DEF Truthful
  <2>2. kind = "Apply" => value \in Values
    BY <2>1 DEF Presented, EditorHeld, LightingTrue, HostHeld, CanRequestApply, Dirty
  <2>3. kind \notin {"Start", "Stop"}
    BY DEF SessionKinds
  <2> HIDE DEF value
  <2>4. Honest(q, shown)
    BY <2>1, <2>2, <2>3, <1>5, <1>7 DEF Carried
  <2>5. Flight(p, SessionKinds, {})
    <3>1. Flight(p, SessionKinds, {p.pending} \ {None}) /\ {p.pending} \ {None} = {}
      BY <2>1, <1>2 DEF Presented, EditorHeld, LightingTrue, HostHeld
    <3> QED BY <3>1
  <2>6. Flight(q, SessionKinds, {q.pending} \ {None})
    <3>1. Flight(r, SessionKinds, {})
      BY <2>5, <1>5, <1>8 DEF Carried
    <3>2. kind \in {q.pending} \ {None}
      BY <1>9, NoneIsNoKind
    <3> QED BY <3>1, <3>2, <1>7, <1>8
  <2>7. /\ q.lighting.draft = p.lighting.draft /\ q.lighting.baseline = p.lighting.baseline
        /\ DOMAIN q.lighting = DOMAIN p.lighting
    BY <2>1, <1>4, <1>9
      DEF RequestApply, Presented, EditorHeld, LightingTrue, HostHeld, EditorFields
  <2>8. ~Hosting(p) /\ ~Hosting(q)
    BY <2>1, <1>2, <1>9 DEF Presented, EditorHeld, LightingTrue, HostHeld, Hosting
  <2>9. /\ Connected(q) /\ Ready(q.lighting) /\ ~Writing(q) /\ q.hosting = "Idle" =>
             q.lighting.baseline = Snapshot(shown)
    <3>1. Writing(q) \/ q.lighting = p.lighting
      BY <1>4, <1>9 DEF Writing
    <3>2. Connected(p) /\ ~Writing(p) /\ p.hosting = "Idle"
      BY <1>2, NoneIsNoKind DEF Writing, SessionKinds
    <3> QED BY <2>1, <3>1, <3>2 DEF Presented, EditorHeld, LightingTrue, HostHeld
  <2>10. q.closing = "Host" /\ ~q.force => ~Writing(q)
    BY <1>9 DEF Writing
  <2>11. Presented(q, shown)
    BY <2>1, <2>6, <2>7, <2>8, <2>9, <2>10, <1>2, <1>9
      DEF Presented, EditorHeld, LightingTrue, HostHeld, Hosting, Connected
  <2> QED BY <2>4, <2>11 DEF Truthful
<1>12. Steady(p, q)
  BY <1>9, <1>10, <1>11 DEF Steady
<1> QED BY <1>12 DEF q

\* Asking for the catalog is steady.
LEMMA DiscoverSteady ==
  ASSUME NEW p, Shaped(p), Placed(p), MayDiscover(p) PROVE Steady(p, Discover(p))
<1> DEFINE r == [p EXCEPT !.scan = p.scans + 1, !.scans = @ + 1]
           q == Discover(p)
<1>1. Elsewhere(p, r) /\ Same(p, r)
  BY DEF Elsewhere, Same, Shaped, PageFields
<1>2. q = Enqueue(r, "Catalog", "user", None)
  BY DEF Discover
<1> HIDE DEF r, q
<1>3. Carried(p, r)
  BY <1>1, ElsewhereCarried
<1>4. Connected(r)
  BY <1>1 DEF MayDiscover, Connected, Same
<1>5. "Catalog" \in Kinds /\ "Catalog" \notin HostKinds
  BY DEF Kinds, HostKinds
<1>6. /\ Same(r, q) /\ Shaped(q) /\ Placed(q)
      /\ \A K, E : /\ "Catalog" \notin K
                   /\ "Catalog" \in K => "Catalog" \in E /\ Flight(r, K, {})
                   /\ "Catalog" \notin K => Flight(r, K, E)
                   => Flight(q, K, E)
      /\ \A shown :
           /\ Honest(r, shown)
           /\ "Catalog" = "Apply" => None \in Values
           /\ "Catalog" \in {"Start", "Stop"} => None = r.host.saved
           /\ "Catalog" = "Start" => shown = r.host.saved
           => Honest(q, shown)
  BY <1>2, <1>3, <1>4, <1>5, EnqueueCarried DEF Carried
<1>7. Carried(r, q)
  BY <1>6 DEF Carried
<1>8. Steady(p, q)
  BY <1>1, <1>3, <1>6, <1>7, CarriedAgain, SameAgain, SameSteady
<1> QED BY <1>8 DEF q

\* So is the end of a task.
LEMMA EndedSteady ==
  ASSUME NEW p, Shaped(p), Placed(p), NEW task, task # "Choosing"
  PROVE  Steady(p, [p EXCEPT !.task = task])
<1>1. Elsewhere(p, [p EXCEPT !.task = task])
  BY DEF Elsewhere, Shaped, PageFields
<1> QED BY <1>1, ElsewhereSteady DEF Shaped, PageFields

\* The page stays shaped and its jobs placed.
LEMMA SteadyShaped ==
  ASSUME NEW p, NEW q, NEW E, Ordered(p, E), Steady(p, q)
  PROVE  Ordered(q, E) /\ Shaped(q) /\ Placed(q)
BY DEF Steady, Ordered

\* The last step of connecting is steady.
LEMMA LoadsCatalogSteady ==
  ASSUME NEW p, NEW E, Ordered(p, E) PROVE Steady(p, LoadsCatalog(p))
<1> DEFINE e == Ended(p)
<1>1. Steady(p, e)
  BY EndedSteady DEF Ended, Ordered
<1>2. MayDiscover(p) => MayDiscover(e)
  BY DEF MayDiscover, Ended, Connected, Ordered, Shaped, PageFields
<1>3. LoadsCatalog(p) = e \/ (MayDiscover(p) /\ LoadsCatalog(p) = Discover(e))
  BY DEF LoadsCatalog
<1> HIDE DEF e
<1>4. MayDiscover(e) => Steady(e, Discover(e))
  BY <1>1, SteadyShaped, DiscoverSteady
<1> QED BY <1>1, <1>2, <1>3, <1>4, SteadyAgain

\* A reading while connecting is steady.
LEMMA TaskSubmitSteady ==
  ASSUME NEW p, NEW E, Ordered(p, E), MaySubmit(p), NEW kind \in {"Keymap", "Lighting"}
  PROVE  Steady(p, Submit([p EXCEPT !.task = kind], kind, "connect"))
<1> DEFINE r == [p EXCEPT !.task = kind]
<1>1. Steady(p, r)
  BY EndedSteady DEF Ordered
<1>2. MaySubmit(r)
  BY DEF MaySubmit, SessionIdle, Connected, Ordered, Shaped, PageFields
<1> HIDE DEF r
<1>3. Steady(r, Submit(r, kind, "connect"))
  BY <1>1, <1>2, SteadyShaped, SubmitSteady DEF SessionKinds
<1> QED BY <1>1, <1>3, SteadyAgain DEF r

\* The steps of connecting that read the lighting are steady.
LEMMA ReadsLightingSteady ==
  ASSUME NEW p, NEW E, Ordered(p, E) PROVE Steady(p, ReadsLighting(p))
<1>1. Steady(p, Ended(p))
  BY EndedSteady DEF Ended, Ordered
<1>2. Steady(p, LoadsCatalog(p))
  BY LoadsCatalogSteady
<1>3. MaySubmit(p) => Steady(p, Submit([p EXCEPT !.task = "Lighting"], "Lighting", "connect"))
  BY TaskSubmitSteady
<1> QED BY <1>1, <1>2, <1>3 DEF ReadsLighting

\* The steps of connecting that read the keymap are steady.
LEMMA ReadsKeymapSteady ==
  ASSUME NEW p, NEW E, Ordered(p, E) PROVE Steady(p, ReadsKeymap(p))
<1>1. Steady(p, Ended(p))
  BY EndedSteady DEF Ended, Ordered
<1>2. Steady(p, ReadsLighting(p))
  BY ReadsLightingSteady
<1>3. MaySubmit(p) => Steady(p, Submit([p EXCEPT !.task = "Keymap"], "Keymap", "connect"))
  BY TaskSubmitSteady
<1> QED BY <1>1, <1>2, <1>3 DEF ReadsKeymap

\* A reading verifies what was read.
LEMMA ReadResultFacts ==
  ASSUME NEW e, EditorFields \subseteq DOMAIN e, NEW result
  PROVE  LET f == ReadResult(e, result)
         IN /\ DOMAIN f = DOMAIN e
            /\ f.draft = e.draft \/ (result.kind = "ok" /\ f.draft = result.snapshot.value)
            /\ Ready(f) => result.kind = "ok" /\ f.baseline = result.snapshot
BY DEF ReadResult, EditorFields, Ready

\* A save verifies what was confirmed, and keeps the draft.
LEMMA ApplyResultFacts ==
  ASSUME NEW e, EditorFields \subseteq DOMAIN e, NEW result, result.kind \in {"ok", "error"}
  PROVE  LET f == ApplyResult(e, result)
         IN /\ DOMAIN f = DOMAIN e /\ f.draft = e.draft
            /\ Ready(f) => result.kind = "ok" /\ f.baseline = result.snapshot
<1>1. ApplyStatus(e, result) = "Ready" => result.kind = "ok"
  BY DEF ApplyStatus
<1> QED BY <1>1 DEF ApplyResult, EditorFields, Ready

\* The result of an operation that is no longer in flight.
LEMMA AcceptResultFacts ==
  ASSUME NEW p, NEW E, Ordered(p, E), NEW job, job.kind \in SessionKinds \cup {"Catalog"},
         NEW saved
  PROVE  LET q == AcceptResult(p, job)
         IN /\ Ordered(q, E) /\ q.host = p.host /\ q.closing = p.closing
            /\ \A shown : /\ Truthful(p, shown) /\ Told(job, saved, shown)
                          /\ Connected(p) /\ job.kind \in SessionKinds => Flight(p, SessionKinds, {})
                          => Truthful(q, shown)
<1> DEFINE q == AcceptResult(p, job)
           Goal(r) ==
             /\ Ordered(r, E) /\ r.host = p.host /\ r.closing = p.closing
             /\ \A shown : /\ Truthful(p, shown) /\ Told(job, saved, shown)
                           /\ Connected(p) /\ job.kind \in SessionKinds => Flight(p, SessionKinds, {})
                           => Truthful(r, shown)
<1> SUFFICES Goal(q)
  OBVIOUS
<1>1. \A r : Steady(p, r) => Goal(r)
  BY DEF Steady
<1>2. Goal(p) /\ Goal(EndScan(p))
  BY <1>1, SteadyItself, EndScanSteady DEF Ordered
<1>3. CASE q = p \/ q = EndScan(p)
  BY <1>2, <1>3
<1>4. CASE /\ job.kind \in SessionKinds /\ job.kind = p.pending
           /\ \/ /\ job.kind = "Keymap"
                 /\ \E keymap : q = [p EXCEPT !.pending = None, !.keymap = keymap]
              \/ /\ job.kind = "Lighting"
                 /\ q = [p EXCEPT !.pending = None, !.lighting = ReadResult(@, job.value)]
              \/ /\ job.kind = "Apply"
                 /\ q = [p EXCEPT !.pending = None, !.lighting = ApplyResult(@, job.value)]
  <2>1. /\ Elsewhere(p, q) /\ q.host = p.host /\ q.force = p.force /\ q.hosting = p.hosting
        /\ q.pending = None
    BY <1>4 DEF Elsewhere, Ordered, Shaped, PageFields
  <2>2. /\ job.kind = "Keymap" => q.lighting = p.lighting
        /\ job.kind = "Lighting" => q.lighting = ReadResult(p.lighting, job.value)
        /\ job.kind = "Apply" => q.lighting = ApplyResult(p.lighting, job.value)
    BY <1>4 DEF Ordered, Shaped, PageFields
  <2> HIDE DEF q
  <2>3. Carried(p, q)
    BY <2>1, ElsewhereCarried DEF Ordered
  <2>4. Ordered(q, E)
    BY <2>1, <2>3, CarriedSteady DEF Elsewhere
  <2>5. ASSUME NEW shown, Truthful(p, shown), Told(job, saved, shown),
               Connected(p) /\ job.kind \in SessionKinds => Flight(p, SessionKinds, {})
        PROVE  Truthful(q, shown)
    <3>1. Presented(p, shown) /\ Honest(p, shown)
      BY <2>5 DEF Truthful
    <3>2. Honest(q, shown)
      BY <2>3, <3>1 DEF Carried
    <3>3. p.pending # None /\ ~Hosting(p) /\ ~Hosting(q) /\ p.hosting = "Idle"
      <4>1. p.pending # None
        BY <1>4, NoneIsNoKind
      <4> QED BY <4>1, <2>1, <3>1 DEF Presented, EditorHeld, LightingTrue, HostHeld, Hosting
    <3>4. Connected(q) => Flight(q, SessionKinds, {q.pending} \ {None})
      <4>1. Connected(p) => Flight(p, SessionKinds, {})
        BY <1>4, <2>5
      <4>2. "Catalog" \notin SessionKinds /\ {q.pending} \ {None} = {}
        BY <2>1 DEF SessionKinds
      <4> QED BY <4>1, <4>2, <2>1, <2>3 DEF Carried, Connected, Elsewhere
    <3>5. EditorFields \subseteq DOMAIN p.lighting /\ p.lighting.draft \in Values \cup {None}
      BY <3>1 DEF Presented, EditorHeld, LightingTrue, HostHeld
    <3>6. job.kind \in {"Lighting", "Apply"} =>
            /\ job.value.kind \in {"ok", "error"}
            /\ job.value.kind = "ok" => job.value.snapshot = Snapshot(shown)
      BY <2>5 DEF Told
    <3>7. Snapshot(shown).value \in Values \cup {None}
      BY DEF Snapshot
    <3>8. /\ EditorFields \subseteq DOMAIN q.lighting /\ q.lighting.draft \in Values \cup {None}
          /\ job.kind # "Keymap" /\ Ready(q.lighting) => q.lighting.baseline = Snapshot(shown)
      <4>1. CASE job.kind = "Keymap"
        BY <4>1, <2>2, <3>5
      <4>2. CASE job.kind = "Lighting"
        <5> DEFINE f == ReadResult(p.lighting, job.value)
        <5>1. /\ DOMAIN f = DOMAIN p.lighting
              /\ f.draft = p.lighting.draft
                   \/ (job.value.kind = "ok" /\ f.draft = job.value.snapshot.value)
              /\ Ready(f) => job.value.kind = "ok" /\ f.baseline = job.value.snapshot
          BY <3>5, ReadResultFacts
        <5> HIDE DEF f
        <5>2. q.lighting = f
          BY <4>2, <2>2 DEF f
        <5> QED BY <4>2, <3>5, <3>6, <3>7, <5>1, <5>2
      <4>3. CASE job.kind = "Apply"
        BY <4>3, <2>2, <3>5, <3>6, <3>7, ApplyResultFacts
      <4> QED BY <4>1, <4>2, <4>3, <1>4
    <3>9. Connected(q) /\ Ready(q.lighting) /\ ~Writing(q) /\ q.hosting = "Idle" =>
            q.lighting.baseline = Snapshot(shown)
      <4>1. job.kind = "Keymap" => ~Writing(p)
        BY <1>4 DEF Writing
      <4> QED BY <4>1, <2>1, <2>2, <3>1, <3>3, <3>8
        DEF Presented, EditorHeld, LightingTrue, HostHeld, Connected, Elsewhere
    <3>10. ~Writing(q)
      BY <2>1, NoneIsNoKind DEF Writing, SessionKinds
    <3>11. Presented(q, shown)
      BY <2>1, <3>1, <3>3, <3>4, <3>8, <3>9, <3>10
        DEF Presented, EditorHeld, LightingTrue, HostHeld, Connected, Elsewhere
    <3> QED BY <3>2, <3>11 DEF Truthful
  <2> QED BY <2>1, <2>4, <2>5 DEF Elsewhere
<1> QED BY <1>3, <1>4 DEF AcceptResult, SessionKinds

-----------------------------------------------------------------------------
(* The host controller. *)

\* Another lighting to come back to: nothing is said of it while no host job is
\* in flight.
LEMMA NoHostJob ==
  ASSUME NEW p, NEW q, NEW shown, Flight(p, HostKinds, {}), Honest(p, shown),
         q.connects = p.connects, q.settled = p.settled, q.executors = p.executors
  PROVE  Honest(q, shown)
<1> SUFFICES ASSUME q.connects \in Connections
             PROVE  Content(q.settled, q.executors[q.connects], q.host.saved, shown)
  BY DEF Honest
<1> DEFINE x == p.executors[p.connects]
           s == p.settled
<1>1. FlightAt(s, x, HostKinds, {}) /\ Content(s, x, p.host.saved, shown)
  BY DEF Flight, Honest
<1> HIDE DEF x, s
<1>2. /\ In(s, HostKinds) = {} /\ ~Running(x, HostKinds) /\ In(x.foreground, HostKinds) = {}
  BY <1>1 DEF FlightAt
<1>3. "Start" \in HostKinds /\ "Stop" \in HostKinds
  BY DEF HostKinds
<1>4. \A i \in DOMAIN s : s[i].kind \notin {"Start", "Stop"}
  BY <1>2, <1>3 DEF In
<1>5. \A i \in DOMAIN x.foreground : x.foreground[i].kind \notin {"Start", "Stop"}
  BY <1>2, <1>3 DEF In
<1>6. x.at \in Busy => x.job.kind \notin {"Start", "Stop"}
  BY <1>2, <1>3 DEF Running
<1>7. \A saved : \A i \in DOMAIN s : Told(s[i], saved, shown)
  BY <1>1, <1>4 DEF Content, Told
<1>8. \A saved : \A i \in DOMAIN x.foreground :
        Meant(x.foreground[i], saved) /\ ~Unsent(x.foreground[i])
  BY <1>1, <1>5 DEF Content, Meant, Unsent
<1>9. \A saved : x.at \in Busy => Meant(x.job, saved) /\ ~Unsent(x.job)
  BY <1>1, <1>6 DEF Content, Meant, Unsent
<1>10. \A saved : Content(s, x, saved, shown)
  BY <1>1, <1>7, <1>8, <1>9 DEF Content, Busy
<1> QED BY <1>10 DEF x, s

\* The controller and the session's view of it change, and no job moves.
HostMoves(p, q) ==
  /\ DOMAIN q = DOMAIN p /\ q.executors = p.executors /\ q.settled = p.settled
  /\ q.generation = p.generation /\ q.connects = p.connects /\ q.closing = p.closing
  /\ q.task = p.task /\ q.force = p.force /\ q.pending = p.pending
  /\ q.recording = p.recording
  /\ HostFields \subseteq DOMAIN q.host

\* A move of the host controller keeps the jobs in order.
LEMMA HostMovesOrdered ==
  ASSUME NEW p, NEW E, Ordered(p, E), NEW q, HostMoves(p, q), Hosted(q)
  PROVE  /\ Ordered(q, E)
         /\ \A shown : EditorHeld(p, shown) /\ q.lighting = p.lighting => EditorHeld(q, shown)
<1>1. Shaped(q)
  BY DEF Ordered, Shaped, HostMoves
<1>2. Placed(q)
  BY DEF Ordered, Placed, HostMoves, AtRest, Connected
<1>3. \A K, F : Flight(p, K, F) <=> Flight(q, K, F)
  BY DEF Flight, HostMoves
<1>4. Ordered(q, E)
  BY <1>1, <1>2, <1>3 DEF Ordered
<1>5. \A shown : EditorHeld(p, shown) /\ q.lighting = p.lighting => EditorHeld(q, shown)
  BY <1>3 DEF EditorHeld, HostMoves, Connected, Writing
<1> QED BY <1>4, <1>5

\* A move that neither begins nor ends host lighting keeps what is presented.
LEMMA HostMovesTruthful ==
  ASSUME NEW p, NEW E, Ordered(p, E), NEW q, HostMoves(p, q), Hosted(q),
         q.lighting = p.lighting, q.host.saved = p.host.saved,
         q.hosting = "Idle" <=> p.hosting = "Idle", Hosting(q) <=> Hosting(p),
         p.host.problem => q.host.problem, NEW shown, Truthful(p, shown)
  PROVE  Truthful(q, shown)
<1>1. EditorHeld(q, shown)
  BY HostMovesOrdered DEF Truthful, Presented
<1>2. LightingTrue(q, shown)
  BY DEF Truthful, Presented, LightingTrue, HostMoves, Connected, Writing
<1>3. HostHeld(q, shown)
  BY DEF Truthful, Presented, HostHeld, HostMoves, Connected
<1>4. Honest(q, shown)
  BY DEF Truthful, Honest, HostMoves
<1> QED BY <1>1, <1>2, <1>3, <1>4 DEF Truthful, Presented

\* The controller is idle again: what is presented is true if a lighting still
\* shown is noted as a problem.
LEMMA HostFinishesFacts ==
  ASSUME NEW p, Ordered(p, {}), NEW problem \in BOOLEAN
  PROVE  LET q == HostFinishes(p, problem)
         IN /\ Ordered(q, {}) /\ Ordered(q, HostExpected(q.host)) /\ q.host.phase = "Idle"
            /\ HostMoves(p, q)
            /\ \A shown : /\ Honest(p, shown) /\ EditorHeld(p, shown) /\ LightingTrue(p, shown)
                          /\ p.hosting = "Idle"
                          /\ Connected(p) /\ shown = p.generation => problem
                          => Truthful(q, shown)
<1> DEFINE q == HostFinishes(p, problem)
<1>1. /\ HostMoves(p, q) /\ q.lighting = p.lighting /\ q.hosting = p.hosting
      /\ q.host = [IdleHost EXCEPT !.problem = problem]
  BY DEF HostFinishes, HostMoves, Ordered, Shaped, PageFields, IdleHost, HostFields
<1> HIDE DEF q
<1>2. /\ q.host.phase = "Idle" /\ q.host.activity = FALSE /\ q.host.draining = FALSE
      /\ q.host.stopping = FALSE /\ q.host.problem = problem
  BY <1>1 DEF IdleHost
<1>3. Hosted(q) /\ HostExpected(q.host) = {} /\ ~Hosting(q)
  BY <1>2 DEF Hosted, HostExpected, Hosting
<1>4. Ordered(q, {})
  BY <1>1, <1>3, HostMovesOrdered
<1>5. ASSUME NEW shown, Honest(p, shown), EditorHeld(p, shown), LightingTrue(p, shown),
             p.hosting = "Idle", Connected(p) /\ shown = p.generation => problem
      PROVE  Truthful(q, shown)
  <2>1. EditorHeld(q, shown)
    BY <1>1, <1>3, <1>5, HostMovesOrdered
  <2>2. LightingTrue(q, shown)
    BY <1>1, <1>5 DEF LightingTrue, HostMoves, Connected, Writing
  <2>3. HostHeld(q, shown)
    BY <1>1, <1>2, <1>3, <1>5 DEF HostHeld, HostMoves, Connected
  <2>4. Honest(q, shown)
    BY <1>1, <1>5, NoHostJob DEF HostMoves, Ordered
  <2> QED BY <2>1, <2>2, <2>3, <2>4 DEF Truthful, Presented
<1> QED BY <1>1, <1>2, <1>3, <1>4, <1>5 DEF q

\* What a move of the controller that stays active leaves.
GoesOn(p, q) ==
  /\ Ordered(q, HostExpected(q.host))
  /\ q.generation = p.generation /\ q.connects = p.connects /\ q.closing = p.closing
  /\ q.force = p.force /\ q.pending = p.pending
  /\ \A shown : Truthful(p, shown) => Truthful(q, shown)

\* The controller sends a stop or a frame.
LEMMA HostEnqueues ==
  ASSUME NEW p, Ordered(p, {}), Hosting(p), p.host.activity, p.host.draining,
         NEW kind \in {"Stop", "Frame"}, NEW value, kind = "Stop" => value = p.host.saved
  PROVE  LET q == Enqueue(p, kind, "host", value)
         IN GoesOn(p, q) /\ q.host = p.host
<1> DEFINE q == Enqueue(p, kind, "host", value)
<1>1. Connected(p) /\ Shaped(p) /\ Placed(p)
  BY DEF Ordered, Hosted, Hosting
<1>2. kind \in Kinds /\ ("host" = "host" <=> kind \in HostKinds) /\ kind \notin SessionKinds
  BY DEF Kinds, HostKinds, SessionKinds
<1>3. /\ Same(p, q) /\ Shaped(q) /\ Placed(q)
      /\ \A K, E : /\ "Catalog" \notin K
                   /\ kind \in K => kind \in E /\ Flight(p, K, {})
                   /\ kind \notin K => Flight(p, K, E)
                   => Flight(q, K, E)
      /\ \A shown :
           /\ Honest(p, shown)
           /\ kind = "Apply" => value \in Values
           /\ kind \in {"Start", "Stop"} => value = p.host.saved
           /\ kind = "Start" => shown = p.host.saved
           => Honest(q, shown)
  BY <1>1, <1>2, EnqueueCarried
<1> HIDE DEF q
<1>4. "Catalog" \notin HostKinds /\ "Catalog" \notin SessionKinds
  BY DEF HostKinds, SessionKinds
<1>5. HostExpected(q.host) = {"Stop", "Frame"}
  BY <1>3 DEF Same, Hosting, HostExpected
<1>6. Flight(q, HostKinds, {"Stop", "Frame"})
  BY <1>2, <1>3, <1>4 DEF Ordered
<1>7. Hosted(q)
  BY <1>3 DEF Ordered, Hosted, Same, Connected
<1>8. Ordered(q, HostExpected(q.host))
  BY <1>3, <1>5, <1>6, <1>7 DEF Ordered
<1>9. ASSUME NEW shown, Truthful(p, shown) PROVE Truthful(q, shown)
  <2>1. Honest(q, shown)
    BY <1>3, <1>9 DEF Truthful
  <2>2. Connected(q) => Flight(q, SessionKinds, {q.pending} \ {None})
    BY <1>2, <1>3, <1>4, <1>9 DEF Truthful, Presented, EditorHeld, Same, Connected
  <2>3. EditorHeld(q, shown)
    BY <1>3, <1>9, <2>2 DEF Truthful, Presented, EditorHeld, Same, Connected, Writing
  <2>4. LightingTrue(q, shown)
    BY <1>3, <1>9 DEF Truthful, Presented, LightingTrue, Same, Connected, Writing
  <2>5. HostHeld(q, shown)
    BY <1>3, <1>9 DEF Truthful, Presented, HostHeld, Same, Connected, Hosting
  <2> QED BY <2>1, <2>3, <2>4, <2>5 DEF Truthful, Presented
<1> QED BY <1>3, <1>8, <1>9 DEF GoesOn, Same, q

\* The controller's pump sends a stop before a frame, or waits.
LEMMA HostDrainsFacts ==
  ASSUME NEW p, Ordered(p, {}), Hosting(p), p.host.activity
  PROVE  GoesOn(p, HostDrains(p)) /\ HostDrains(p).host.phase = p.host.phase
<1> DEFINE stop == [SessionStopsHost(p) EXCEPT !.host.draining = TRUE]
           frame == [p EXCEPT !.host.draining = TRUE, !.host.frame = FALSE]
           none == [p EXCEPT !.host.draining = FALSE]
<1>1. \/ HostDrains(p) = Enqueue(stop, "Stop", "host", p.host.saved)
      \/ HostDrains(p) = Enqueue(frame, "Frame", "host", None)
      \/ HostDrains(p) = none
  BY DEF HostDrains
<1> DEFINE Moved(r) ==
             /\ HostMoves(p, r) /\ r.lighting = p.lighting
             /\ r.hosting = "Idle" <=> p.hosting = "Idle"
             /\ DOMAIN r.host = DOMAIN p.host /\ r.host.saved = p.host.saved
             /\ r.host.phase = p.host.phase /\ r.host.activity = p.host.activity
             /\ r.host.stopping = p.host.stopping /\ r.host.problem = p.host.problem
             /\ r.host.draining \in BOOLEAN
<1>2. \A r \in {stop, frame, none} : Moved(r)
  <2>1. Moved(stop)
    <3> DEFINE z == SessionStopsHost(p)
    <3>1. /\ DOMAIN z = DOMAIN p /\ z.host = p.host /\ z.executors = p.executors
          /\ z.settled = p.settled /\ z.generation = p.generation /\ z.connects = p.connects
          /\ z.closing = p.closing /\ z.task = p.task /\ z.force = p.force
          /\ z.recording = p.recording
          /\ z.pending = p.pending /\ z.lighting = p.lighting
          /\ z.hosting = "Idle" <=> p.hosting = "Idle"
      BY DEF Ordered, Shaped, PageFields, SessionStopsHost
    <3> HIDE DEF z
    <3>2. PageFields \subseteq DOMAIN z /\ HostFields \subseteq DOMAIN z.host
      BY <3>1 DEF Ordered, Shaped
    <3>3. /\ DOMAIN stop = DOMAIN z /\ stop.executors = z.executors
          /\ stop.settled = z.settled /\ stop.generation = z.generation
          /\ stop.connects = z.connects /\ stop.closing = z.closing /\ stop.task = z.task
          /\ stop.recording = z.recording
          /\ stop.force = z.force /\ stop.pending = z.pending /\ stop.lighting = z.lighting
          /\ stop.hosting = z.hosting /\ stop.host = [z.host EXCEPT !.draining = TRUE]
      BY <3>2 DEF z, PageFields
    <3>4. stop.host = [p.host EXCEPT !.draining = TRUE]
      BY <3>1, <3>3
    <3> HIDE DEF stop
    <3>5. /\ DOMAIN stop.host = DOMAIN p.host /\ stop.host.saved = p.host.saved
          /\ stop.host.phase = p.host.phase /\ stop.host.activity = p.host.activity
          /\ stop.host.stopping = p.host.stopping /\ stop.host.problem = p.host.problem
          /\ stop.host.draining \in BOOLEAN
      BY <3>2, <3>1, <3>4 DEF HostFields
    <3> QED BY <3>1, <3>2, <3>3, <3>5 DEF HostMoves
  <2>2. Moved(frame)
    BY DEF Ordered, Shaped, PageFields, HostFields, HostMoves
  <2>3. Moved(none)
    BY DEF Ordered, Shaped, PageFields, HostFields, HostMoves
  <2> QED BY <2>1, <2>2, <2>3
<1>3. stop.host.draining /\ frame.host.draining /\ ~none.host.draining
  BY DEF Ordered, Shaped, PageFields, HostFields, SessionStopsHost
<1> HIDE DEF stop, frame, none
<1>4. \A r \in {stop, frame, none} :
        /\ Hosted(r) /\ Hosting(r) /\ Ordered(r, {})
        /\ \A shown : Truthful(p, shown) => Truthful(r, shown)
  <2> SUFFICES ASSUME NEW r \in {stop, frame, none}
               PROVE  /\ Hosted(r) /\ Hosting(r) /\ Ordered(r, {})
                      /\ \A shown : Truthful(p, shown) => Truthful(r, shown)
    OBVIOUS
  <2>1. Hosted(r) /\ Hosting(r)
    BY <1>2 DEF Ordered, Hosted, Hosting, HostMoves, Connected
  <2>2. Ordered(r, {})
    BY <1>2, <2>1, HostMovesOrdered
  <2>3. \A shown : Truthful(p, shown) => Truthful(r, shown)
    BY <1>2, <2>1, HostMovesTruthful
  <2> QED BY <2>1, <2>2, <2>3
<1>5. CASE HostDrains(p) = Enqueue(stop, "Stop", "host", p.host.saved)
  <2> DEFINE q == Enqueue(stop, "Stop", "host", p.host.saved)
  <2>1. GoesOn(stop, q) /\ q.host = stop.host
    BY <1>2, <1>3, <1>4, HostEnqueues
  <2> HIDE DEF q
  <2>2. GoesOn(p, q)
    BY <1>2, <1>4, <2>1 DEF GoesOn, HostMoves
  <2> QED BY <1>2, <1>5, <2>1, <2>2 DEF q
<1>6. CASE HostDrains(p) = Enqueue(frame, "Frame", "host", None)
  <2> DEFINE q == Enqueue(frame, "Frame", "host", None)
  <2>1. GoesOn(frame, q) /\ q.host = frame.host
    BY <1>2, <1>3, <1>4, HostEnqueues
  <2> HIDE DEF q
  <2>2. GoesOn(p, q)
    BY <1>2, <1>4, <2>1 DEF GoesOn, HostMoves
  <2> QED BY <1>2, <1>6, <2>1, <2>2 DEF q
<1>7. CASE HostDrains(p) = none
  <2>1. HostExpected(none.host) = {}
    BY <1>2, <1>3 DEF HostExpected
  <2> QED BY <1>2, <1>4, <1>7, <2>1 DEF GoesOn, HostMoves
<1> QED BY <1>1, <1>5, <1>6, <1>7

\* Two such moves are one.
LEMMA GoesOnAgain ==
  ASSUME NEW p, NEW q, NEW r, GoesOn(p, q), GoesOn(q, r) PROVE GoesOn(p, r)
BY DEF GoesOn

\* A stop is asked for in any phase of the controller.
LEMMA HostStopsFacts ==
  ASSUME NEW p, Ordered(p, HostExpected(p.host)), NEW problem \in BOOLEAN
  PROVE  /\ GoesOn(p, HostStops(p, problem))
         /\ HostStops(p, problem).host.phase \in {"Idle", "Stopping"}
<1> DEFINE q == HostStops(p, problem)
<1>0. p.host.problem \in BOOLEAN
  BY DEF Ordered, Hosted
<1>1. CASE p.host.phase = "Preparing"
  <2>1. q = HostFinishes(p, problem \/ p.host.problem)
    BY <1>1 DEF HostStops
  <2>2. (problem \/ p.host.problem) \in BOOLEAN /\ HostExpected(p.host) = {}
    BY <1>0, <1>1 DEF HostExpected
  <2> HIDE DEF q
  <2>3. Ordered(p, {})
    BY <2>2
  <2>4. /\ Ordered(q, HostExpected(q.host)) /\ q.host.phase = "Idle" /\ HostMoves(p, q)
        /\ \A shown : /\ Honest(p, shown) /\ EditorHeld(p, shown) /\ LightingTrue(p, shown)
                      /\ p.hosting = "Idle"
                      /\ Connected(p) /\ shown = p.generation => problem \/ p.host.problem
                      => Truthful(q, shown)
    BY <2>1, <2>2, <2>3, HostFinishesFacts
  <2>5. \A shown : Truthful(p, shown) => Truthful(q, shown)
    BY <2>4, <1>1 DEF Truthful, Presented, HostHeld, Hosting
  <2> QED BY <2>4, <2>5 DEF GoesOn, HostMoves, q
<1>2. CASE p.host.phase = "Idle"
  BY <1>2 DEF HostStops, GoesOn
<1>3. CASE p.host.phase \notin {"Idle", "Preparing"}
  <2> DEFINE z == [p EXCEPT !.host.stopping = TRUE, !.host.frame = FALSE,
                            !.host.phase = "Stopping", !.host.problem = @ \/ problem]
             r == SessionStopsHost(z)
  <2>1. q = IF p.host.draining \/ ~p.host.activity THEN r ELSE HostDrains(r)
    <3> HIDE DEF z
    <3>1. r.host = z.host
      BY DEF SessionStopsHost, z
    <3> QED BY <1>3, <3>1 DEF HostStops, z
  <2>2. /\ DOMAIN z = DOMAIN p /\ z.executors = p.executors
        /\ z.settled = p.settled /\ z.generation = p.generation /\ z.connects = p.connects
        /\ z.closing = p.closing /\ z.task = p.task /\ z.force = p.force
        /\ z.recording = p.recording
        /\ z.pending = p.pending /\ z.lighting = p.lighting /\ z.hosting = p.hosting
    BY DEF Ordered, Shaped, PageFields
  <2>3. /\ DOMAIN z.host = DOMAIN p.host /\ z.host.saved = p.host.saved
        /\ z.host.phase = "Stopping" /\ z.host.activity = p.host.activity
        /\ z.host.stopping = TRUE /\ z.host.draining = p.host.draining
        /\ z.host.problem \in BOOLEAN
        /\ p.host.problem => z.host.problem
    BY <1>0 DEF Ordered, Shaped, PageFields, HostFields
  <2> HIDE DEF z, q
  <2>4. /\ DOMAIN r = DOMAIN z /\ r.host = z.host /\ r.executors = z.executors
        /\ r.settled = z.settled /\ r.generation = z.generation /\ r.connects = z.connects
        /\ r.closing = z.closing /\ r.task = z.task /\ r.force = z.force
        /\ r.recording = z.recording
        /\ r.pending = z.pending /\ r.lighting = z.lighting
        /\ r.hosting = "Idle" <=> z.hosting = "Idle"
    BY <2>2 DEF Ordered, Shaped, PageFields, SessionStopsHost
  <2> HIDE DEF r
  <2>5. HostMoves(p, r) /\ (Hosting(r) <=> Hosting(p)) /\ Hosting(r)
    BY <1>3, <2>2, <2>3, <2>4 DEF HostMoves, Hosting, Ordered, Shaped
  <2>6. Hosted(r)
    <3>1. /\ r.host.phase = "Stopping" /\ r.host.stopping = TRUE
          /\ r.host.activity = p.host.activity /\ r.host.draining = p.host.draining
          /\ r.host.problem \in BOOLEAN
      BY <2>3, <2>4
    <3>2. Connected(r)
      BY <1>3, <2>2, <2>4 DEF Ordered, Hosted, Connected
    <3>3. /\ p.host.draining => p.host.activity
          /\ p.host.activity \in BOOLEAN /\ p.host.draining \in BOOLEAN
      BY DEF Ordered, Hosted
    <3> QED BY <3>1, <3>2, <3>3 DEF Hosted
  <2>7. Ordered(r, HostExpected(p.host))
    BY <2>5, <2>6, HostMovesOrdered
  <2>8. HostExpected(r.host) = HostExpected(p.host)
    BY <1>3, <2>3, <2>4 DEF HostExpected
  <2>9. \A shown : Truthful(p, shown) => Truthful(r, shown)
    <3>1. /\ r.lighting = p.lighting /\ r.host.saved = p.host.saved
          /\ r.hosting = "Idle" <=> p.hosting = "Idle"
          /\ p.host.problem => r.host.problem
      BY <2>2, <2>3, <2>4
    <3> QED BY <3>1, <2>5, <2>6, HostMovesTruthful
  <2>10. GoesOn(p, r) /\ r.host.phase = "Stopping"
    BY <2>3, <2>4, <2>5, <2>7, <2>8, <2>9 DEF GoesOn, HostMoves
  <2>11. CASE p.host.draining \/ ~p.host.activity
    BY <2>1, <2>10, <2>11 DEF q
  <2>12. CASE ~(p.host.draining \/ ~p.host.activity)
    <3>1. Ordered(r, {}) /\ r.host.activity
      BY <1>3, <2>3, <2>4, <2>7, <2>12 DEF HostExpected
    <3>2. GoesOn(r, HostDrains(r)) /\ HostDrains(r).host.phase = r.host.phase
      BY <2>5, <3>1, HostDrainsFacts
    <3>3. q = HostDrains(r)
      BY <2>1, <2>12 DEF q
    <3> QED BY <2>10, <3>2, <3>3, GoesOnAgain DEF q
  <2> QED BY <2>11, <2>12
<1> QED BY <1>1, <1>2, <1>3

\* What is said of a lighting that is not known is not verified.
LEMMA UnknownFacts ==
  ASSUME NEW e, EditorFields \subseteq DOMAIN e
  PROVE  LET f == ApplyResult(e, Unknown)
         IN DOMAIN f = DOMAIN e /\ f.draft = e.draft /\ ~Ready(f)
<1>1. Unknown.kind = "error" /\ Unknown.kind \in {"ok", "error"} /\ Unknown.kind # "ok"
  BY DEF Unknown
<1> QED BY <1>1, ApplyResultFacts

\* The session hears that host lighting is over.
LEMMA HostFinishedFacts ==
  ASSUME NEW p, Ordered(p, {}), Hosting(p), NEW result
  PROVE  LET q == HostFinished(p, result)
         IN /\ Ordered(q, {}) /\ q.generation = p.generation /\ q.host = p.host
            /\ q.hosting = "Idle"
            /\ \A shown : /\ Truthful(p, shown)
                          /\ result # "Unverified" => shown = p.host.saved
                          => Honest(q, shown) /\ EditorHeld(q, shown) /\ LightingTrue(q, shown)
<1> DEFINE q == HostFinished(p, result)
           misread == result = "Restored" /\ Snapshot(p.host.saved) # p.lighting.baseline
           l == IF result = "Unverified" \/ misread
                  THEN ApplyResult(p.lighting, Unknown) ELSE p.lighting
<1>1. /\ HostMoves(p, q) /\ q.host = p.host /\ q.hosting = "Idle" /\ q.lighting = l
  BY DEF HostFinished, HostMoves, Ordered, Shaped, PageFields
<1> HIDE DEF q
<1>2. Hosted(q)
  BY <1>1 DEF Ordered, Hosted, HostMoves, Connected
<1>3. Ordered(q, {})
  BY <1>1, <1>2, HostMovesOrdered
<1>4. ASSUME NEW shown, Truthful(p, shown), result # "Unverified" => shown = p.host.saved
      PROVE  Honest(q, shown) /\ EditorHeld(q, shown) /\ LightingTrue(q, shown)
  <2>1. /\ EditorFields \subseteq DOMAIN p.lighting /\ p.lighting.draft \in Values \cup {None}
        /\ p.lighting.baseline = Snapshot(p.host.saved)
    BY <1>4 DEF Truthful, Presented, EditorHeld, HostHeld
  <2>2. /\ DOMAIN l = DOMAIN p.lighting /\ l.draft = p.lighting.draft
        /\ Ready(l) => result # "Unverified" /\ l = p.lighting
    BY <2>1, UnknownFacts
  <2> HIDE DEF l
  <2>3. Honest(q, shown)
    BY <1>1, <1>4 DEF Truthful, Honest, HostMoves
  <2>4. \A K, E : Flight(p, K, E) <=> Flight(q, K, E)
    BY <1>1 DEF Flight, HostMoves
  <2>5. EditorHeld(q, shown)
    BY <1>1, <1>4, <2>1, <2>2, <2>4
      DEF Truthful, Presented, EditorHeld, HostMoves, Connected, Writing
  <2>6. LightingTrue(q, shown)
    BY <1>1, <1>4, <2>1, <2>2 DEF LightingTrue
  <2> QED BY <2>3, <2>5, <2>6
<1> QED BY <1>1, <1>3, <1>4 DEF q, HostMoves

\* A start that succeeded goes on, or is stopped at once.
LEMMA HostStartedFacts ==
  ASSUME NEW p, Ordered(p, {}), Hosting(p), ~p.host.activity
  PROVE  LET q == HostStarted([p EXCEPT !.host.activity = TRUE,
                                        !.hosting = IF @ = "Starting" THEN "Active" ELSE @])
         IN GoesOn(p, q)
<1> DEFINE r == [p EXCEPT !.host.activity = TRUE,
                          !.hosting = IF @ = "Starting" THEN "Active" ELSE @]
           a == [r EXCEPT !.host.phase = "Active"]
           q == HostStarted(r)
<1>1. /\ DOMAIN r = DOMAIN p /\ r.executors = p.executors
      /\ r.settled = p.settled /\ r.generation = p.generation /\ r.connects = p.connects
      /\ r.closing = p.closing /\ r.task = p.task /\ r.force = p.force
      /\ r.recording = p.recording
      /\ r.pending = p.pending /\ r.lighting = p.lighting
      /\ r.hosting = "Idle" <=> p.hosting = "Idle"
  BY DEF Ordered, Shaped, PageFields
<1>2. /\ DOMAIN r.host = DOMAIN p.host /\ r.host.saved = p.host.saved
      /\ r.host.phase = p.host.phase /\ r.host.activity = TRUE
      /\ r.host.stopping = p.host.stopping /\ r.host.draining = p.host.draining
      /\ r.host.problem = p.host.problem
  BY DEF Ordered, Shaped, PageFields, HostFields
<1>3. q = IF p.host.stopping THEN HostDrains(r) ELSE a
  <2> HIDE DEF r
  <2> QED BY <1>2 DEF HostStarted
<1> HIDE DEF r, q
<1>4. HostMoves(p, r) /\ (Hosting(r) <=> Hosting(p)) /\ Hosting(r)
  BY <1>1, <1>2 DEF HostMoves, Hosting, Ordered, Shaped
<1>5. /\ {p.host.draining, p.host.stopping, p.host.problem} \subseteq BOOLEAN
      /\ p.host.draining = FALSE /\ p.host.phase # "Active" /\ Connected(p)
      /\ p.host.phase \in {"Starting", "Stopping"}
      /\ p.host.phase = "Stopping" => p.host.stopping
      /\ p.closing = "Host" => p.host.phase = "Stopping"
  BY DEF Ordered, Hosted, Hosting
<1>6. Hosted(r)
  BY <1>1, <1>2, <1>5 DEF Hosted, Connected
<1>7. Ordered(r, {})
  BY <1>4, <1>6, HostMovesOrdered
<1>8. \A shown : Truthful(p, shown) => Truthful(r, shown)
  BY <1>1, <1>2, <1>4, <1>6, HostMovesTruthful
<1>9. HostExpected(r.host) = {}
  BY <1>2, <1>5 DEF HostExpected
<1>10. GoesOn(p, r)
  BY <1>4, <1>7, <1>8, <1>9 DEF GoesOn, HostMoves
<1>11. CASE p.host.stopping
  <2>1. GoesOn(r, HostDrains(r))
    BY <1>2, <1>4, <1>7, HostDrainsFacts
  <2> QED BY <1>3, <1>10, <1>11, <2>1, GoesOnAgain DEF q, r
<1>12. CASE ~p.host.stopping
  <2>1. /\ DOMAIN a = DOMAIN r /\ a.executors = r.executors
        /\ a.settled = r.settled /\ a.generation = r.generation /\ a.connects = r.connects
        /\ a.closing = r.closing /\ a.task = r.task /\ a.force = r.force
        /\ a.recording = r.recording
        /\ a.pending = r.pending /\ a.lighting = r.lighting /\ a.hosting = r.hosting
    BY <1>7 DEF Ordered, Shaped, PageFields
  <2>2. /\ DOMAIN a.host = DOMAIN r.host /\ a.host.saved = r.host.saved
        /\ a.host.phase = "Active" /\ a.host.activity = TRUE
        /\ a.host.stopping = r.host.stopping /\ a.host.draining = r.host.draining
        /\ a.host.problem = r.host.problem
    BY <1>2, <1>7 DEF Ordered, Shaped, PageFields, HostFields
  <2> HIDE DEF a
  <2>3. HostMoves(r, a) /\ Hosting(a)
    BY <2>1, <2>2, <1>7 DEF HostMoves, Hosting, Ordered, Shaped
  <2>4. Hosted(a)
    BY <1>1, <1>2, <1>5, <1>12, <2>1, <2>2 DEF Hosted, Connected
  <2>5. Ordered(a, {})
    BY <1>7, <2>3, <2>4, HostMovesOrdered
  <2>6. \A shown : Truthful(r, shown) => Truthful(a, shown)
    BY <1>4, <1>7, <2>1, <2>2, <2>3, <2>4, HostMovesTruthful
  <2>7. HostExpected(a.host) = {}
    BY <1>2, <1>5, <2>2 DEF HostExpected
  <2>8. GoesOn(r, a)
    BY <2>3, <2>5, <2>6, <2>7 DEF GoesOn, HostMoves
  <2> QED BY <1>3, <1>10, <1>12, <2>8, GoesOnAgain DEF q, r, a
<1> QED BY <1>11, <1>12

\* The controller hears of its job, when no other of its jobs is in flight.
LEMMA HostAcceptsFacts ==
  ASSUME NEW p, Ordered(p, {}), NEW job, job.kind \in HostExpected(p.host)
  PROVE  LET q == HostAccepts(p, job)
         IN /\ Ordered(q, HostExpected(q.host))
            /\ \A shown : Truthful(p, shown) /\ Told(job, p.host.saved, shown) => Truthful(q, shown)
<1> DEFINE q == HostAccepts(p, job)
<1>1. Hosting(p) /\ Connected(p) /\ p.host.problem \in BOOLEAN
  BY DEF HostExpected, Hosting, Ordered, Hosted
<1>2. /\ job.kind \in {"Start", "Stop", "Frame"}
      /\ job.kind = "Start" => ~p.host.activity
      /\ job.kind = "Frame" => p.host.activity
  BY DEF HostExpected
<1>3. CASE job.kind = "Start" /\ job.value = "Started"
  <2>1. q = HostStarted([p EXCEPT !.host.activity = TRUE,
                                  !.hosting = IF @ = "Starting" THEN "Active" ELSE @])
    BY <1>3 DEF HostAccepts
  <2> HIDE DEF q
  <2>2. GoesOn(p, q)
    BY <1>1, <1>2, <1>3, <2>1, HostStartedFacts
  <2> QED BY <2>2 DEF GoesOn, q
<1>4. CASE job.kind = "Frame" /\ job.value.kind = "ok"
  <2>1. q = HostDrains(p)
    BY <1>4 DEF HostAccepts
  <2> HIDE DEF q
  <2>2. GoesOn(p, q)
    BY <1>1, <1>2, <1>4, <2>1, HostDrainsFacts
  <2> QED BY <2>2 DEF GoesOn, q
<1>5. CASE job.kind = "Frame" /\ job.value.kind # "ok"
  <2> DEFINE r == [p EXCEPT !.host.problem = TRUE, !.host.stopping = TRUE]
  <2>1. q = HostDrains(r)
    BY <1>5 DEF HostAccepts
  <2>2. /\ DOMAIN r = DOMAIN p /\ r.executors = p.executors
        /\ r.settled = p.settled /\ r.generation = p.generation /\ r.connects = p.connects
        /\ r.closing = p.closing /\ r.task = p.task /\ r.force = p.force
        /\ r.recording = p.recording
        /\ r.pending = p.pending /\ r.lighting = p.lighting /\ r.hosting = p.hosting
    BY DEF Ordered, Shaped, PageFields
  <2>3. /\ DOMAIN r.host = DOMAIN p.host /\ r.host.saved = p.host.saved
        /\ r.host.phase = p.host.phase /\ r.host.activity = p.host.activity
        /\ r.host.stopping = TRUE /\ r.host.draining = p.host.draining /\ r.host.problem = TRUE
    BY DEF Ordered, Shaped, PageFields, HostFields
  <2> HIDE DEF q, r
  <2>4. HostMoves(p, r) /\ (Hosting(r) <=> Hosting(p)) /\ Hosting(r)
    BY <1>1, <2>2, <2>3 DEF HostMoves, Hosting, Ordered, Shaped
  <2>5. Hosted(r)
    BY <2>2, <2>3 DEF Ordered, Hosted, Connected
  <2>6. Ordered(r, {})
    BY <2>4, <2>5, HostMovesOrdered
  <2>7. \A shown : Truthful(p, shown) => Truthful(r, shown)
    BY <2>2, <2>3, <2>4, <2>5, HostMovesTruthful
  <2>8. GoesOn(r, HostDrains(r))
    BY <1>2, <1>5, <2>3, <2>4, <2>6, HostDrainsFacts
  <2> QED BY <2>1, <2>7, <2>8 DEF GoesOn, q
<1>6. CASE /\ job.kind \in {"Start", "Stop"}
           /\ ~(job.kind = "Start" /\ job.value = "Started")
  <2> DEFINE r == HostFinished(p, job.value)
             problem == p.host.problem \/ job.value # "Restored"
  <2>1. q = HostFinishes(r, problem)
    BY <1>6 DEF HostAccepts
  <2>2. problem \in BOOLEAN
    BY <1>1
  <2>3. /\ Ordered(r, {}) /\ r.generation = p.generation /\ r.host = p.host
        /\ r.hosting = "Idle"
        /\ \A shown : /\ Truthful(p, shown)
                      /\ job.value # "Unverified" => shown = p.host.saved
                      => Honest(r, shown) /\ EditorHeld(r, shown) /\ LightingTrue(r, shown)
    BY <1>1, HostFinishedFacts
  <2> HIDE DEF q, r
  <2>4. /\ Ordered(q, HostExpected(q.host))
        /\ \A shown : /\ Honest(r, shown) /\ EditorHeld(r, shown) /\ LightingTrue(r, shown)
                      /\ r.hosting = "Idle"
                      /\ Connected(r) /\ shown = r.generation => problem
                      => Truthful(q, shown)
    <3> HIDE DEF problem
    <3> QED BY <2>1, <2>2, <2>3, HostFinishesFacts
  <2>5. ASSUME NEW shown, Truthful(p, shown), Told(job, p.host.saved, shown)
        PROVE  Truthful(q, shown)
    <3>1. job.value # "Unverified" => shown = p.host.saved
      BY <1>6, <2>5 DEF Told
    <3>2. p.host.saved \in Values
      BY <1>1, <2>5 DEF Truthful, Presented, HostHeld
    <3>3. Connected(r) /\ shown = r.generation => problem
      <4>1. job.value = "Restored" => shown \in Values
        BY <3>1, <3>2
      <4>2. p.generation \notin Values
        BY <1>1, BrowserAssumption DEF Connected, Ordered, Placed
      <4> QED BY <2>3, <4>1, <4>2
    <3> QED BY <2>3, <2>4, <2>5, <3>1, <3>3
  <2> QED BY <2>4, <2>5 DEF q
<1> QED BY <1>2, <1>3, <1>4, <1>5, <1>6

-----------------------------------------------------------------------------
(* Connecting and disconnecting. *)

\* What holds of p still holds of q, while the keyboard shows the same.
Keeps(p, q) ==
  /\ Ordered(q, HostExpected(q.host))
  /\ \A shown : Truthful(p, shown) => Truthful(q, shown)

\* What the controller leaves keeps both invariants.
LEMMA GoesOnKeeps ==
  ASSUME NEW p, NEW q, GoesOn(p, q) PROVE Keeps(p, q)
BY DEF GoesOn, Keeps

\* Two steps that keep what holds keep it together.
LEMMA KeepsAgain ==
  ASSUME NEW p, NEW q, NEW r, Keeps(p, q), Keeps(q, r) PROVE Keeps(p, r)
BY DEF Keeps

\* A steady step keeps what holds.
LEMMA SteadyKeeps ==
  ASSUME NEW p, NEW q, Ordered(p, HostExpected(p.host)), Steady(p, q) PROVE Keeps(p, q)
BY DEF Steady, Keeps

\* The end of a task keeps what holds.
LEMMA EndedKeeps ==
  ASSUME NEW p, Ordered(p, HostExpected(p.host)) PROVE Keeps(p, Ended(p))
<1>1. Steady(p, Ended(p))
  BY EndedSteady DEF Ordered, Ended
<1> QED BY <1>1, SteadyKeeps

\* Jobs, host lighting and the session's lighting stay as they are.
Untouched(p, q) ==
  /\ DOMAIN q = DOMAIN p /\ q.executors = p.executors /\ q.settled = p.settled
  /\ q.connects = p.connects /\ q.pending = p.pending /\ q.lighting = p.lighting
  /\ q.hosting = p.hosting /\ q.host = p.host /\ q.generation = p.generation
  /\ q.recording = p.recording
  /\ q.task = p.task \/ q.task # "Choosing"

\* A disconnection is asked for, or given up.
LEMMA ClosingFacts ==
  ASSUME NEW p, NEW E, Ordered(p, E), Connected(p), NEW q, Untouched(p, q),
         q.closing \in {"No", "Host"}, q.closing = "Host" => q.host.phase \in {"Idle", "Stopping"}
  PROVE  /\ Ordered(q, E)
         /\ \A shown : Truthful(p, shown) /\ (q.closing = "Host" /\ ~q.force => ~Writing(q))
                         => Truthful(q, shown)
<1>1. Shaped(q)
  BY DEF Ordered, Shaped, Untouched
<1>2. Placed(q)
  BY DEF Ordered, Placed, Untouched, AtRest, Connected
<1>3. Hosted(q)
  BY DEF Ordered, Hosted, Untouched, Connected
<1>4. \A K, F : Flight(p, K, F) <=> Flight(q, K, F)
  BY DEF Flight, Untouched
<1>5. Ordered(q, E)
  BY <1>1, <1>2, <1>3, <1>4 DEF Ordered
<1>6. ASSUME NEW shown, Truthful(p, shown), q.closing = "Host" /\ ~q.force => ~Writing(q)
      PROVE  Truthful(q, shown)
  <2>1. Honest(q, shown)
    BY <1>6 DEF Truthful, Honest, Untouched
  <2>2. EditorHeld(q, shown)
    BY <1>4, <1>6 DEF Truthful, Presented, EditorHeld, Untouched, Connected
  <2>3. LightingTrue(q, shown)
    BY <1>6 DEF Truthful, Presented, LightingTrue, Untouched, Connected, Writing
  <2>4. HostHeld(q, shown)
    BY <1>6 DEF Truthful, Presented, HostHeld, Untouched, Connected, Hosting
  <2> QED BY <2>1, <2>2, <2>3, <2>4 DEF Truthful, Presented
<1> QED BY <1>5, <1>6

\* A page that is not connected presents nothing.
LEMMA AwayFacts ==
  ASSUME NEW p, NEW q, ~Connected(q), q.connects = p.connects, q.lighting = p.lighting,
         q.pending = p.pending, q.hosting = p.hosting, Hosting(q) <=> Hosting(p), ~Hosting(p),
         q.closing # "Host", NEW shown, Presented(p, shown)
  PROVE  Presented(q, shown)
<1>1. EditorHeld(q, shown)
  BY DEF Presented, EditorHeld
<1>2. LightingTrue(q, shown)
  BY DEF LightingTrue
<1>3. HostHeld(q, shown)
  BY DEF Presented, HostHeld
<1> QED BY <1>1, <1>2, <1>3 DEF Presented

\* The end of a disconnection, and the choice of the next keyboard.
LEMMA AwayOrdered ==
  ASSUME NEW p, Ordered(p, HostExpected(p.host)), NEW q, ~Connected(p),
         DOMAIN q = DOMAIN p, q.executors = p.executors, q.settled = p.settled,
         q.connects = p.connects, q.pending = p.pending, q.lighting = p.lighting,
         q.hosting = p.hosting, q.host = p.host, q.generation = p.generation,
         q.recording = p.recording, q.closing \in {"No", "Device"},
         p.settled = << >>, \A c \in Connections : Finished(p.executors[c]),
         q.task = "Choosing" => q.closing = "No" /\ p.connects < MaxConnections
  PROVE  Keeps(p, q)
<1>1. Shaped(q)
  BY DEF Ordered, Shaped
<1>2. Placed(q)
  BY DEF Ordered, Placed, AtRest, Connected
<1>3. p.host.phase = "Idle" /\ Hosted(q) /\ ~Hosting(p) /\ (Hosting(q) <=> Hosting(p))
  BY DEF Ordered, Hosted, Connected, Hosting
<1>4. \A K, F : Flight(p, K, F) <=> Flight(q, K, F)
  BY DEF Flight
<1>5. Ordered(q, HostExpected(q.host))
  BY <1>1, <1>2, <1>3, <1>4 DEF Ordered
<1>6. ASSUME NEW shown, Truthful(p, shown) PROVE Truthful(q, shown)
  <2>1. Honest(q, shown)
    BY <1>6 DEF Truthful, Honest
  <2>2. ~Connected(q) /\ q.closing # "Host" /\ Presented(p, shown)
    BY <1>6 DEF Connected, Truthful
  <2>3. Presented(q, shown)
    BY <1>3, <2>2, AwayFacts
  <2> QED BY <2>1, <2>3 DEF Truthful
<1> QED BY <1>5, <1>6 DEF Keeps

\* The connection whose executor is told to finish; t is the page that waits
\* for it.
LEMMA RetireCarried ==
  ASSUME NEW p, NEW t, t = [p EXCEPT !.closing = "Executor"], PageFields \subseteq DOMAIN p,
         Shaped(t), Placed(t), ~Connected(t), t.connects \in Connections
  PROVE  Carried(t, Retire(p)) /\ Same(t, Retire(p))
<1> DEFINE c == t.connects
           x == t.executors[c]
           y == [x EXCEPT !.active = FALSE]
           r == [p EXCEPT !.closing = "Executor", !.executors[c].active = FALSE]
<1>1. /\ t.closing = "Executor" /\ t.connects = p.connects /\ t.executors = p.executors
      /\ t.settled = p.settled /\ ~AtRest(t)
  BY DEF PageFields, AtRest
<1>2. Retire(p) = Pump(r, c)
  BY <1>1 DEF Retire, Retired
<1>3. Same(t, r)
  BY DEF PageFields, Same
<1>4. r.executors = [t.executors EXCEPT ![c] = y] /\ r.settled = t.settled
  BY <1>1 DEF PageFields
<1> HIDE DEF r
<1>5. Sound(x, c) /\ IsSeq(r.settled) /\ \A i \in DOMAIN r.settled : IsJob(r.settled[i], c)
  BY <1>4 DEF Shaped
<1>6. /\ DOMAIN y = DOMAIN x /\ y.at = x.at /\ y.job = x.job /\ y.answer = x.answer
      /\ y.foreground = x.foreground /\ y.catalogs = x.catalogs
  BY <1>5 DEF Sound, ExecutorFields
<1> HIDE DEF y
<1>7. Sound(y, c)
  BY <1>5, <1>6 DEF Sound
<1>8. \A s, K, E : FlightAt(s, x, K, E) => FlightAt(s, y, K, E)
  BY <1>6 DEF FlightAt, Running
<1>9. \A s, saved, shown : Content(s, x, saved, shown) => Content(s, y, saved, shown)
  BY <1>6 DEF Content
<1> HIDE DEF x
<1>10. /\ Shaped(r) /\ Placed(r)
       /\ \A K, E : /\ Flight(t, K, E) <=> FlightAt(t.settled, x, K, E)
                    /\ Flight(r, K, E) <=> FlightAt(r.settled, y, K, E)
       /\ \A shown :
            /\ Honest(t, shown) <=> Content(t.settled, x, t.host.saved, shown)
            /\ Honest(r, shown) <=> Content(r.settled, y, t.host.saved, shown)
  <2>1. c \in Connections /\ c = t.connects
    OBVIOUS
  <2> QED BY <2>1, <1>1, <1>3, <1>4, <1>5, <1>7, ExecutorCarried DEF x
<1>11. Carried(t, r)
  BY <1>4, <1>8, <1>9, <1>10 DEF Carried
<1>12. Carried(r, Pump(r, c)) /\ Same(r, Pump(r, c))
  BY <1>10, PumpCarried
<1> QED BY <1>2, <1>3, <1>11, <1>12, CarriedAgain, SameAgain

\* The end of the session leaves the last executor its jobs.
LEMMA TearDownKeeps ==
  ASSUME NEW p, Ordered(p, {}), p.host.phase = "Idle", Connected(p)
  PROVE  Keeps(p, TearDown(p))
<1> DEFINE h == [p EXCEPT !.host = IdleHost, !.listener = "None"]
           a == [h EXCEPT !.recording = FALSE]
           b == EndScan(a)
           l == IF Writing(h) \/ h.hosting # "Idle" THEN ApplyResult(b.lighting, Unknown) ELSE b.lighting
           q == [b EXCEPT !.generation = 0, !.pending = None, !.hosting = "Idle", !.lighting = l]
           t == [q EXCEPT !.closing = "Executor"]
           u == [q EXCEPT !.closing = "Listener"]
<1>0. q = SessionDisconnect(h)
  BY DEF SessionDisconnect
<1>1. TearDown(p) = IF p.listener = "None" THEN Retire(q) ELSE u
  <2> HIDE DEF q
  <2> QED BY <1>0 DEF TearDown
<1>2. /\ DOMAIN a = DOMAIN p /\ a.executors = p.executors /\ a.settled = p.settled
      /\ a.generation = p.generation /\ a.connects = p.connects /\ a.closing = p.closing
      /\ a.host = IdleHost /\ a.lighting = p.lighting /\ a.task = p.task
      /\ a.recording = FALSE
  BY DEF Ordered, Shaped, PageFields
<1> HIDE DEF a
<1>3. Shaped(a)
  BY <1>2 DEF Ordered, Shaped, IdleHost, HostFields
<1>4. Placed(a)
  BY <1>2 DEF Ordered, Placed, AtRest, Connected
<1>5. Carried(a, b) /\ Same(a, b)
  BY <1>3, <1>4, EndScanCarried
<1> HIDE DEF b, l
<1>6. /\ DOMAIN b = DOMAIN p /\ b.connects = p.connects /\ b.host = IdleHost
      /\ b.lighting = p.lighting /\ b.task = p.task /\ Shaped(b) /\ Placed(b)
      /\ b.generation = p.generation /\ b.recording = FALSE
  BY <1>2, <1>5 DEF Same, Carried
<1>7. \A K, E : "Catalog" \notin K /\ Flight(p, K, E) => Flight(b, K, E)
  BY <1>2, <1>5 DEF Carried, Flight
<1>8. \A shown : Honest(p, shown) => Honest(b, shown)
  <2>1. \A shown : Honest(p, shown) => Honest(a, shown)
    BY <1>2, NoHostJob DEF Ordered
  <2> QED BY <2>1, <1>5 DEF Carried
<1>9. p.connects \in Connections /\ p.task # "Choosing"
  BY BrowserAssumption DEF Ordered, Placed, Connected, Connections
<1> DEFINE Gone(z, C) ==
             /\ DOMAIN z = DOMAIN b /\ z.executors = b.executors /\ z.settled = b.settled
             /\ z.generation = 0 /\ z.connects = b.connects /\ z.closing = C /\ z.host = b.host
             /\ z.hosting = "Idle" /\ z.pending = None /\ z.lighting = l /\ z.task = b.task
             /\ z.recording = FALSE
<1>10. Gone(t, "Executor") /\ Gone(u, "Listener")
  BY <1>6 DEF Shaped, PageFields
<1>11. ASSUME NEW z, NEW C \in {"Executor", "Listener"}, Gone(z, C)
       PROVE  Keeps(p, z) /\ ~Connected(z) /\ Shaped(z) /\ Placed(z)
  <2>1. Shaped(z)
    BY <1>6, <1>11 DEF Shaped
  <2>2. ~Connected(z) /\ ~AtRest(z)
    BY <1>11 DEF Connected, AtRest
  <2>3. Placed(z)
    BY <1>6, <1>9, <1>11, <2>2 DEF Placed, Connected
  <2>4. Hosted(z) /\ ~Hosting(z) /\ HostExpected(z.host) = {}
    BY <1>6, <1>11 DEF Hosted, Hosting, HostExpected, IdleHost
  <2>5. Flight(z, HostKinds, {})
    BY <1>7, <1>11 DEF Ordered, Flight, HostKinds
  <2>6. Ordered(z, HostExpected(z.host))
    BY <2>1, <2>3, <2>4, <2>5 DEF Ordered
  <2>7. ASSUME NEW shown, Truthful(p, shown) PROVE Truthful(z, shown)
    <3>1. Honest(z, shown)
      BY <1>8, <1>11, <2>7 DEF Truthful, Honest
    <3>2. EditorFields \subseteq DOMAIN p.lighting /\ p.lighting.draft \in Values \cup {None}
      BY <2>7 DEF Truthful, Presented, EditorHeld
    <3>3. DOMAIN l = DOMAIN p.lighting /\ l.draft = p.lighting.draft
      BY <1>6, <3>2, UnknownFacts DEF l
    <3>4. EditorHeld(z, shown)
      BY <1>6, <1>11, <2>2, <2>7, <3>2, <3>3 DEF Truthful, Presented, EditorHeld
    <3>5. LightingTrue(z, shown) /\ HostHeld(z, shown)
      BY <1>11, <2>2, <2>4 DEF LightingTrue, HostHeld
    <3> QED BY <3>1, <3>4, <3>5 DEF Truthful, Presented
  <2> QED BY <2>1, <2>2, <2>3, <2>6, <2>7 DEF Keeps
<1>12. /\ PageFields \subseteq DOMAIN q /\ t.connects = p.connects
  BY <1>6 DEF Shaped, PageFields
<1> HIDE DEF u, q
<1>13. CASE p.listener # "None"
  BY <1>1, <1>10, <1>11, <1>13
<1>14. CASE p.listener = "None"
  <2>1. Keeps(p, t) /\ ~Connected(t) /\ Shaped(t) /\ Placed(t)
    <3> HIDE DEF t
    <3> QED BY <1>10, <1>11
  <2>2. Carried(t, Retire(q)) /\ Same(t, Retire(q))
    BY <1>9, <1>12, <2>1, RetireCarried
  <2> HIDE DEF t
  <2>3. Keeps(t, Retire(q))
    <3>1. Steady(t, Retire(q))
      BY <2>2, SameSteady
    <3>2. Ordered(t, HostExpected(t.host))
      BY <2>1 DEF Keeps
    <3> QED BY <3>1, <3>2, SteadyKeeps
  <2>4. Keeps(p, Retire(q))
    BY <2>1, <2>3, KeepsAgain
  <2> QED BY <1>1, <1>14, <2>4
<1> QED BY <1>13, <1>14

\* A disconnection goes on or is given up.
LEMMA LeaveKeeps ==
  ASSUME NEW p, Ordered(p, {}), p.host.phase = "Idle", Connected(p)
  PROVE  Keeps(p, Leave(p))
<1> DEFINE q == [p EXCEPT !.closing = "No"]
<1>1. Untouched(p, q) /\ q.closing = "No"
  BY DEF Ordered, Shaped, PageFields, Untouched
<1> HIDE DEF q
<1>2. Ordered(q, {}) /\ \A shown : Truthful(p, shown) => Truthful(q, shown)
  BY <1>1, ClosingFacts
<1>3. HostExpected(q.host) = {}
  BY <1>1 DEF Untouched, HostExpected
<1>4. Keeps(p, q)
  BY <1>2, <1>3 DEF Keeps
<1> QED BY <1>4, TearDownKeeps DEF Leave, q

\* A disconnection is begun.
LEMMA DisconnectKeeps ==
  ASSUME NEW p, Ordered(p, HostExpected(p.host)), NEW force \in BOOLEAN, MayDisconnect(p, force)
  PROVE  Keeps(p, Disconnect(p, force))
<1> DEFINE q == [p EXCEPT !.force = force, !.timer = FALSE]
           s == HostStops(q, FALSE)
           t == [s EXCEPT !.closing = "Host"]
<1>1. Connected(p) /\ p.closing = "No" /\ (Writing(p) => force)
  BY DEF MayDisconnect, Saving
<1>2. Untouched(p, q) /\ q.closing = "No" /\ q.force = force
  BY <1>1 DEF Ordered, Shaped, PageFields, Untouched
<1>3. Disconnect(p, force) = IF HostBusy(p) THEN t ELSE Leave(q)
  BY DEF Disconnect
<1> HIDE DEF q
<1>4. Ordered(q, HostExpected(p.host)) /\ \A shown : Truthful(p, shown) => Truthful(q, shown)
  BY <1>1, <1>2, ClosingFacts
<1>5. HostExpected(q.host) = HostExpected(p.host) /\ Connected(q)
  BY <1>1, <1>2 DEF Untouched, Connected
<1>6. Keeps(p, q)
  BY <1>4, <1>5 DEF Keeps
<1>7. CASE HostBusy(p)
  <2>1. GoesOn(q, s) /\ s.host.phase \in {"Idle", "Stopping"}
    BY <1>4, <1>5, HostStopsFacts
  <2>2. Connected(s) /\ (Writing(s) => s.force) /\ Ordered(s, HostExpected(s.host))
    BY <1>1, <1>2, <1>5, <2>1 DEF GoesOn, Untouched, Connected, Writing
  <2> HIDE DEF s
  <2>3. Untouched(s, t) /\ t.closing = "Host" /\ t.force = s.force
    BY <2>2 DEF Ordered, Shaped, PageFields, Untouched
  <2> HIDE DEF t
  <2>4. /\ Ordered(t, HostExpected(s.host))
        /\ \A shown : Truthful(s, shown) /\ (t.closing = "Host" /\ ~t.force => ~Writing(t))
                        => Truthful(t, shown)
    <3>1. t.closing = "Host" => t.host.phase \in {"Idle", "Stopping"}
      BY <2>1, <2>3 DEF Untouched
    <3> QED BY <2>2, <2>3, <3>1, ClosingFacts
  <2>5. Keeps(s, t)
    BY <2>2, <2>3, <2>4 DEF Keeps, Untouched, Writing
  <2>6. Keeps(q, s)
    BY <2>1, GoesOnKeeps
  <2>7. Keeps(p, t)
    BY <1>6, <2>5, <2>6, KeepsAgain
  <2> QED BY <1>3, <1>7, <2>7
<1>8. CASE ~HostBusy(p)
  <2>1. q.host.phase = "Idle" /\ HostExpected(q.host) = {}
    BY <1>2, <1>8 DEF Untouched, HostBusy, HostExpected
  <2>2. Keeps(q, Leave(q))
    BY <1>4, <1>5, <2>1, LeaveKeeps
  <2>3. Keeps(p, Leave(q))
    BY <1>6, <2>2, KeepsAgain
  <2> QED BY <1>3, <1>8, <2>3
<1> QED BY <1>7, <1>8

\* So it is when connecting fails.
LEMMA ConnectFailsKeeps ==
  ASSUME NEW p, Ordered(p, HostExpected(p.host)) PROVE Keeps(p, ConnectFails(p))
<1> DEFINE q == [p EXCEPT !.task = "Failing"]
<1>1. Steady(p, q)
  BY EndedSteady DEF Ordered
<1>2. Keeps(p, q)
  BY <1>1, SteadyKeeps
<1>3. q.generation = p.generation /\ q.closing = p.closing
  BY DEF Ordered, Shaped, PageFields
<1> HIDE DEF q
<1>4. CASE MayDisconnect(p, TRUE)
  <2>1. MayDisconnect(q, TRUE)
    BY <1>3, <1>4 DEF MayDisconnect, Connected
  <2>2. Keeps(q, Disconnect(q, TRUE))
    BY <1>2, <2>1, DisconnectKeeps DEF Keeps
  <2>3. Keeps(p, Disconnect(q, TRUE))
    BY <1>2, <2>2, KeepsAgain
  <2> QED BY <1>4, <2>3 DEF ConnectFails, q
<1>5. CASE ~MayDisconnect(p, TRUE)
  BY <1>5, EndedKeeps DEF ConnectFails
<1> QED BY <1>4, <1>5

\* A keyboard is chosen.
LEMMA AttachedKeeps ==
  ASSUME NEW p, Ordered(p, HostExpected(p.host)), p.task = "Choosing"
  PROVE  Keeps(p, Attached(p))
<1> DEFINE g == p.connects + 1
           s == SessionConnect(p)
           r == [s EXCEPT !.executors[s.generation] = Opened(s.generation)]
           v == [r EXCEPT !.task = "Verifying"]
           l == [r EXCEPT !.task = "Listening", !.listener = "Opening"]
<1>1. Attached(p) = IF Receiver THEN Enqueue(v, "Identity", "connect", None) ELSE l
  BY DEF Attached
<1>2. /\ p.connects \in 0 .. MaxConnections /\ p.connects < MaxConnections /\ ~Connected(p)
      /\ p.closing = "No" /\ p.settled = << >> /\ \A c \in Connections : Finished(p.executors[c])
  BY DEF Ordered, Placed, AtRest
<1>3. /\ g \in Connections /\ g # 0 /\ g \notin 0 .. p.connects
  BY <1>2, BrowserAssumption DEF Connections
<1>4. /\ DOMAIN s = DOMAIN p /\ s.executors = p.executors /\ s.settled = << >>
      /\ s.generation = g /\ s.connects = g /\ s.closing = "No" /\ s.host = p.host
      /\ s.hosting = p.hosting /\ s.pending = p.pending /\ s.lighting = Invalidate(p.lighting)
      /\ s.task = p.task
  BY <1>2 DEF SessionConnect, Ordered, Shaped, PageFields
<1>5. PageFields \subseteq DOMAIN s
  BY <1>4 DEF Ordered, Shaped
<1> HIDE DEF s, g
<1>6. /\ DOMAIN r = DOMAIN p /\ r.settled = << >>
      /\ r.executors = [p.executors EXCEPT ![g] = Opened(g)]
      /\ r.generation = g /\ r.connects = g /\ r.closing = "No" /\ r.host = p.host
      /\ r.hosting = p.hosting /\ r.pending = p.pending /\ r.lighting = Invalidate(p.lighting)
  BY <1>4, <1>5 DEF PageFields
<1>7. PageFields \subseteq DOMAIN r
  BY <1>4, <1>5, <1>6
<1> DEFINE New(z) ==
             /\ DOMAIN z = DOMAIN p /\ z.settled = << >>
             /\ z.executors = [p.executors EXCEPT ![g] = Opened(g)]
             /\ z.generation = g /\ z.connects = g /\ z.closing = "No" /\ z.host = p.host
             /\ z.hosting = p.hosting /\ z.pending = p.pending
             /\ z.lighting = Invalidate(p.lighting) /\ z.task # "Choosing"
<1>8. New(v) /\ New(l)
  <2> HIDE DEF r
  <2>1. New(v)
    BY <1>6, <1>7 DEF PageFields
  <2>2. New(l)
    BY <1>6, <1>7 DEF PageFields
  <2> QED BY <2>1, <2>2
<1> HIDE DEF v, l, r
<1>9. /\ Opened(g) = [IdleExecutor EXCEPT !.active = TRUE]
      /\ Sound(Opened(g), g) /\ Opened(g).at = "idle" /\ Opened(g).foreground = << >>
  BY EmptyIsSeq DEF Opened, IdleExecutor, Sound, ExecutorFields, Busy
<1>10. ASSUME NEW z, New(z)
       PROVE  Keeps(p, z) /\ Connected(z) /\ Shaped(z) /\ Placed(z)
  <2>1. /\ z.executors[g] = Opened(g) /\ DOMAIN z.executors = Connections
        /\ \A c \in Connections : c # g => z.executors[c] = p.executors[c]
    BY <1>3, <1>10 DEF Ordered, Shaped
  <2>2. \A c \in Connections : Sound(z.executors[c], g)
    <3> SUFFICES ASSUME NEW c \in Connections PROVE Sound(z.executors[c], g)
      OBVIOUS
    <3>1. CASE c = g
      BY <1>9, <2>1, <3>1
    <3>2. CASE c # g
      <4>1. Finished(p.executors[c]) /\ Sound(p.executors[c], p.connects)
        BY <1>2 DEF Ordered, Shaped
      <4>2. Sound(p.executors[c], g)
        BY <4>1, EmptyIsSeq DEF Finished, Sound, Busy
      <4> QED BY <2>1, <3>2, <4>2
    <3> QED BY <3>1, <3>2
  <2>3. Shaped(z)
    BY <1>10, <2>1, <2>2, EmptyIsSeq DEF Ordered, Shaped
  <2>4. Connected(z) /\ ~AtRest(z)
    BY <1>3, <1>10 DEF Connected, AtRest
  <2>5. Placed(z)
    BY <1>2, <1>3, <1>10, <2>1, <2>4, BrowserAssumption DEF Placed, Connections
  <2>6. p.host.phase = "Idle" /\ ~Hosting(p) /\ HostExpected(z.host) = {}
    BY <1>2, <1>10 DEF Ordered, Hosted, Hosting, HostExpected
  <2>7. Hosted(z) /\ ~Hosting(z)
    BY <1>2, <1>10, <2>4, <2>6 DEF Ordered, Hosted, Hosting
  <2>8. \A K, E : Flight(z, K, E)
    BY <1>9, <1>10, <2>1, EmptyIsSeq DEF Flight, FlightAt, In, Running, One, Busy
  <2>9. Ordered(z, HostExpected(z.host))
    BY <2>3, <2>5, <2>7, <2>8 DEF Ordered
  <2>10. ASSUME NEW shown, Truthful(p, shown) PROVE Truthful(z, shown)
    <3>1. /\ Presented(p, shown) /\ EditorFields \subseteq DOMAIN p.lighting
          /\ p.lighting.draft \in Values \cup {None}
          /\ shown \in Values \cup 1 .. p.connects /\ p.pending \in SessionKinds \cup {None}
      BY <2>10 DEF Truthful, Presented, EditorHeld
    <3>2. /\ DOMAIN z.lighting = DOMAIN p.lighting /\ z.lighting.draft = p.lighting.draft
          /\ ~Ready(z.lighting)
      BY <1>10, <3>1 DEF Invalidate, Ready, EditorFields
    <3>3. Honest(z, shown)
      BY <1>9, <1>10, <2>1, EmptyIsSeq DEF Honest, Content, Busy
    <3>4. shown \in Values \cup 1 .. g /\ shown # g
      BY <1>2, <1>3, <3>1, BrowserAssumption DEF g, Connections
    <3>5. EditorHeld(z, shown)
      BY <1>10, <2>8, <3>1, <3>2, <3>4 DEF EditorHeld
    <3>6. LightingTrue(z, shown)
      BY <3>2 DEF LightingTrue
    <3>7. HostHeld(z, shown)
      BY <1>10, <2>6, <2>7, <3>1, <3>4 DEF Presented, HostHeld
    <3> QED BY <3>3, <3>5, <3>6, <3>7 DEF Truthful, Presented
  <2> QED BY <2>3, <2>4, <2>5, <2>9, <2>10 DEF Keeps
<1>11. CASE ~Receiver
  BY <1>1, <1>8, <1>10, <1>11
<1>12. CASE Receiver
  <2> DEFINE q == Enqueue(v, "Identity", "connect", None)
  <2>1. Keeps(p, v) /\ Connected(v) /\ Shaped(v) /\ Placed(v)
    BY <1>8, <1>10
  <2>2. "Identity" \in Kinds \ (HostKinds \cup SessionKinds)
    BY DEF Kinds, HostKinds, SessionKinds
  <2>3. /\ Same(v, q) /\ Shaped(q) /\ Placed(q)
        /\ \A K, E : /\ "Catalog" \notin K
                     /\ "Identity" \in K => "Identity" \in E /\ Flight(v, K, {})
                     /\ "Identity" \notin K => Flight(v, K, E)
                     => Flight(q, K, E)
        /\ \A shown : Honest(v, shown) => Honest(q, shown)
    <3>1. "connect" = "host" <=> "Identity" \in HostKinds
      BY <2>2
    <3> QED BY <2>1, <2>2, <3>1, EnqueueCarried
  <2> HIDE DEF q
  <2>4. Keeps(v, q)
    <3>1. "Catalog" \notin HostKinds /\ "Catalog" \notin SessionKinds
      BY DEF HostKinds, SessionKinds
    <3>2. \A E : Ordered(v, E) => Ordered(q, E)
      <4>1. Hosted(v) => Hosted(q)
        BY <2>3 DEF Hosted, Same, Connected
      <4> QED BY <2>2, <2>3, <3>1, <4>1 DEF Ordered
    <3>3. ASSUME NEW shown, Truthful(v, shown) PROVE Truthful(q, shown)
      <4>1. Honest(q, shown)
        BY <2>3, <3>3 DEF Truthful
      <4>2. Connected(v) => Flight(v, SessionKinds, {v.pending} \ {None})
        BY <3>3 DEF Truthful, Presented, EditorHeld
      <4>3. Connected(v) => Flight(q, SessionKinds, {v.pending} \ {None})
        BY <2>2, <2>3, <3>1, <4>2
      <4>4. EditorHeld(q, shown)
        BY <2>3, <3>3, <4>3 DEF Truthful, Presented, EditorHeld, Same, Connected, Writing
      <4>5. LightingTrue(q, shown)
        BY <2>3, <3>3 DEF Truthful, Presented, LightingTrue, Same, Connected, Writing
      <4>6. HostHeld(q, shown)
        BY <2>3, <3>3 DEF Truthful, Presented, HostHeld, Same, Connected, Hosting
      <4> QED BY <4>1, <4>4, <4>5, <4>6 DEF Truthful, Presented
    <3>4. q.host = v.host
      BY <2>3 DEF Same
    <3> QED BY <2>1, <3>2, <3>3, <3>4 DEF Keeps
  <2>5. Keeps(p, q)
    BY <2>1, <2>4, KeepsAgain
  <2> QED BY <1>1, <1>12, <2>5 DEF q
<1> QED BY <1>11, <1>12

-----------------------------------------------------------------------------
(* An effect settles, or a job goes to its caller. *)

\* Jobs move; what they say is to be shown.
LEMMA SameFacts ==
  ASSUME NEW p, NEW q, Same(p, q), Shaped(q), Placed(q),
         \A E : Flight(p, HostKinds, E) => Flight(q, HostKinds, E),
         \A E : Flight(p, SessionKinds, E) => Flight(q, SessionKinds, E)
  PROVE  /\ \A E : Ordered(p, E) => Ordered(q, E)
         /\ \A shown : Presented(p, shown) => Presented(q, shown)
<1>1. Hosted(p) => Hosted(q)
  BY DEF Hosted, Same, Connected
<1>2. ASSUME NEW shown, Presented(p, shown) PROVE Presented(q, shown)
  <2>1. EditorHeld(q, shown)
    BY <1>2 DEF Presented, EditorHeld, Same, Connected, Writing
  <2>2. LightingTrue(q, shown)
    BY <1>2 DEF Presented, LightingTrue, Same, Connected, Writing
  <2>3. HostHeld(q, shown)
    BY <1>2 DEF Presented, HostHeld, Same, Connected, Hosting
  <2> QED BY <2>1, <2>2, <2>3 DEF Presented
<1> QED BY <1>1, <1>2 DEF Ordered

\* The pump goes on: what is presented is still true if the answer is.
LEMMA ResumeFacts ==
  ASSUME NEW p, NEW c \in Connections, NEW answer, Ordered(p, HostExpected(p.host)),
         p.executors[c].at \in Busy, answer.ok \in BOOLEAN, answer.attempted \in BOOLEAN
  PROVE  LET q == Resume(p, c, answer)
         IN /\ Ordered(q, HostExpected(q.host))
            /\ \A shown :
                 /\ Truthful(p, shown)
                 /\ Answers(p.executors[c].job, answer, p.host.saved, shown)
                 => Truthful(q, shown)
<1> DEFINE q == Resume(p, c, answer)
<1>1. /\ Same(p, q) /\ Shaped(q) /\ Placed(q)
      /\ \A K, E : "Catalog" \notin K /\ Flight(p, K, E) => Flight(q, K, E)
      /\ \A shown :
           Honest(p, shown) /\ Answers(p.executors[c].job, answer, p.host.saved, shown) =>
             Honest(q, shown)
  BY ResumeCarried DEF Ordered
<1> HIDE DEF q
<1>2. "Catalog" \notin HostKinds /\ "Catalog" \notin SessionKinds
  BY DEF HostKinds, SessionKinds
<1>3. /\ \A E : Ordered(p, E) => Ordered(q, E)
      /\ \A shown : Presented(p, shown) => Presented(q, shown)
  BY <1>1, <1>2, SameFacts
<1>4. q.host = p.host
  BY <1>1 DEF Same
<1> QED BY <1>1, <1>3, <1>4 DEF Truthful, q

\* A step that keeps what holds of the page, while the keyboard shows the same.
LEMMA KeepsInvariants ==
  ASSUME PageInvariant, TruthInvariant, Keeps(page, page'), keyboard'.shown = keyboard.shown,
         DOMAIN keyboard' = DOMAIN keyboard
  PROVE  PageInvariant' /\ TruthInvariant'
BY DEF Keeps, PageInvariant, TruthInvariant

\* What a busy executor's job says of the keyboard.
LEMMA BusyContent ==
  ASSUME NEW p, NEW c \in Connections, Placed(p), p.executors[c].at \in Busy, NEW shown,
         Truthful(p, shown)
  PROVE  c = p.connects /\ Content(p.settled, p.executors[c], p.host.saved, shown)
<1>1. c = p.connects
  BY BusyPlaced DEF Busy, Finished
<1> QED BY <1>1 DEF Truthful, Honest

\* A reply tells what the keyboard shows.
Reads(j, answer, shown) ==
  answer.ok /\ j.step # "backup" => j.step \notin Writes /\ answer.value = shown

\* An answer read while nothing was sent is what its effect can return.
LEMMA AnswerUnsent ==
  ASSUME NEW p, NEW c \in Connections, Placed(p), p.executors[c].at \in {"io", "refused"},
         NEW answer, NEW shown, Truthful(p, shown), answer.attempted = FALSE,
         Reads(p.executors[c].job, answer, shown)
  PROVE  Answers(p.executors[c].job, answer, p.host.saved, shown)
<1>1. Content(p.settled, p.executors[c], p.host.saved, shown)
  BY BusyContent DEF Busy
<1>2. Unsent(p.executors[c].job) => shown = p.host.saved
  BY <1>1 DEF Content
<1> QED BY <1>2 DEF Answers, Unsent, Writes, Reads

\* An answer that changed nothing.
LEMMA UnsentResumes ==
  ASSUME NEW p, NEW shown, Ordered(p, HostExpected(p.host)), Truthful(p, shown),
         NEW c \in Connections, NEW answer, p.executors[c].at \in {"io", "refused"},
         answer.ok \in BOOLEAN, answer.attempted \in BOOLEAN, ~answer.attempted,
         Reads(p.executors[c].job, answer, shown)
  PROVE  LET q == Resume(p, c, answer)
         IN Ordered(q, HostExpected(q.host)) /\ Truthful(q, shown)
<1> DEFINE q == Resume(p, c, answer)
           j == p.executors[c].job
<1>1. Answers(j, answer, p.host.saved, shown)
  BY AnswerUnsent DEF Ordered
<1>2. /\ Ordered(q, HostExpected(q.host))
      /\ \A s : Truthful(p, s) /\ Answers(j, answer, p.host.saved, s) => Truthful(q, s)
  BY ResumeFacts DEF Busy
<1> QED BY <1>1, <1>2

\* Both invariants, said of the page.
LEMMA InvariantsHold ==
  ASSUME PageInvariant, TruthInvariant
  PROVE  Ordered(page, HostExpected(page.host)) /\ Truthful(page, keyboard.shown)
BY DEF PageInvariant, TruthInvariant

\* One lemma for each action: first the answers to effects.
LEMMA EffectRefusedKeeps ==
  ASSUME PageInvariant, TruthInvariant, NEW c \in Connections, EffectRefused(c)
  PROVE  PageInvariant' /\ TruthInvariant'
<1>1. Refusal.ok = FALSE /\ Refusal.attempted = FALSE
  BY DEF Refusal
<1>2. /\ page.executors[c].at \in {"io", "refused"} /\ page' = Resume(page, c, Refusal)
      /\ keyboard' = keyboard
  BY DEF EffectRefused, Reacts
<1>3. /\ Reads(page.executors[c].job, Refusal, keyboard.shown)
      /\ Refusal.ok \in BOOLEAN /\ Refusal.attempted \in BOOLEAN /\ ~Refusal.attempted
  BY <1>1 DEF Reads
<1>4. LET q == Resume(page, c, Refusal)
      IN Ordered(q, HostExpected(q.host)) /\ Truthful(q, keyboard.shown)
  BY <1>1, <1>2, <1>3, InvariantsHold, UnsentResumes
<1> QED BY <1>2, <1>4 DEF PageInvariant, TruthInvariant

\* A backup is committed or refused.
LEMMA BackupSettlesKeeps ==
  ASSUME PageInvariant, TruthInvariant, NEW c \in Connections, BackupSettles(c)
  PROVE  PageInvariant' /\ TruthInvariant'
<1>1. PICK ok \in BOOLEAN : page' = Resume(page, c, Answer(ok)) /\ keyboard' = keyboard
  BY DEF BackupSettles, Happens
<1>2. page.executors[c].at = "io" /\ page.executors[c].job.step = "backup"
  BY DEF BackupSettles, InEffect
<1>3. Answer(ok).ok = ok /\ Answer(ok).attempted = FALSE
  BY DEF Answer
<1>4. /\ Reads(page.executors[c].job, Answer(ok), keyboard.shown)
      /\ Answer(ok).ok \in BOOLEAN /\ Answer(ok).attempted \in BOOLEAN
      /\ ~Answer(ok).attempted /\ page.executors[c].at \in {"io", "refused"}
  BY <1>2, <1>3 DEF Reads
<1>5. LET q == Resume(page, c, Answer(ok))
      IN Ordered(q, HostExpected(q.host)) /\ Truthful(q, keyboard.shown)
  BY <1>3, <1>4, InvariantsHold, UnsentResumes
<1> QED BY <1>1, <1>5 DEF PageInvariant, TruthInvariant

\* A reply tells what the keyboard shows.
LEMMA ExchangeSettlesKeeps ==
  ASSUME PageInvariant, TruthInvariant, NEW c \in Connections, ExchangeSettles(c)
  PROVE  PageInvariant' /\ TruthInvariant'
<1>1. PICK ok \in BOOLEAN : page' = Resume(page, c, Answer(ok)) /\ keyboard' = keyboard
  BY DEF ExchangeSettles, Happens
<1>2. page.executors[c].at = "io" /\ page.executors[c].job.step \notin Writes
  BY DEF ExchangeSettles, InEffect, Writes
<1>3. /\ Answer(ok).ok = ok /\ Answer(ok).attempted = FALSE
      /\ Answer(ok).value = keyboard.shown
  BY DEF Answer
<1>4. /\ Reads(page.executors[c].job, Answer(ok), keyboard.shown)
      /\ Answer(ok).ok \in BOOLEAN /\ Answer(ok).attempted \in BOOLEAN
      /\ ~Answer(ok).attempted /\ page.executors[c].at \in {"io", "refused"}
  BY <1>2, <1>3 DEF Reads
<1>5. LET q == Resume(page, c, Answer(ok))
      IN Ordered(q, HostExpected(q.host)) /\ Truthful(q, keyboard.shown)
  BY <1>3, <1>4, InvariantsHold, UnsentResumes
<1> QED BY <1>1, <1>5 DEF PageInvariant, TruthInvariant

\* A write that was not sent changed nothing.
LEMMA WriteNotSentKeeps ==
  ASSUME PageInvariant, TruthInvariant, NEW c \in Connections, WriteNotSent(c)
  PROVE  PageInvariant' /\ TruthInvariant'
<1>1. Refusal.ok = FALSE /\ Refusal.attempted = FALSE
  BY DEF Refusal
<1>2. /\ page.executors[c].at \in {"io", "refused"} /\ page' = Resume(page, c, Refusal)
      /\ keyboard' = keyboard
  BY DEF WriteNotSent, InEffect, Happens
<1>3. /\ Reads(page.executors[c].job, Refusal, keyboard.shown)
      /\ Refusal.ok \in BOOLEAN /\ Refusal.attempted \in BOOLEAN /\ ~Refusal.attempted
  BY <1>1 DEF Reads
<1>4. LET q == Resume(page, c, Refusal)
      IN Ordered(q, HostExpected(q.host)) /\ Truthful(q, keyboard.shown)
  BY <1>1, <1>2, <1>3, InvariantsHold, UnsentResumes
<1> QED BY <1>2, <1>4 DEF PageInvariant, TruthInvariant

\* A write that was sent is answered.
LEMMA WaitEndsKeeps ==
  ASSUME PageInvariant, TruthInvariant, NEW c \in Connections, WaitEnds(c)
  PROVE  PageInvariant' /\ TruthInvariant'
<1> DEFINE x == page.executors[c]
           q == Resume(page, c, x.answer)
<1>1. x.at = "wait" /\ page' = q /\ keyboard' = keyboard
  BY DEF WaitEnds, Happens
<1>2. Content(page.settled, x, page.host.saved, keyboard.shown)
  BY <1>1, BusyContent DEF PageInvariant, TruthInvariant, Ordered, Busy
<1> HIDE DEF x
<1>3. /\ x.job.step \in Writes /\ x.answer.attempted = TRUE /\ x.answer.ok \in BOOLEAN
      /\ x.answer.ok /\ x.job.kind = "Apply" => keyboard.shown = x.job.value
  BY <1>1, <1>2 DEF Content
<1>4. Answers(x.job, x.answer, page.host.saved, keyboard.shown)
  BY <1>3 DEF Answers, Unsent, Writes
<1>5. /\ Ordered(q, HostExpected(q.host))
      /\ \A shown : Truthful(page, shown) /\ Answers(x.job, x.answer, page.host.saved, shown)
                      => Truthful(q, shown)
  BY <1>1, <1>3, ResumeFacts DEF PageInvariant, Busy, x
<1> QED BY <1>1, <1>4, <1>5 DEF PageInvariant, TruthInvariant

\* A catalog's turn comes again.
LEMMA YieldEndsKeeps ==
  ASSUME PageInvariant, TruthInvariant, NEW c \in Connections, YieldEnds(c)
  PROVE  PageInvariant' /\ TruthInvariant'
<1> DEFINE p == page
           x == p.executors[c]
           y == [x EXCEPT !.at = "idle"]
           r == [p EXCEPT !.executors[c].at = "idle"]
<1>1. x.at = "yield" /\ page' = Pump(r, c) /\ keyboard' = keyboard
  BY DEF YieldEnds, Happens
<1>2. c = p.connects /\ ~AtRest(p)
  BY <1>1, BusyPlaced DEF Finished, PageInvariant, Ordered
<1>3. Same(p, r) /\ r.executors = [p.executors EXCEPT ![c] = y] /\ r.settled = p.settled
  BY DEF PageInvariant, Ordered, Shaped, PageFields, Same
<1> HIDE DEF p, r
<1>4. Shaped(p) /\ Placed(p)
  BY DEF PageInvariant, Ordered, p
<1>5. Sound(x, c) /\ IsSeq(r.settled) /\ \A i \in DOMAIN r.settled : IsJob(r.settled[i], c)
  BY <1>2, <1>3, <1>4 DEF Shaped
<1>6. /\ DOMAIN y = DOMAIN x /\ y.at = "idle" /\ y.foreground = x.foreground
      /\ y.catalogs = x.catalogs
  BY <1>5 DEF Sound, ExecutorFields
<1> HIDE DEF x, y
<1>7. Sound(y, c)
  BY <1>5, <1>6 DEF Sound, Busy
<1>8. \A s, K, E : FlightAt(s, x, K, E) => FlightAt(s, y, K, E)
  BY <1>1, <1>6 DEF FlightAt, Running, Busy
<1>9. \A s, saved, shown : Content(s, x, saved, shown) => Content(s, y, saved, shown)
  BY <1>1, <1>6 DEF Content, Busy
<1>10. /\ Shaped(r) /\ Placed(r)
       /\ \A K, E : /\ Flight(p, K, E) <=> FlightAt(p.settled, x, K, E)
                    /\ Flight(r, K, E) <=> FlightAt(r.settled, y, K, E)
       /\ \A shown :
            /\ Honest(p, shown) <=> Content(p.settled, x, p.host.saved, shown)
            /\ Honest(r, shown) <=> Content(r.settled, y, p.host.saved, shown)
  BY <1>2, <1>3, <1>4, <1>5, <1>7, ExecutorCarried DEF x
<1>11. Carried(p, r)
  BY <1>3, <1>8, <1>9, <1>10 DEF Carried
<1>12. Carried(r, Pump(r, c)) /\ Same(r, Pump(r, c))
  BY <1>10, PumpCarried
<1>13. Steady(p, Pump(r, c))
  BY <1>3, <1>11, <1>12, CarriedAgain, SameAgain, SameSteady
<1>14. Keeps(p, Pump(r, c))
  BY <1>13, SteadyKeeps DEF p, PageInvariant
<1> QED BY <1>1, <1>14, KeepsInvariants DEF p

\* A write changes what the keyboard shows, while its job waits.
LEMMA WriteFacts ==
  ASSUME NEW p, NEW c \in Connections, NEW shown, Ordered(p, HostExpected(p.host)),
         Truthful(p, shown), p.executors[c].at = "io", p.executors[c].job.step \in Writes
  PROVE  LET x == p.executors[c]
         IN /\ c = p.connects /\ Sound(x, c) /\ Content(p.settled, x, p.host.saved, shown)
            /\ x.job.kind \in {"Start", "Stop", "Frame", "Apply"}
            /\ x.job.kind # "Apply" => Hosting(p)
            /\ x.job.kind = "Apply" /\ Connected(p) => Writing(p)
            /\ In(x.foreground, HostKinds) = {}
<1> DEFINE x == p.executors[c]
           E == HostExpected(p.host)
<1>1. c = p.connects /\ Content(p.settled, x, p.host.saved, shown)
  BY BusyContent DEF Ordered, Busy
<1>2. Sound(x, c) /\ IsJob(x.job, c) /\ x.job.step \in Steps(x.job.kind)
  BY <1>1 DEF Ordered, Shaped, Sound, Busy
<1>3. FlightAt(p.settled, x, HostKinds, E)
  BY <1>1 DEF Ordered, Flight
<1>4. Connected(p) => FlightAt(p.settled, x, SessionKinds, {p.pending} \ {None})
  BY <1>1 DEF Truthful, Presented, EditorHeld, Flight
<1>5. x.at \in Busy /\ x.job.step \in Writes
  BY DEF Busy
<1> HIDE DEF x, E
<1>6. x.job.kind \in {"Start", "Stop", "Frame", "Apply"}
  BY <1>2, <1>5 DEF IsJob, Kinds, HostKinds, SessionKinds, Steps, Writes
<1>7. \A kind \in E : Hosting(p) /\ Connected(p)
  BY DEF E, HostExpected, Hosting, Ordered, Hosted
<1>8. CASE x.job.kind # "Apply"
  <2>1. Running(x, HostKinds)
    BY <1>5, <1>6, <1>8 DEF Running, HostKinds
  <2> QED BY <1>1, <1>2, <1>3, <1>6, <1>7, <1>8, <2>1 DEF FlightAt, x
<1>9. CASE x.job.kind = "Apply"
  <2>1. Running(x, SessionKinds)
    BY <1>5, <1>9 DEF Running, SessionKinds
  <2>2. Connected(p) => p.pending = "Apply"
    BY <1>4, <1>9, <2>1 DEF FlightAt
  <2>3. Hosting(p) => p.pending = None
    BY DEF Truthful, Presented, HostHeld
  <2>4. In(x.foreground, HostKinds) = {}
    <3> SUFFICES ASSUME NEW i \in In(x.foreground, HostKinds) PROVE FALSE
      OBVIOUS
    <3>1. x.foreground[i].kind \in E
      BY <1>3 DEF FlightAt
    <3> QED BY <1>7, <2>2, <2>3, <3>1, NoneIsNoKind DEF SessionKinds
  <2> QED BY <1>1, <1>2, <1>6, <1>9, <2>2, <2>4 DEF Writing, x
<1> QED BY <1>8, <1>9

\* What is said of the page is so of what is shown after a write.
LEMMA WritePresents ==
  ASSUME NEW p, NEW shown, Presented(p, shown), Placed(p),
         NEW job, job.connection = p.connects, p.connects \in Connections,
         job.kind \in {"Start", "Stop", "Apply"}, Meant(job, p.host.saved),
         job.kind # "Apply" => Hosting(p),
         job.kind = "Apply" /\ Connected(p) => Writing(p)
  PROVE  Presented(p, Target(job))
<1>1. \/ job.kind \in {"Start", "Stop"} /\ Target(job) = p.connects
      \/ job.kind \in {"Start", "Stop"} /\ Target(job) = p.host.saved
      \/ job.kind = "Apply" /\ Target(job) = job.value
  BY DEF Target, Meant
<1>2. \/ job.kind \in {"Start", "Stop"} /\ Target(job) \in Values \cup 1 .. p.connects
      \/ job.kind = "Apply" /\ Target(job) \in Values
  <2>1. CASE job.kind \in {"Start", "Stop"} /\ Target(job) = p.connects
    <3>1. p.connects \in 1 .. p.connects
      BY BrowserAssumption DEF Connections
    <3> QED BY <2>1, <3>1
  <2>2. CASE job.kind \in {"Start", "Stop"} /\ Target(job) = p.host.saved
    BY <2>2 DEF Presented, HostHeld
  <2>3. CASE job.kind = "Apply" /\ Target(job) = job.value
    BY <2>3 DEF Meant
  <2> QED BY <1>1, <2>1, <2>2, <2>3
<1>3. EditorHeld(p, Target(job))
  BY <1>2 DEF Presented, EditorHeld
<1>4. LightingTrue(p, Target(job))
  BY DEF Presented, HostHeld, LightingTrue
<1>5. HostHeld(p, Target(job))
  <2>1. Connected(p) /\ Target(job) = p.generation => Hosting(p)
    <3>1. Connected(p) => p.generation \in Connections
      BY DEF Placed, Connected
    <3>2. Values \cap Connections = {}
      BY BrowserAssumption DEF Connections
    <3> QED BY <1>2, <3>1, <3>2
  <2> QED BY <2>1 DEF Presented, HostHeld
<1> QED BY <1>3, <1>4, <1>5 DEF Presented

\* Once a report was sent the job waits, and the keyboard may show its target.
LEMMA WaitsKeeps ==
  ASSUME NEW p, NEW c \in Connections, NEW shown, Ordered(p, HostExpected(p.host)),
         Truthful(p, shown), p.executors[c].at = "io", p.executors[c].job.step \in Writes,
         p.settled = << >>,
         NEW answer, answer.attempted = TRUE, answer.ok \in BOOLEAN, NEW next,
         LET job == p.executors[c].job
         IN /\ \/ next = shown
               \/ job.kind # "Frame" /\ next = Target(job)
            /\ answer.ok /\ job.kind # "Frame" => next = Target(job)
  PROVE  LET q == [p EXCEPT !.executors[c].at = "wait", !.executors[c].answer = answer]
         IN Ordered(q, HostExpected(q.host)) /\ Truthful(q, next)
<1> DEFINE q == [p EXCEPT !.executors[c].at = "wait", !.executors[c].answer = answer]
           x == p.executors[c]
           y == [x EXCEPT !.at = "wait", !.answer = answer]
           saved == p.host.saved
<1>1. /\ c = p.connects /\ Sound(x, c) /\ Content(p.settled, x, saved, shown)
      /\ x.job.kind \in {"Start", "Stop", "Frame", "Apply"}
      /\ x.job.kind # "Apply" => Hosting(p)
      /\ x.job.kind = "Apply" /\ Connected(p) => Writing(p)
      /\ In(x.foreground, HostKinds) = {}
  BY WriteFacts
<1>2. Same(p, q) /\ q.executors = [p.executors EXCEPT ![c] = y] /\ q.settled = p.settled
  BY DEF Ordered, Shaped, PageFields, Same
<1>3. /\ \/ next = shown
         \/ x.job.kind # "Frame" /\ next = Target(x.job)
      /\ answer.ok /\ x.job.kind # "Frame" => next = Target(x.job)
      /\ x.at = "io" /\ x.job.step \in Writes
  OBVIOUS
<1> HIDE DEF q, saved
<1>4. /\ DOMAIN y = DOMAIN x /\ y.at = "wait" /\ y.job = x.job /\ y.answer = answer
      /\ y.foreground = x.foreground /\ y.catalogs = x.catalogs
  BY <1>1 DEF Sound, ExecutorFields
<1> HIDE DEF y
<1>5. Sound(y, c)
  <2>1. IsJob(x.job, c) /\ x.job.step \in Steps(x.job.kind)
    BY <1>1, <1>3 DEF Sound, Busy
  <2>2. y.at \in Busy
    BY <1>4 DEF Busy
  <2> HIDE DEF x
  <2> QED BY <1>1, <1>4, <2>1, <2>2 DEF Sound
<1>6. \A s, K, E : FlightAt(s, x, K, E) => FlightAt(s, y, K, E)
  BY <1>3, <1>4 DEF FlightAt, Running, Busy
<1>7. Shaped(p) /\ Placed(p) /\ ~AtRest(p) /\ IsJob(x.job, c)
  <2>1. ~AtRest(p)
    BY BusyPlaced DEF Finished, Ordered
  <2> QED BY <1>1, <1>3, <2>1 DEF Ordered, Sound, Busy
<1> HIDE DEF x
<1>8. /\ Shaped(q) /\ Placed(q)
      /\ \A K, E : /\ Flight(p, K, E) <=> FlightAt(p.settled, x, K, E)
                   /\ Flight(q, K, E) <=> FlightAt(q.settled, y, K, E)
      /\ \A s :
           /\ Honest(p, s) <=> Content(p.settled, x, p.host.saved, s)
           /\ Honest(q, s) <=> Content(q.settled, y, p.host.saved, s)
  <2>1. IsSeq(q.settled) /\ \A i \in DOMAIN q.settled : IsJob(q.settled[i], c)
    BY <1>2, EmptyIsSeq
  <2> QED BY <1>1, <1>2, <1>5, <1>7, <2>1, ExecutorCarried DEF x
<1>9. /\ \A E : Ordered(p, E) => Ordered(q, E)
      /\ \A s : Presented(p, s) => Presented(q, s)
  <2>1. /\ \A E : Flight(p, HostKinds, E) => Flight(q, HostKinds, E)
        /\ \A E : Flight(p, SessionKinds, E) => Flight(q, SessionKinds, E)
    BY <1>2, <1>6, <1>8
  <2> QED BY <1>2, <1>8, <2>1, SameFacts
<1>10. Presented(p, next)
  <2>1. CASE next = shown
    BY <2>1 DEF Truthful
  <2>2. CASE x.job.kind # "Frame" /\ next = Target(x.job)
    <3>1. Meant(x.job, p.host.saved) /\ x.job.connection = p.connects
      BY <1>1, <1>3, <1>7 DEF Content, IsJob, Busy, saved
    <3>2. Presented(p, Target(x.job))
      BY <1>1, <1>7, <2>2, <3>1, WritePresents DEF Truthful
    <3> QED BY <2>2, <3>2
  <2> QED BY <1>3, <2>1, <2>2
<1>11. Content(q.settled, y, saved, next)
  <2>1. \A i \in DOMAIN y.foreground :
          Meant(y.foreground[i], saved) /\ ~Unsent(y.foreground[i])
    BY <1>1, <1>4 DEF Content, Unsent, In, HostKinds
  <2>2. Meant(y.job, saved)
    BY <1>1, <1>3, <1>4 DEF Content, Busy
  <2>3. answer.ok /\ y.job.kind = "Apply" => next = y.job.value
    BY <1>3, <1>4 DEF Target
  <2>4. DOMAIN q.settled = {}
    BY <1>2, EmptyIsSeq
  <2> QED BY <1>3, <1>4, <2>1, <2>2, <2>3, <2>4 DEF Content
<1>12. q.host = p.host
  BY <1>2 DEF Same
<1>13. Ordered(q, HostExpected(q.host)) /\ Truthful(q, next)
  BY <1>8, <1>9, <1>10, <1>11, <1>12 DEF Truthful, saved
<1> QED BY <1>13 DEF q

\* A write settles.
LEMMA WriteSettlesKeeps ==
  ASSUME PageInvariant, TruthInvariant, NEW c \in Connections, WriteSettles(c)
  PROVE  PageInvariant' /\ TruthInvariant'
<1> DEFINE x == page.executors[c]
           answer(ok) == [ok |-> ok, attempted |-> TRUE, value |-> None]
<1>1. PICK taken \in BOOLEAN, ok \in BOOLEAN :
        /\ ok => taken
        /\ keyboard' = [keyboard EXCEPT
                          !.shown = IF taken /\ x.job.kind # "Frame" THEN Target(x.job) ELSE @]
        /\ page' = IF ok /\ x.job.kind = "Frame"
                     THEN Resume(page, c, answer(ok))
                     ELSE [page EXCEPT !.executors[c].at = "wait",
                                       !.executors[c].answer = answer(ok)]
  BY DEF WriteSettles
<1>2. x.at = "io" /\ x.job.step \in Writes /\ page.settled = << >>
  BY DEF WriteSettles, InEffect, Quiet
<1>3. /\ "shown" \in DOMAIN keyboard' /\ Ordered(page, HostExpected(page.host))
      /\ Truthful(page, keyboard.shown)
      /\ keyboard'.shown = IF taken /\ x.job.kind # "Frame" THEN Target(x.job) ELSE keyboard.shown
  BY <1>1 DEF PageInvariant, TruthInvariant
<1>4. /\ answer(ok).ok = ok /\ answer(ok).attempted = TRUE /\ answer(ok).ok \in BOOLEAN
      /\ answer(ok).attempted \in BOOLEAN /\ answer(ok).attempted
  OBVIOUS
<1> HIDE DEF answer
<1>5. CASE ok /\ x.job.kind = "Frame"
  <2> DEFINE q == Resume(page, c, answer(ok))
  <2>1. /\ Ordered(q, HostExpected(q.host))
        /\ \A s : Truthful(page, s) /\ Answers(x.job, answer(ok), page.host.saved, s)
                    => Truthful(q, s)
    BY <1>2, <1>3, <1>4, ResumeFacts DEF Busy
  <2>2. Answers(x.job, answer(ok), page.host.saved, keyboard.shown)
    BY <1>2, <1>4, <1>5 DEF Answers, Writes, Unsent
  <2>3. keyboard'.shown = keyboard.shown /\ page' = q
    BY <1>1, <1>3, <1>5
  <2> HIDE DEF q
  <2> QED BY <1>3, <2>1, <2>2, <2>3 DEF PageInvariant, TruthInvariant
<1>6. CASE ~(ok /\ x.job.kind = "Frame")
  <2> DEFINE next == IF taken /\ x.job.kind # "Frame" THEN Target(x.job) ELSE keyboard.shown
             q == [page EXCEPT !.executors[c].at = "wait", !.executors[c].answer = answer(ok)]
  <2>1. /\ \/ next = keyboard.shown
           \/ x.job.kind # "Frame" /\ next = Target(x.job)
        /\ answer(ok).ok /\ x.job.kind # "Frame" => next = Target(x.job)
    BY <1>1, <1>4
  <2>2. page' = q /\ keyboard'.shown = next
    BY <1>1, <1>3, <1>6
  <2> HIDE DEF next
  <2>3. Ordered(q, HostExpected(q.host)) /\ Truthful(q, next)
    BY <1>2, <1>3, <1>4, <2>1, WaitsKeeps
  <2> HIDE DEF q
  <2> QED BY <1>3, <2>2, <2>3 DEF PageInvariant, TruthInvariant
<1> QED BY <1>5, <1>6

-----------------------------------------------------------------------------
(* A job goes to its caller. *)

\* A job that returns is in flight no longer, and told what is so.
LEMMA DequeuedFacts ==
  ASSUME NEW p, NEW E, Ordered(p, E), p.settled # << >>
  PROVE  LET q == [p EXCEPT !.settled = Tail(@)]
             job == Head(p.settled)
         IN /\ Ordered(q, E) /\ q.host = p.host /\ IsJob(job, p.connects)
            /\ job.kind \in HostKinds => Ordered(q, {}) /\ job.kind \in E
            /\ \A shown : Truthful(p, shown) =>
                 /\ Truthful(q, shown) /\ Told(job, q.host.saved, shown)
                 /\ Connected(q) /\ job.kind \in SessionKinds => Flight(q, SessionKinds, {})
<1> DEFINE q == [p EXCEPT !.settled = Tail(@)]
           s == p.settled
           job == Head(s)
           x == p.executors[p.connects]
<1>1. /\ Same(p, q) /\ q.executors = p.executors /\ q.settled = Tail(s)
  BY DEF Ordered, Shaped, PageFields, Same
<1> HIDE DEF q
<1>2. /\ IsSeq(s) /\ IsSeq(Tail(s)) /\ 1 \in DOMAIN s /\ job = s[1]
      /\ \A i \in DOMAIN Tail(s) : i + 1 \in DOMAIN s /\ Tail(s)[i] = s[i + 1]
  BY TailFacts DEF Ordered, Shaped
<1>3. ~AtRest(p) /\ p.connects \in Connections
  BY BrowserAssumption DEF Ordered, Placed, Connections
<1>4. Shaped(q) /\ IsJob(job, p.connects)
  BY <1>1, <1>2 DEF Ordered, Shaped, Same
<1>5. Placed(q)
  BY <1>1, <1>3 DEF Ordered, Placed, Same, AtRest, Connected
<1>6. ASSUME NEW K, NEW F, Flight(p, K, F)
      PROVE  Flight(q, K, F) /\ (job.kind \in K => Flight(q, K, {}) /\ job.kind \in F)
  <2>1. FlightAt(s, x, K, F)
    BY <1>3, <1>6 DEF Flight
  <2>2. /\ One(In(Tail(s), K))
        /\ In(s, K) = {} => In(Tail(s), K) = {}
        /\ job.kind \in K => In(Tail(s), K) = {} /\ 1 \in In(s, K)
        /\ \A i \in In(Tail(s), K) : i + 1 \in In(s, K) /\ Tail(s)[i] = s[i + 1]
    BY <1>2, <2>1, TailFlight DEF FlightAt
  <2>3. FlightAt(Tail(s), x, K, F)
    BY <2>1, <2>2 DEF FlightAt
  <2>4. ASSUME job.kind \in K PROVE FlightAt(Tail(s), x, K, {}) /\ job.kind \in F
    BY <1>2, <2>1, <2>2, <2>4 DEF FlightAt
  <2> QED BY <1>1, <2>3, <2>4 DEF Flight, Same
<1>7. ASSUME NEW shown, Honest(p, shown)
      PROVE  Honest(q, shown) /\ Told(job, q.host.saved, shown)
  BY <1>1, <1>2, <1>3, <1>7 DEF Honest, Content, Same
<1>8. /\ \A F : Ordered(p, F) => Ordered(q, F)
      /\ \A shown : Presented(p, shown) => Presented(q, shown)
  BY <1>1, <1>4, <1>5, <1>6, SameFacts
<1>9. ASSUME job.kind \in HostKinds PROVE Ordered(q, {}) /\ job.kind \in E
  <2>1. Flight(q, HostKinds, {}) /\ job.kind \in E /\ Ordered(q, E)
    BY <1>6, <1>8, <1>9 DEF Ordered
  <2> QED BY <2>1 DEF Ordered
<1>10. ASSUME NEW shown, Truthful(p, shown)
       PROVE  /\ Truthful(q, shown) /\ Told(job, q.host.saved, shown)
              /\ Connected(q) /\ job.kind \in SessionKinds => Flight(q, SessionKinds, {})
  <2>1. Connected(q) /\ job.kind \in SessionKinds => Flight(q, SessionKinds, {})
    BY <1>1, <1>6, <1>10 DEF Truthful, Presented, EditorHeld, Same, Connected
  <2> QED BY <1>7, <1>8, <1>10, <2>1 DEF Truthful
<1>11. q.host = p.host
  BY <1>1 DEF Same
<1> QED BY <1>4, <1>8, <1>9, <1>10, <1>11 DEF q

\* What the page does with it keeps what holds.
LEMMA ReceivedKeeps ==
  ASSUME NEW p, NEW shown, Ordered(p, HostExpected(p.host)), Truthful(p, shown),
         p.settled # << >>
  PROVE  LET q == Received([p EXCEPT !.settled = Tail(@)], Head(p.settled))
         IN Ordered(q, HostExpected(q.host)) /\ Truthful(q, shown)
<1> DEFINE r == [p EXCEPT !.settled = Tail(@)]
           job == Head(p.settled)
           q == Received(r, job)
           E == HostExpected(p.host)
           Holds(z) == Ordered(z, HostExpected(z.host)) /\ Truthful(z, shown)
<1>1. /\ Ordered(r, E) /\ r.host = p.host /\ IsJob(job, p.connects)
      /\ job.kind \in HostKinds => Ordered(r, {}) /\ job.kind \in E
      /\ Truthful(r, shown) /\ Told(job, r.host.saved, shown)
      /\ Connected(r) /\ job.kind \in SessionKinds => Flight(r, SessionKinds, {})
  BY DequeuedFacts
<1> HIDE DEF r, job
<1>2. Ordered(r, HostExpected(r.host))
  BY <1>1
<1>3. job.kind \in Kinds /\ (job.by = "host" <=> job.kind \in HostKinds)
  BY <1>1 DEF IsJob
<1>4. \A z : Keeps(r, z) => Holds(z)
  BY <1>1 DEF Keeps
<1>5. CASE job.kind = "Identity"
  <2>1. Steady(r, ReadsKeymap(r))
    BY <1>2, ReadsKeymapSteady
  <2>2. Keeps(r, ReadsKeymap(r)) /\ Keeps(r, ConnectFails(r))
    BY <1>2, <2>1, SteadyKeeps, ConnectFailsKeeps
  <2>3. q = ReadsKeymap(r) \/ q = ConnectFails(r)
    BY <1>3, <1>5 DEF Received, HostKinds
  <2> HIDE DEF q
  <2>4. Holds(q)
    BY <1>4, <2>2, <2>3
  <2> QED BY <2>4 DEF q, r, job
<1>6. CASE job.kind \in HostKinds
  <2>1. q = HostAccepts(r, job)
    BY <1>3, <1>6 DEF Received, HostKinds
  <2> HIDE DEF q
  <2>2. Ordered(r, {}) /\ job.kind \in HostExpected(r.host)
    BY <1>1, <1>6
  <2>3. Holds(HostAccepts(r, job))
    BY <1>1, <2>2, HostAcceptsFacts
  <2>4. Holds(q)
    BY <2>1, <2>3
  <2> QED BY <2>4 DEF q, r, job
<1>7. CASE job.kind \in SessionKinds \cup {"Catalog"}
  <2> DEFINE a == AcceptResult(r, job)
  <2>1. /\ Ordered(a, E) /\ a.host = r.host
        /\ Truthful(a, shown)
    BY <1>1, <1>7, AcceptResultFacts
  <2>2. job.kind \notin HostKinds /\ job.kind # "Identity"
    BY <1>7 DEF SessionKinds, HostKinds
  <2>3. q = a \/ q = ReadsLighting(a) \/ q = LoadsCatalog(a)
    BY <1>3, <2>2 DEF Received
  <2> HIDE DEF a, q
  <2>4. Steady(a, ReadsLighting(a)) /\ Steady(a, LoadsCatalog(a)) /\ Steady(a, a)
    BY <2>1, ReadsLightingSteady, LoadsCatalogSteady, SteadyItself
  <2>5. Ordered(a, HostExpected(a.host))
    BY <1>1, <2>1
  <2>6. Keeps(a, q)
    BY <2>3, <2>4, <2>5, SteadyKeeps
  <2>7. Holds(q)
    BY <2>1, <2>6 DEF Keeps
  <2> QED BY <2>7 DEF q, r, job
<1> QED BY <1>3, <1>5, <1>6, <1>7 DEF Kinds

\* A job returns to its caller.
LEMMA JobReturnsKeeps ==
  ASSUME PageInvariant, TruthInvariant, JobReturns
  PROVE  PageInvariant' /\ TruthInvariant'
<1> DEFINE q == Received([page EXCEPT !.settled = Tail(@)], Head(page.settled))
<1>1. page.settled # << >> /\ page' = q /\ keyboard' = keyboard
  BY DEF JobReturns, Reacts
<1>2. Ordered(q, HostExpected(q.host)) /\ Truthful(q, keyboard.shown)
  BY <1>1, ReceivedKeeps DEF PageInvariant, TruthInvariant
<1> HIDE DEF q
<1> QED BY <1>1, <1>2 DEF PageInvariant, TruthInvariant

-----------------------------------------------------------------------------
(* The other steps of the page. *)

\* A disconnection goes on once host lighting is over.
LEMMA HostStoppedKeeps ==
  ASSUME PageInvariant, TruthInvariant, HostStopped
  PROVE  PageInvariant' /\ TruthInvariant'
<1>1. page.host.phase = "Idle" /\ page.closing = "Host"
  BY DEF HostStopped, HostBusy
<1>2. Ordered(page, {}) /\ Connected(page)
  BY <1>1 DEF PageInvariant, HostExpected, Ordered, Placed
<1>3. Keeps(page, Leave(page))
  BY <1>1, <1>2, LeaveKeeps
<1> QED BY <1>3, KeepsInvariants DEF HostStopped, Reacts

\* And once the executor has finished.
LEMMA ExecutorFinishedKeeps ==
  ASSUME PageInvariant, TruthInvariant, ExecutorFinished
  PROVE  PageInvariant' /\ TruthInvariant'
<1> DEFINE q == [page EXCEPT !.closing = "Device"]
<1>1. /\ page.closing = "Executor" /\ page.settled = << >> /\ page' = q /\ keyboard' = keyboard
      /\ Finished(page.executors[page.connects])
  BY DEF ExecutorFinished, Reacts, Retired
<1>2. /\ ~Connected(page) /\ page.task # "Choosing"
      /\ \A c \in Connections : Finished(page.executors[c])
  BY <1>1 DEF PageInvariant, Ordered, Placed
<1>3. /\ DOMAIN q = DOMAIN page /\ q.executors = page.executors /\ q.settled = page.settled
      /\ q.connects = page.connects /\ q.pending = page.pending /\ q.lighting = page.lighting
      /\ q.hosting = page.hosting /\ q.host = page.host /\ q.generation = page.generation
      /\ q.recording = page.recording /\ q.closing = "Device" /\ q.task = page.task
  BY DEF PageInvariant, Ordered, Shaped, PageFields
<1>4. Ordered(page, HostExpected(page.host))
  BY DEF PageInvariant
<1> HIDE DEF q
<1>5. Keeps(page, q)
  BY <1>1, <1>2, <1>3, <1>4, AwayOrdered
<1> QED BY <1>1, <1>5, KeepsInvariants

\* The keyboard is closed.
LEMMA DeviceClosesKeeps ==
  ASSUME PageInvariant, TruthInvariant, DeviceCloses
  PROVE  PageInvariant' /\ TruthInvariant'
<1> DEFINE q == Closed(page)
<1>1. page.closing = "Device" /\ page' = q /\ keyboard' = keyboard
  BY DEF DeviceCloses, Happens
<1>2. /\ ~Connected(page) /\ page.task # "Choosing" /\ page.settled = << >>
      /\ \A c \in Connections : Finished(page.executors[c])
  BY <1>1 DEF PageInvariant, Ordered, Placed, AtRest
<1>3. /\ DOMAIN q = DOMAIN page /\ q.executors = page.executors /\ q.settled = page.settled
      /\ q.connects = page.connects /\ q.pending = page.pending /\ q.lighting = page.lighting
      /\ q.hosting = page.hosting /\ q.host = page.host /\ q.generation = page.generation
      /\ q.recording = page.recording /\ q.closing = "No" /\ q.task \in {"None", page.task}
  BY DEF Closed, PageInvariant, Ordered, Shaped, PageFields
<1>4. Ordered(page, HostExpected(page.host))
  BY DEF PageInvariant
<1> HIDE DEF q
<1>5. Keeps(page, q)
  BY <1>2, <1>3, <1>4, AwayOrdered
<1> QED BY <1>1, <1>5, KeepsInvariants

\* A keyboard is to be chosen.
LEMMA ChooseKeeps ==
  ASSUME PageInvariant, TruthInvariant, Choose
  PROVE  PageInvariant' /\ TruthInvariant'
<1> DEFINE q == [page EXCEPT !.task = "Choosing"]
<1>1. /\ ~Connected(page) /\ page.closing = "No" /\ page.connects < MaxConnections
      /\ page' = q /\ keyboard' = keyboard
  BY DEF Choose, Happens
<1>2. page.settled = << >> /\ \A c \in Connections : Finished(page.executors[c])
  BY <1>1 DEF PageInvariant, Ordered, Placed, AtRest
<1>3. /\ DOMAIN q = DOMAIN page /\ q.executors = page.executors /\ q.settled = page.settled
      /\ q.connects = page.connects /\ q.pending = page.pending /\ q.lighting = page.lighting
      /\ q.hosting = page.hosting /\ q.host = page.host /\ q.generation = page.generation
      /\ q.recording = page.recording /\ q.closing = page.closing
  BY DEF PageInvariant, Ordered, Shaped, PageFields
<1>4. Ordered(page, HostExpected(page.host))
  BY DEF PageInvariant
<1> HIDE DEF q
<1>5. Keeps(page, q)
  BY <1>1, <1>2, <1>3, <1>4, AwayOrdered
<1> QED BY <1>1, <1>5, KeepsInvariants

\* It is chosen, or the choice given up.
LEMMA ChosenKeeps ==
  ASSUME PageInvariant, TruthInvariant, Chosen
  PROVE  PageInvariant' /\ TruthInvariant'
<1>1. Ordered(page, HostExpected(page.host)) /\ page.task = "Choosing"
  BY DEF PageInvariant, Chosen
<1>2. Keeps(page, Ended(page)) /\ Keeps(page, Attached(page))
  BY <1>1, EndedKeeps, AttachedKeeps
<1>3. (page' = Ended(page) \/ page' = Attached(page)) /\ keyboard' = keyboard
  BY DEF Chosen, Happens
<1>4. Keeps(page, page')
  BY <1>2, <1>3
<1> QED BY <1>3, <1>4, KeepsInvariants

\* A disconnection is over with an executor that has finished though it was not
\* closed.
LEMMA CloseRefusedKeeps ==
  ASSUME PageInvariant, TruthInvariant, page.closing = "Listener", CloseRefused, left' = {}
  PROVE  PageInvariant' /\ TruthInvariant'
<1> DEFINE q == Closed(page)
<1>1. page' = q /\ keyboard' = keyboard /\ page.settled = << >>
  BY DEF CloseRefused, Quiet
<1>2. Ordered(page, HostExpected(page.host)) /\ Placed(page)
  BY DEF PageInvariant, Ordered
<1>3. Finished(page.executors[page.connects])
  BY DEF CloseRefused, Retired
<1>4. /\ ~Connected(page) /\ page.task # "Choosing"
      /\ \A c \in Connections : Finished(page.executors[c])
  BY <1>2, <1>3 DEF Placed
<1>5. /\ DOMAIN q = DOMAIN page /\ q.executors = page.executors /\ q.settled = page.settled
      /\ q.connects = page.connects /\ q.pending = page.pending /\ q.lighting = page.lighting
      /\ q.hosting = page.hosting /\ q.host = page.host /\ q.generation = page.generation
      /\ q.recording = page.recording /\ q.closing = "No" /\ q.task \in {"None", page.task}
  BY DEF Closed, PageInvariant, Ordered, Shaped, PageFields
<1> HIDE DEF q
<1>6. Keeps(page, q)
  BY <1>1, <1>2, <1>4, <1>5, AwayOrdered
<1> QED BY <1>1, <1>6, KeepsInvariants

\* It goes on once the listener is closed.
LEMMA ListenerClosedKeeps ==
  ASSUME PageInvariant, TruthInvariant, page.closing = "Listener", Happens(Retire(page))
  PROVE  PageInvariant' /\ TruthInvariant'
<1> DEFINE p == page
           t == [p EXCEPT !.closing = "Executor"]
<1>1. p.closing = "Listener" /\ page' = Retire(p) /\ keyboard' = keyboard
  BY DEF Happens
<1>2. /\ ~Connected(p) /\ p.connects \in Connections /\ p.task # "Choosing"
      /\ Ordered(p, HostExpected(p.host)) /\ PageFields \subseteq DOMAIN p
  BY <1>1, BrowserAssumption
    DEF PageInvariant, Ordered, Placed, AtRest, Connections, Connected, Shaped
<1>3. /\ DOMAIN t = DOMAIN p /\ t.executors = p.executors /\ t.settled = p.settled
      /\ t.connects = p.connects /\ t.pending = p.pending /\ t.lighting = p.lighting
      /\ t.hosting = p.hosting /\ t.host = p.host /\ t.generation = p.generation
      /\ t.recording = p.recording /\ t.closing = "Executor" /\ t.task = p.task
  BY <1>2 DEF PageFields
<1> HIDE DEF p
<1>4. Shaped(t)
  BY <1>2, <1>3 DEF Ordered, Shaped
<1>5. Placed(t)
  BY <1>1, <1>2, <1>3 DEF Ordered, Placed, AtRest, Connected
<1>6. ~Connected(t)
  BY <1>2, <1>3 DEF Connected
<1>7. Carried(t, Retire(p)) /\ Same(t, Retire(p))
  BY <1>2, <1>3, <1>4, <1>5, <1>6, RetireCarried
<1>8. p.host.phase = "Idle" /\ Hosted(t) /\ ~Hosting(p) /\ (Hosting(t) <=> Hosting(p))
  BY <1>2, <1>3 DEF Ordered, Hosted, Connected, Hosting
<1>9. \A K, F : Flight(p, K, F) <=> Flight(t, K, F)
  BY <1>3 DEF Flight
<1> HIDE DEF t
<1>10. Ordered(t, HostExpected(t.host))
  BY <1>2, <1>3, <1>4, <1>5, <1>8, <1>9 DEF Ordered
<1>11. ASSUME NEW shown, Truthful(p, shown) PROVE Truthful(t, shown)
  <2>1. Honest(t, shown)
    BY <1>3, <1>11 DEF Truthful, Honest
  <2>2. Presented(p, shown) /\ t.closing # "Host"
    BY <1>3, <1>11 DEF Truthful
  <2>3. Presented(t, shown)
    BY <1>3, <1>6, <1>8, <2>2, AwayFacts
  <2> QED BY <2>1, <2>3 DEF Truthful
<1>12. Steady(t, Retire(p))
  BY <1>7, SameSteady
<1>13. Keeps(p, t) /\ Keeps(t, Retire(p))
  BY <1>10, <1>11, <1>12, SteadyKeeps DEF Keeps
<1>14. Keeps(p, Retire(p))
  BY <1>13, KeepsAgain
<1> QED BY <1>1, <1>14, KeepsInvariants DEF p

\* A steady step keeps both invariants.
LEMMA SteadyInvariants ==
  ASSUME PageInvariant, TruthInvariant, Steady(page, page'), keyboard' = keyboard
  PROVE  PageInvariant' /\ TruthInvariant'
<1>1. Keeps(page, page')
  BY SteadyKeeps DEF PageInvariant
<1> QED BY <1>1, KeepsInvariants

\* The parts of the first invariant.
LEMMA PageSound ==
  ASSUME PageInvariant PROVE Shaped(page) /\ Placed(page) /\ Ordered(page, HostExpected(page.host))
BY DEF PageInvariant, Ordered

\* A recording starts on a connected page only.
LEMMA StartRecordingSteady ==
  ASSUME NEW p, Shaped(p), Placed(p) PROVE Steady(p, StartRecording(p))
<1> DEFINE q == [p EXCEPT !.recording = TRUE]
<1>1. CASE Connected(p)
  <2>1. Elsewhere(p, q) /\ q.lighting = p.lighting /\ q.hosting = p.hosting
        /\ q.pending = p.pending /\ q.force = p.force /\ q.host = p.host
    BY <1>1 DEF Elsewhere, Shaped, PageFields
  <2> HIDE DEF q
  <2>2. Steady(p, q)
    BY <2>1, ElsewhereSteady
  <2> QED BY <2>2, SteadyItself DEF StartRecording, q
<1>2. CASE ~Connected(p)
  BY <1>2, SteadyItself DEF StartRecording, MaySubmit
<1> QED BY <1>1, <1>2

\* A recording resumes after the catalog.
LEMMA RecordingResumesKeeps ==
  ASSUME PageInvariant, TruthInvariant, RecordingResumes
  PROVE  PageInvariant' /\ TruthInvariant'
<1> DEFINE p == [page EXCEPT !.recorder = 0]
<1>1. Shaped(page) /\ Placed(page)
  BY PageSound
<1>2. Elsewhere(page, p) /\ p.lighting = page.lighting /\ p.hosting = page.hosting
      /\ p.pending = page.pending /\ p.force = page.force /\ p.host = page.host
  BY <1>1 DEF Elsewhere, Shaped, PageFields
<1>3. (page' = StartRecording(p) \/ page' = p) /\ keyboard' = keyboard
  BY DEF RecordingResumes, Reacts
<1> HIDE DEF p
<1>4. Steady(page, p)
  BY <1>1, <1>2, ElsewhereSteady
<1>5. Shaped(p) /\ Placed(p)
  BY <1>1, <1>2, ElsewhereCarried DEF Carried
<1>6. Steady(p, StartRecording(p))
  BY <1>5, StartRecordingSteady
<1>7. Steady(page, page')
  BY <1>3, <1>4, <1>6, SteadyAgain
<1> QED BY <1>3, <1>7, SteadyInvariants

\* The listener is open, and the keymap is read.
LEMMA ListenerOpensKeeps ==
  ASSUME PageInvariant, TruthInvariant, ListenerOpens
  PROVE  PageInvariant' /\ TruthInvariant'
<1>1. PICK found \in {"Open", "None"} :
        /\ page' = ReadsKeymap([page EXCEPT !.listener = IF @ = "Opening" THEN found ELSE @])
        /\ keyboard' = keyboard
  BY DEF ListenerOpens, Happens
<1> DEFINE p == [page EXCEPT !.listener = IF @ = "Opening" THEN found ELSE @]
<1>2. Shaped(page) /\ Placed(page) /\ Ordered(page, HostExpected(page.host))
  BY PageSound
<1>3. Elsewhere(page, p) /\ p.lighting = page.lighting /\ p.hosting = page.hosting
      /\ p.pending = page.pending /\ p.force = page.force /\ p.host = page.host
  BY <1>2 DEF Elsewhere, Shaped, PageFields
<1> HIDE DEF p
<1>4. Steady(page, p)
  BY <1>2, <1>3, ElsewhereSteady
<1>5. Ordered(p, HostExpected(page.host))
  BY <1>2, <1>4 DEF Steady
<1>6. Steady(p, ReadsKeymap(p))
  BY <1>5, ReadsKeymapSteady
<1>7. Steady(page, page')
  BY <1>1, <1>4, <1>6, SteadyAgain DEF p
<1> QED BY <1>1, <1>7, SteadyInvariants

\* Plugging and unplugging: the keyboard shows what it showed.
LEMMA PluggedKeeps ==
  ASSUME PageInvariant, TruthInvariant, Unplug \/ Plug
  PROVE  PageInvariant' /\ TruthInvariant'
<1>1. page' = page
  BY DEF Unplug, Plug
<1>2. \/ keyboard' = [keyboard EXCEPT !.plugged = FALSE, !.leaving = TRUE]
      \/ keyboard' = [keyboard EXCEPT !.plugged = TRUE]
  BY DEF Unplug, Plug
<1>3. "shown" \in DOMAIN keyboard
  BY DEF PageInvariant
<1>4. keyboard'.shown = keyboard.shown /\ DOMAIN keyboard' = DOMAIN keyboard
  BY <1>2, <1>3
<1> QED BY <1>1, <1>4 DEF PageInvariant, TruthInvariant

\* The page hears of it and disconnects by force.
LEMMA UnpluggedKeeps ==
  ASSUME PageInvariant, TruthInvariant, Unplugged
  PROVE  PageInvariant' /\ TruthInvariant'
<1>1. keyboard'.shown = keyboard.shown /\ DOMAIN keyboard' = DOMAIN keyboard
  BY DEF Unplugged
<1>2. CASE MayDisconnect(page, TRUE)
  <2>1. Keeps(page, Disconnect(page, TRUE))
    BY <1>2, PageSound, DisconnectKeeps
  <2>2. page' = Disconnect(page, TRUE)
    BY <1>2 DEF Unplugged
  <2> QED BY <1>1, <2>1, <2>2, KeepsInvariants
<1>3. CASE ~MayDisconnect(page, TRUE)
  <2>1. page' = page
    BY <1>3 DEF Unplugged
  <2> QED BY <1>1, <2>1 DEF PageInvariant, TruthInvariant
<1> QED BY <1>2, <1>3

\* Without a listener the page goes on.
LEMMA ListenerUnpluggedKeeps ==
  ASSUME PageInvariant, TruthInvariant, ListenerUnplugged
  PROVE  PageInvariant' /\ TruthInvariant'
<1> DEFINE p == [page EXCEPT !.listener = "None"]
<1>1. page' = p /\ keyboard' = keyboard
  BY DEF ListenerUnplugged, Happens
<1>2. Elsewhere(page, p) /\ p.lighting = page.lighting /\ p.hosting = page.hosting
      /\ p.pending = page.pending /\ p.force = page.force /\ p.host = page.host
  BY PageSound DEF Elsewhere, Shaped, PageFields
<1> HIDE DEF p
<1>3. Steady(page, p)
  BY <1>2, PageSound, ElsewhereSteady
<1> QED BY <1>1, <1>3, SteadyInvariants

\* A notice ends the scan.
LEMMA NotifiedKeeps ==
  ASSUME PageInvariant, TruthInvariant, Notified
  PROVE  PageInvariant' /\ TruthInvariant'
<1>1. page' = EndScan(page) /\ keyboard' = keyboard
  BY DEF Notified, Happens
<1>2. Steady(page, EndScan(page))
  BY PageSound, EndScanSteady
<1> QED BY <1>1, <1>2, SteadyInvariants

\* The automatic save: not while a disconnection waits for host lighting.
LEMMA TimerFiresKeeps ==
  ASSUME PageInvariant, TruthInvariant, TimerFires
  PROVE  PageInvariant' /\ TruthInvariant'
<1> DEFINE p == [page EXCEPT !.timer = FALSE]
<1>1. Shaped(page) /\ Placed(page) /\ Ordered(page, HostExpected(page.host))
  BY PageSound
<1>2. Elsewhere(page, p) /\ p.lighting = page.lighting /\ p.hosting = page.hosting
      /\ p.pending = page.pending /\ p.force = page.force /\ p.host = page.host
      /\ p.closing = page.closing
  BY <1>1 DEF Elsewhere, Shaped, PageFields
<1>3. /\ page' = IF MayApply(p) THEN Submit(p, "Apply", "user") ELSE p
      /\ keyboard' = keyboard /\ Quiet
  BY DEF TimerFires, Happens
<1> HIDE DEF p
<1>4. Steady(page, p)
  BY <1>1, <1>2, ElsewhereSteady
<1>5. CASE MayApply(p)
  <2>1. MaySubmit(p) /\ CanRequestApply(p.lighting)
    BY <1>5 DEF MayApply
  <2>2. page.closing # "Host"
    <3>1. SUFFICES ASSUME page.closing = "Host" PROVE FALSE
      OBVIOUS
    <3>2. page.host.phase = "Stopping"
      BY <1>1, <1>3, <3>1 DEF Quiet, HostBusy, Ordered, Hosted
    <3>3. page.hosting # "Idle"
      BY <3>2 DEF TruthInvariant, Truthful, Presented, HostHeld, Hosting
    <3> QED BY <1>2, <2>1, <3>3 DEF MaySubmit, SessionIdle
  <2>3. Shaped(p) /\ Placed(p)
    BY <1>1, <1>4, SteadyShaped
  <2>4. Steady(p, Submit(p, "Apply", "user"))
    BY <1>2, <2>1, <2>2, <2>3, SubmitSteady DEF SessionKinds
  <2>5. Steady(page, page')
    BY <1>3, <1>4, <1>5, <2>4, SteadyAgain
  <2> QED BY <1>3, <2>5, SteadyInvariants
<1>6. CASE ~MayApply(p)
  BY <1>3, <1>4, <1>6, SteadyInvariants
<1> QED BY <1>5, <1>6

\* The user's actions.
LEMMA DisconnectPressedKeeps ==
  ASSUME PageInvariant, TruthInvariant, DisconnectPressed
  PROVE  PageInvariant' /\ TruthInvariant'
<1>1. Keeps(page, Disconnect(page, FALSE))
  BY PageSound, DisconnectKeeps DEF DisconnectPressed
<1>2. page' = Disconnect(page, FALSE) /\ keyboard' = keyboard
  BY DEF DisconnectPressed, Happens
<1> QED BY <1>1, <1>2, KeepsInvariants

\* The lighting is read.
LEMMA ReadPressedKeeps ==
  ASSUME PageInvariant, TruthInvariant, ReadPressed
  PROVE  PageInvariant' /\ TruthInvariant'
<1>1. MaySubmit(page) /\ page' = Submit(page, "Lighting", "user") /\ keyboard' = keyboard
  BY DEF ReadPressed, Happens
<1>2. Steady(page, Submit(page, "Lighting", "user"))
  BY <1>1, PageSound, SubmitSteady DEF SessionKinds
<1> QED BY <1>1, <1>2, SteadyInvariants

\* The catalog is asked for.
LEMMA DiscoverPressedKeeps ==
  ASSUME PageInvariant, TruthInvariant, DiscoverPressed
  PROVE  PageInvariant' /\ TruthInvariant'
<1>1. MayDiscover(page) /\ page' = Discover(page) /\ keyboard' = keyboard
  BY DEF DiscoverPressed, Happens
<1>2. Steady(page, Discover(page))
  BY <1>1, PageSound, DiscoverSteady
<1> QED BY <1>1, <1>2, SteadyInvariants

\* The lighting is edited.
LEMMA EditedKeeps ==
  ASSUME PageInvariant, TruthInvariant, Edited
  PROVE  PageInvariant' /\ TruthInvariant'
<1>1. PICK value \in Values :
        /\ page' = [page EXCEPT !.lighting = Stage(@, value), !.timer = TRUE]
        /\ keyboard' = keyboard
  BY DEF Edited, Happens
<1> DEFINE q == [page EXCEPT !.lighting = Stage(@, value), !.timer = TRUE]
<1>2. Shaped(page) /\ Placed(page) /\ Ordered(page, HostExpected(page.host))
  BY PageSound
<1>3. Elsewhere(page, q) /\ q.lighting = Stage(page.lighting, value) /\ q.hosting = page.hosting
      /\ q.pending = page.pending /\ q.force = page.force /\ q.host = page.host
  BY <1>2 DEF Elsewhere, Shaped, PageFields
<1> HIDE DEF q
<1>4. Carried(page, q)
  BY <1>2, <1>3, ElsewhereCarried
<1>5. Ordered(q, HostExpected(q.host))
  BY <1>2, <1>3, <1>4, CarriedSteady DEF Elsewhere
<1>6. /\ Honest(page, keyboard.shown) /\ EditorHeld(page, keyboard.shown)
      /\ LightingTrue(page, keyboard.shown) /\ HostHeld(page, keyboard.shown)
  BY DEF TruthInvariant, Truthful, Presented
<1>7. Honest(q, keyboard.shown)
  BY <1>4, <1>6 DEF Carried
<1>8. /\ DOMAIN q.lighting = DOMAIN page.lighting /\ q.lighting.draft = value
      /\ q.lighting.baseline = page.lighting.baseline
      /\ q.lighting.status = page.lighting.status
  BY <1>3, <1>6 DEF Stage, EditorHeld, EditorFields
<1>9. Connected(q) => Flight(q, SessionKinds, {q.pending} \ {None})
  BY <1>3, <1>6 DEF EditorHeld, Elsewhere, Connected, Flight
<1>10. EditorHeld(q, keyboard.shown)
  BY <1>3, <1>6, <1>8, <1>9 DEF EditorHeld, Elsewhere, Writing
<1>11. LightingTrue(q, keyboard.shown)
  BY <1>3, <1>6, <1>8 DEF LightingTrue, Elsewhere, Connected, Ready, Writing
<1>12. HostHeld(q, keyboard.shown)
  BY <1>3, <1>6, <1>8 DEF HostHeld, Elsewhere, Connected, Hosting
<1>13. page' = q
  BY <1>1 DEF q
<1> QED BY <1>1, <1>5, <1>7, <1>10, <1>11, <1>12, <1>13
      DEF PageInvariant, TruthInvariant, Truthful, Presented

\* A recording waits for the catalog's job to return.
AwaitedJobs(x) ==
  LET Await(job) == [job EXCEPT !.awaited = job.by \in {"user", "connect"}]
  IN EachJob(x, Await)

AwaitedPage(p) == [p EXCEPT !.executors = [c \in Connections |-> AwaitedJobs(@[c])]]

\* Waiting for a job is marking it.
LEMMA AwaitedRelabelled ==
  ASSUME NEW x, NEW g, Sound(x, g) PROVE Relabelled(x, AwaitedJobs(x))
<1> DEFINE Await(job) == [job EXCEPT !.awaited = job.by \in {"user", "connect"}]
           y == AwaitedJobs(x)
<1>1. /\ DOMAIN y = DOMAIN x /\ y.active = x.active /\ y.at = x.at /\ y.answer = x.answer
      /\ y.job = IF x.job = None THEN None ELSE Await(x.job)
      /\ y.foreground = [i \in DOMAIN x.foreground |-> Await(x.foreground[i])]
      /\ y.catalogs = [i \in DOMAIN x.catalogs |-> Await(x.catalogs[i])]
  BY DEF AwaitedJobs, EachJob, Sound, ExecutorFields
<1>2. \A job : Marked(job, Await(job))
  BY DEF Marked
<1> HIDE DEF y, Await
<1>3. y.job = x.job \/ Marked(x.job, y.job)
  BY <1>1, <1>2
<1>4. /\ DOMAIN y.foreground = DOMAIN x.foreground
      /\ y.foreground = [i \in DOMAIN y.foreground |-> y.foreground[i]]
      /\ \A i \in DOMAIN x.foreground : Marked(x.foreground[i], y.foreground[i])
  BY <1>1, <1>2
<1>5. /\ DOMAIN y.catalogs = DOMAIN x.catalogs
      /\ y.catalogs = [i \in DOMAIN y.catalogs |-> y.catalogs[i]]
      /\ \A i \in DOMAIN x.catalogs : Marked(x.catalogs[i], y.catalogs[i])
  BY <1>1, <1>2
<1>6. Relabelled(x, y)
  BY <1>1, <1>3, <1>4, <1>5 DEF Relabelled
<1> QED BY <1>6 DEF y

\* A recording is asked for.
LEMMA RecordPressedKeeps ==
  ASSUME PageInvariant, TruthInvariant, RecordPressed
  PROVE  PageInvariant' /\ TruthInvariant'
<1> DEFINE r == [page EXCEPT !.recorder = page.generation]
           p == EndScan(r)
           q == AwaitedPage(p)
<1>1. Shaped(page) /\ Placed(page) /\ Connected(page)
  BY PageSound DEF RecordPressed
<1>2. Elsewhere(page, r) /\ r.lighting = page.lighting /\ r.hosting = page.hosting
      /\ r.pending = page.pending /\ r.force = page.force /\ r.host = page.host
  BY <1>1 DEF Elsewhere, Shaped, PageFields
<1>3. (page' = StartRecording(page) \/ page' = q) /\ keyboard' = keyboard
  BY DEF RecordPressed, Happens, AwaitedPage, AwaitedJobs
<1> HIDE DEF r
<1>4. Steady(page, r) /\ Shaped(r) /\ Placed(r)
  BY <1>1, <1>2, ElsewhereSteady, ElsewhereCarried DEF Carried
<1>5. Carried(r, p) /\ Same(r, p)
  BY <1>4, EndScanCarried
<1>6. Steady(r, p)
  BY <1>5, SameSteady
<1>7. Shaped(p) /\ Placed(p)
  BY <1>5 DEF Carried
<1> HIDE DEF p
<1>8. /\ Same(p, q) /\ q.settled = p.settled
      /\ q.executors = [c \in Connections |-> AwaitedJobs(p.executors[c])]
  BY <1>7 DEF AwaitedPage, Same, Shaped, PageFields
<1> HIDE DEF q
<1>9. \A c \in Connections : Relabelled(p.executors[c], q.executors[c])
  BY <1>7, <1>8, AwaitedRelabelled DEF Shaped
<1>10. Carried(p, q)
  BY <1>7, <1>8, <1>9, AllRelabelledCarried
<1>11. Steady(page, q)
  BY <1>4, <1>6, <1>8, <1>10, SameSteady, SteadyAgain
<1>12. Steady(page, StartRecording(page))
  BY <1>1, StartRecordingSteady
<1> QED BY <1>3, <1>11, <1>12, SteadyInvariants

\* A recording ends, and the catalog goes on.
LEMMA RecordStoppedKeeps ==
  ASSUME PageInvariant, TruthInvariant, RecordStopped
  PROVE  PageInvariant' /\ TruthInvariant'
<1> DEFINE p == [page EXCEPT !.recording = FALSE]
           c == page.generation
<1>1. Shaped(page) /\ Placed(page) /\ page.recording
  BY PageSound DEF RecordStopped
<1>2. c \in Connections
  BY <1>1, BrowserAssumption DEF Placed, Connected, Connections
<1>3. Elsewhere(page, p) /\ p.lighting = page.lighting /\ p.hosting = page.hosting
      /\ p.pending = page.pending /\ p.force = page.force /\ p.host = page.host
  BY <1>1 DEF Elsewhere, Shaped, PageFields
<1>4. page' = Pump(p, c) /\ keyboard' = keyboard
  BY DEF RecordStopped, Happens
<1> HIDE DEF p, c
<1>5. Steady(page, p) /\ Shaped(p) /\ Placed(p)
  BY <1>1, <1>3, ElsewhereSteady, ElsewhereCarried DEF Carried
<1>6. Carried(p, Pump(p, c)) /\ Same(p, Pump(p, c))
  BY <1>2, <1>5, PumpCarried
<1>7. Steady(page, Pump(p, c))
  BY <1>5, <1>6, SameSteady, SteadyAgain
<1> QED BY <1>4, <1>7, SteadyInvariants

\* Host lighting is stopped by hand.
LEMMA HostStopPressedKeeps ==
  ASSUME PageInvariant, TruthInvariant, HostStopPressed
  PROVE  PageInvariant' /\ TruthInvariant'
<1>1. PICK problem \in BOOLEAN : page' = HostStops(page, problem) /\ keyboard' = keyboard
  BY DEF HostStopPressed, Happens
<1>2. GoesOn(page, HostStops(page, problem))
  BY PageSound, HostStopsFacts
<1>3. Keeps(page, HostStops(page, problem))
  BY <1>2, GoesOnKeeps
<1> QED BY <1>1, <1>3, KeepsInvariants

\* A frame of the screen is there.
LEMMA FrameCapturedKeeps ==
  ASSUME PageInvariant, TruthInvariant, FrameCaptured
  PROVE  PageInvariant' /\ TruthInvariant'
<1> DEFINE p == [page EXCEPT !.host.frame = TRUE]
<1>1. /\ page' = IF p.host.draining THEN p ELSE HostDrains(p)
      /\ keyboard' = keyboard /\ page.host.phase = "Active"
  BY DEF FrameCaptured, Happens
<1>2. Ordered(page, HostExpected(page.host)) /\ Shaped(page) /\ Hosted(page)
  BY PageSound DEF Ordered
<1>3. /\ HostMoves(page, p) /\ p.lighting = page.lighting /\ p.hosting = page.hosting
      /\ p.host = [page.host EXCEPT !.frame = TRUE]
  BY <1>2 DEF HostMoves, Shaped, PageFields, HostFields
<1> HIDE DEF p
<1>4. /\ p.host.phase = page.host.phase /\ p.host.activity = page.host.activity
      /\ p.host.stopping = page.host.stopping /\ p.host.problem = page.host.problem
      /\ p.host.draining = page.host.draining /\ p.host.saved = page.host.saved
  BY <1>2, <1>3 DEF Shaped, HostFields
<1>5. Hosted(p) /\ (Hosting(p) <=> Hosting(page)) /\ Hosting(p)
  BY <1>1, <1>2, <1>3, <1>4 DEF Hosted, Hosting, HostMoves, Connected
<1>6. HostExpected(p.host) = HostExpected(page.host)
  BY <1>4 DEF HostExpected
<1>7. Ordered(p, HostExpected(p.host))
  BY <1>2, <1>3, <1>5, <1>6, HostMovesOrdered
<1>8. \A shown : Truthful(page, shown) => Truthful(p, shown)
  BY <1>2, <1>3, <1>4, <1>5, HostMovesTruthful
<1>9. Keeps(page, p)
  BY <1>7, <1>8 DEF Keeps
<1>10. CASE p.host.draining
  BY <1>1, <1>9, <1>10, KeepsInvariants
<1>11. CASE ~p.host.draining
  <2>1. p.host.activity /\ Ordered(p, {})
    BY <1>1, <1>4, <1>5, <1>7, <1>11 DEF Hosted, HostExpected
  <2>2. GoesOn(p, HostDrains(p))
    BY <1>5, <2>1, HostDrainsFacts
  <2>3. Keeps(page, HostDrains(p))
    BY <1>9, <2>2, GoesOnKeeps, KeepsAgain
  <2> QED BY <1>1, <1>11, <2>3, KeepsInvariants
<1> QED BY <1>10, <1>11

\* Host lighting may start: the lighting is verified, and can be come back to.
LEMMA MayHostFacts ==
  ASSUME NEW p, Placed(p), MayHost(p), NEW shown, Presented(p, shown)
  PROVE  /\ Connected(p) /\ p.hosting = "Idle" /\ ~Hosting(p) /\ p.pending = None
         /\ ~Writing(p) /\ shown \in Values /\ shown # p.generation
         /\ p.lighting.baseline = Snapshot(shown) /\ p.lighting.baseline.context = shown
<1>1. /\ Connected(p) /\ p.hosting = "Idle" /\ p.pending = None /\ Ready(p.lighting)
      /\ ~Dirty(p.lighting) /\ p.lighting.draft # None
  BY DEF MayHost, MaySubmit, SessionIdle
<1>2. ~Writing(p)
  BY <1>1, NoneIsNoKind DEF Writing, SessionKinds
<1>3. p.lighting.baseline = Snapshot(shown) /\ ~Hosting(p)
  BY <1>1, <1>2 DEF Presented, LightingTrue, HostHeld
<1>4. shown \in Values \cup 1 .. p.connects
  BY DEF Presented, EditorHeld
<1>5. /\ Snapshot(shown) # None /\ Snapshot(shown).context = shown
      /\ Snapshot(shown).value # None => shown \in Values
  BY <1>4, SnapshotFacts
<1>6. Snapshot(shown).value = p.lighting.draft
  BY <1>1, <1>3, <1>5 DEF Dirty, Ready
<1>7. shown \in Values
  BY <1>1, <1>5, <1>6
<1>8. p.generation \in 1 .. MaxConnections
  BY <1>1, BrowserAssumption DEF Placed, Connected
<1>9. shown # p.generation
  BY <1>7, <1>8, BrowserAssumption
<1> QED BY <1>1, <1>2, <1>3, <1>5, <1>7, <1>9

\* Host lighting is asked for.
LEMMA HostPressedKeeps ==
  ASSUME PageInvariant, TruthInvariant, HostPressed
  PROVE  PageInvariant' /\ TruthInvariant'
<1> DEFINE q == [page EXCEPT !.host = [IdleHost EXCEPT !.phase = "Preparing"], !.hosts = @ + 1]
           shown == keyboard.shown
<1>1. /\ page' = q /\ keyboard' = keyboard /\ MayHost(page) /\ page.host.phase = "Idle"
      /\ page.closing = "No"
  BY DEF HostPressed, Happens, HostBusy
<1>2. Ordered(page, {}) /\ Placed(page) /\ Shaped(page)
  BY <1>1, PageSound DEF HostExpected
<1>3. Honest(page, shown) /\ Presented(page, shown)
  BY DEF TruthInvariant, Truthful
<1>4. /\ HostMoves(page, q) /\ q.lighting = page.lighting /\ q.hosting = page.hosting
      /\ q.host = [IdleHost EXCEPT !.phase = "Preparing"]
  BY <1>2 DEF HostMoves, Shaped, PageFields, HostFields, IdleHost
<1> HIDE DEF q, shown
<1>5. /\ q.host.phase = "Preparing" /\ q.host.activity = FALSE /\ q.host.draining = FALSE
      /\ q.host.stopping = FALSE /\ q.host.problem = FALSE
  BY <1>4 DEF IdleHost
<1>6. /\ Connected(page) /\ page.hosting = "Idle" /\ shown # page.generation
  BY <1>1, <1>2, <1>3, MayHostFacts
<1>7. Hosted(q) /\ HostExpected(q.host) = {} /\ ~Hosting(q)
  BY <1>1, <1>4, <1>5, <1>6 DEF Hosted, HostExpected, Hosting, HostMoves, Connected
<1>8. Ordered(q, {})
  BY <1>2, <1>4, <1>7, HostMovesOrdered
<1>9. EditorHeld(q, shown)
  BY <1>2, <1>3, <1>4, <1>7, HostMovesOrdered DEF Presented
<1>10. LightingTrue(q, shown)
  BY <1>3, <1>4 DEF Presented, LightingTrue, HostMoves, Connected, Writing
<1>11. HostHeld(q, shown)
  BY <1>4, <1>6, <1>7 DEF HostHeld, HostMoves
<1>12. Honest(q, shown)
  BY <1>2, <1>3, <1>4, NoHostJob DEF HostMoves, Ordered
<1> QED BY <1>1, <1>7, <1>8, <1>9, <1>10, <1>11, <1>12
      DEF PageInvariant, TruthInvariant, Truthful, Presented, shown

\* The start of host lighting is sent.
LEMMA StartEnqueued ==
  ASSUME NEW p, Ordered(p, {}), p.host.phase = "Preparing", MayHost(p),
         NEW shown, Truthful(p, shown)
  PROVE  LET saved == p.lighting.baseline.context
             q == [p EXCEPT !.hosting = "Starting", !.host.phase = "Starting",
                            !.host.saved = saved]
             r == Enqueue(q, "Start", "host", saved)
         IN Ordered(r, HostExpected(r.host)) /\ Truthful(r, shown)
<1> DEFINE saved == p.lighting.baseline.context
           q == [p EXCEPT !.hosting = "Starting", !.host.phase = "Starting",
                          !.host.saved = saved]
           r == Enqueue(q, "Start", "host", saved)
<1>1. Shaped(p) /\ Placed(p) /\ Hosted(p) /\ Presented(p, shown) /\ Honest(p, shown)
  BY DEF Ordered, Truthful
<1>2. /\ Connected(p) /\ p.pending = None /\ ~Writing(p)
      /\ shown \in Values /\ p.lighting.baseline = Snapshot(shown) /\ saved = shown
  BY <1>1, MayHostFacts
<1> HIDE DEF saved
<1>3. /\ HostMoves(p, q) /\ q.lighting = p.lighting /\ q.hosting = "Starting"
      /\ q.host = [p.host EXCEPT !.phase = "Starting", !.saved = saved]
  BY <1>1 DEF HostMoves, Shaped, PageFields, HostFields
<1> HIDE DEF q
<1>4. /\ q.host.phase = "Starting" /\ q.host.saved = saved
      /\ q.host.activity = p.host.activity /\ q.host.draining = p.host.draining
      /\ q.host.stopping = p.host.stopping /\ q.host.problem = p.host.problem
  BY <1>1, <1>3 DEF Shaped, HostFields
<1>5. Hosted(q) /\ ~q.host.activity /\ Connected(q)
  BY <1>1, <1>2, <1>3, <1>4 DEF Hosted, HostMoves, Connected
<1>6. Ordered(q, {}) /\ EditorHeld(q, shown)
  BY <1>1, <1>3, <1>5, HostMovesOrdered DEF Presented
<1>7. Shaped(q) /\ Placed(q) /\ Flight(q, HostKinds, {})
  BY <1>6 DEF Ordered
<1>8. Honest(q, shown)
  BY <1>1, <1>3, NoHostJob DEF Ordered, HostMoves
<1>9. "Start" \in Kinds /\ ("host" = "host" <=> "Start" \in HostKinds)
      /\ "Start" \notin SessionKinds /\ "Catalog" \notin HostKinds \cup SessionKinds
      /\ "Start" # "Apply"
  BY DEF Kinds, HostKinds, SessionKinds
<1>10. /\ Same(q, r) /\ Shaped(r) /\ Placed(r)
       /\ \A K, E : /\ "Catalog" \notin K
                    /\ "Start" \in K => "Start" \in E /\ Flight(q, K, {})
                    /\ "Start" \notin K => Flight(q, K, E)
                    => Flight(r, K, E)
       /\ \A seen :
            /\ Honest(q, seen)
            /\ "Start" = "Apply" => saved \in Values
            /\ "Start" \in {"Start", "Stop"} => saved = q.host.saved
            /\ "Start" = "Start" => seen = q.host.saved
            => Honest(r, seen)
  BY <1>5, <1>7, <1>9, EnqueueCarried
<1> HIDE DEF r
<1>11. HostExpected(r.host) = {"Start"} /\ Hosted(r)
  BY <1>4, <1>5, <1>10 DEF HostExpected, Hosted, Same, Connected
<1>12. Flight(r, HostKinds, {"Start"})
  BY <1>7, <1>9, <1>10
<1>13. Ordered(r, HostExpected(r.host))
  BY <1>10, <1>11, <1>12 DEF Ordered
<1>14. Honest(r, shown)
  BY <1>2, <1>4, <1>8, <1>9, <1>10
<1>15. Connected(r) => Flight(r, SessionKinds, {r.pending} \ {None})
  BY <1>6, <1>9, <1>10 DEF EditorHeld, Same, Connected
<1>16. EditorHeld(r, shown)
  BY <1>6, <1>10, <1>15 DEF EditorHeld, Same, Writing
<1>17. /\ r.hosting = "Starting" /\ r.host.phase = "Starting" /\ r.host.saved = saved
       /\ r.pending = None /\ r.lighting = p.lighting
  BY <1>2, <1>3, <1>4, <1>10 DEF Same, HostMoves
<1>18. LightingTrue(r, shown) /\ HostHeld(r, shown)
  BY <1>2, <1>17 DEF LightingTrue, HostHeld, Hosting
<1> QED BY <1>13, <1>14, <1>16, <1>18 DEF Truthful, Presented, r, q, saved

\* The screen is chosen, or refused.
LEMMA ScreenChosenKeeps ==
  ASSUME PageInvariant, TruthInvariant, ScreenChosen
  PROVE  PageInvariant' /\ TruthInvariant'
<1> DEFINE p == EndScan(page)
           saved == p.lighting.baseline.context
           q == [p EXCEPT !.hosting = "Starting", !.host.phase = "Starting",
                          !.host.saved = saved]
           r == Enqueue(q, "Start", "host", saved)
           shown == keyboard.shown
<1>1. /\ page.host.phase = "Preparing" /\ keyboard' = keyboard
      /\ \/ page' = HostFinishes(page, TRUE)
         \/ MayHost(p) /\ page' = r
         \/ page' = HostFinishes(p, TRUE)
  BY DEF ScreenChosen, Happens
<1>2. Ordered(page, {}) /\ Shaped(page) /\ Placed(page) /\ Truthful(page, shown)
  BY <1>1, PageSound DEF HostExpected, TruthInvariant
<1>3. Steady(page, p) /\ p.host = page.host
  BY <1>2, EndScanSteady DEF Steady
<1> HIDE DEF p, shown
<1>4. Ordered(p, {}) /\ Truthful(p, shown)
  BY <1>2, <1>3 DEF Steady
<1>5. \A s \in {page, p} : LET t == HostFinishes(s, TRUE)
                           IN Ordered(t, HostExpected(t.host)) /\ Truthful(t, shown)
  <2>1. SUFFICES ASSUME NEW s, Ordered(s, {}), Truthful(s, shown), s.host.phase = "Preparing"
                 PROVE  LET t == HostFinishes(s, TRUE)
                        IN Ordered(t, HostExpected(t.host)) /\ Truthful(t, shown)
    BY <1>1, <1>2, <1>3, <1>4
  <2>2. s.hosting = "Idle" /\ Honest(s, shown) /\ EditorHeld(s, shown) /\ LightingTrue(s, shown)
    BY <2>1 DEF Truthful, Presented, HostHeld, Hosting
  <2> QED BY <2>1, <2>2, HostFinishesFacts
<1>6. MayHost(p) => Ordered(r, HostExpected(r.host)) /\ Truthful(r, shown)
  BY <1>1, <1>3, <1>4, StartEnqueued
<1> HIDE DEF r
<1>7. Ordered(page', HostExpected(page'.host)) /\ Truthful(page', shown)
  BY <1>1, <1>5, <1>6
<1> QED BY <1>1, <1>7 DEF PageInvariant, TruthInvariant, shown

-----------------------------------------------------------------------------
(* Every reachable page. *)

\* The page that was loaded.
LEMMA PageStarts ==
  ASSUME Init PROVE PageInvariant /\ TruthInvariant
<1> DEFINE h == page.host
<1>1. /\ PageFields \subseteq DOMAIN page
      /\ page.generation = 0 /\ page.connects = 0 /\ page.pending = None
      /\ page.lighting = NewEditor /\ page.recording = FALSE /\ page.hosting = "Idle"
      /\ page.task = "None" /\ page.closing = "No" /\ page.force = FALSE
      /\ page.host = IdleHost /\ page.settled = << >>
      /\ page.executors = [c \in Connections |-> IdleExecutor]
      /\ "shown" \in DOMAIN keyboard /\ keyboard.shown = CHOOSE v \in Values : TRUE
  BY DEF Init, PageFields
<1>2. Sound(IdleExecutor, 0) /\ Finished(IdleExecutor)
  BY EmptyIsSeq DEF Sound, IdleExecutor, ExecutorFields, Busy, Finished
<1>3. Shaped(page)
  BY <1>1, <1>2, EmptyIsSeq DEF Shaped, IdleHost, HostFields
<1>4. Placed(page)
  BY <1>1, <1>2, BrowserAssumption DEF Placed, AtRest, Connected
<1>5. Hosted(page) /\ HostExpected(page.host) = {} /\ ~Hosting(page)
  BY <1>1 DEF Hosted, HostExpected, Hosting, IdleHost
<1>6. 0 \notin Connections
  BY BrowserAssumption DEF Connections
<1>7. \A K, E : Flight(page, K, E)
  BY <1>1, <1>6 DEF Flight
<1>8. Honest(page, keyboard.shown)
  BY <1>1, <1>6 DEF Honest
<1>9. keyboard.shown \in Values
  BY <1>1, BrowserAssumption
<1>10. Presented(page, keyboard.shown)
  BY <1>1, <1>5, <1>7, <1>9
    DEF Presented, EditorHeld, LightingTrue, HostHeld, Connected, NewEditor, EditorFields
<1> QED BY <1>1, <1>3, <1>4, <1>5, <1>7, <1>8, <1>10
      DEF PageInvariant, Ordered, TruthInvariant, Truthful

-----------------------------------------------------------------------------
(* Only a disconnection ends a connection. *)

IsPage(p) == PageFields \subseteq DOMAIN p
Stays(p, q) == IsPage(q) /\ q.generation = p.generation /\ q.force = p.force

\* Two steps that keep the connection keep it together.
LEMMA StaysAgain ==
  ASSUME NEW p, NEW q, NEW r, Stays(p, q), Stays(q, r) PROVE Stays(p, r)
BY DEF Stays

\* The pump keeps the connection.
LEMMA PumpStays ==
  ASSUME NEW p, IsPage(p), NEW c PROVE Stays(p, Pump(p, c))
BY DEF Stays, IsPage, PageFields, Pump

\* So does any change of an executor.
LEMMA ExecutorStays ==
  ASSUME NEW p, IsPage(p), NEW c, NEW y
  PROVE  Stays(p, [p EXCEPT !.executors[c] = y])
BY DEF Stays, IsPage, PageFields

\* So does an answer.
LEMMA ResumeStays ==
  ASSUME NEW p, IsPage(p), NEW c, NEW answer PROVE Stays(p, Resume(p, c, answer))
<1> DEFINE job == Advance(p.executors[c].job, answer)
           x == p.executors[c]
           t == [p EXCEPT !.settled = Append(@, job),
                          !.executors[c] = [x EXCEPT !.at = "idle", !.job = None,
                                                     !.answer = None]]
<1>1. Stays(p, t)
  BY DEF Stays, IsPage, PageFields
<1>2. \/ Resume(p, c, answer) = Pump(t, c)
      \/ Resume(p, c, answer) = [p EXCEPT !.executors[c] =
            [x EXCEPT !.at = "yield", !.job = None, !.answer = None,
                      !.catalogs = Append(@, job)]]
      \/ Resume(p, c, answer) = [p EXCEPT !.executors[c] = Begin(x, job)]
  BY DEF Resume
<1> HIDE DEF t
<1>3. Stays(p, Pump(t, c))
  BY <1>1, PumpStays, StaysAgain DEF Stays
<1> QED BY <1>2, <1>3, ExecutorStays

\* So does a job that is queued.
LEMMA EnqueueStays ==
  ASSUME NEW p, IsPage(p), NEW kind, NEW by, NEW value
  PROVE  Stays(p, Enqueue(p, kind, by, value))
<1> DEFINE job == Job(p, kind, by, value)
           a == [p EXCEPT !.executors[p.generation].catalogs = Append(@, job)]
           b == [p EXCEPT !.executors[p.generation].foreground = Append(@, job)]
<1>1. Stays(p, a) /\ Stays(p, b)
  BY DEF Stays, IsPage, PageFields
<1>2. \E q \in {a, b} : Enqueue(p, kind, by, value) = Pump(q, p.generation)
  BY DEF Enqueue
<1> HIDE DEF a, b
<1> QED BY <1>1, <1>2, PumpStays, StaysAgain DEF Stays

\* So does the cancellation of the catalog.
LEMMA CancelJobsStays ==
  ASSUME NEW p, IsPage(p) PROVE Stays(p, CancelJobs(p))
<1> DEFINE q == [p EXCEPT !.executors[p.generation] = CancelledJobs(@)]
<1>1. Stays(p, q)
  BY DEF Stays, IsPage, PageFields
<1>2. CancelJobs(p) = IF Connected(p) THEN Pump(q, p.generation) ELSE p
  BY DEF CancelJobs, CancelledJobs
<1> HIDE DEF q
<1>3. Stays(p, Pump(q, p.generation))
  BY <1>1, PumpStays, StaysAgain DEF Stays
<1> QED BY <1>2, <1>3 DEF Stays

\* So does the end of a scan.
LEMMA EndScanStays ==
  ASSUME NEW p, IsPage(p) PROVE Stays(p, EndScan(p))
<1> DEFINE q == [p EXCEPT !.scan = 0]
<1>1. Stays(p, q)
  BY DEF Stays, IsPage, PageFields
<1>2. EndScan(p) = IF p.scan = 0 THEN p ELSE CancelJobs(q)
  BY DEF EndScan
<1> HIDE DEF q
<1>3. Stays(p, CancelJobs(q))
  BY <1>1, CancelJobsStays, StaysAgain DEF Stays
<1> QED BY <1>2, <1>3 DEF Stays

\* So does an operation that is asked for.
LEMMA SubmitStays ==
  ASSUME NEW p, IsPage(p), NEW kind, NEW by PROVE Stays(p, Submit(p, kind, by))
<1> DEFINE a == [p EXCEPT !.pending = kind, !.lighting = RequestApply(@)]
           b == [p EXCEPT !.pending = kind]
<1>1. Stays(p, a) /\ Stays(p, b)
  BY DEF Stays, IsPage, PageFields
<1>2. \/ Submit(p, kind, by) = Enqueue(a, kind, by, p.lighting.draft)
      \/ Submit(p, kind, by) = Enqueue(b, kind, by, None)
  BY DEF Submit
<1> HIDE DEF a, b
<1> QED BY <1>1, <1>2, EnqueueStays, StaysAgain DEF Stays

\* So does a catalog that is asked for.
LEMMA DiscoverStays ==
  ASSUME NEW p, IsPage(p) PROVE Stays(p, Discover(p))
<1> DEFINE q == [p EXCEPT !.scan = p.scans + 1, !.scans = @ + 1]
<1>1. Stays(p, q)
  BY DEF Stays, IsPage, PageFields
<1>2. Discover(p) = Enqueue(q, "Catalog", "user", None)
  BY DEF Discover
<1> HIDE DEF q
<1> QED BY <1>1, <1>2, EnqueueStays, StaysAgain DEF Stays

\* So does any result the session accepts.
LEMMA AcceptResultStays ==
  ASSUME NEW p, IsPage(p), NEW job PROVE Stays(p, AcceptResult(p, job))
<1>1. Stays(p, p) /\ Stays(p, EndScan(p))
  BY EndScanStays DEF Stays
<1>2. \A keymap, lighting :
        /\ Stays(p, [p EXCEPT !.pending = None, !.keymap = keymap])
        /\ Stays(p, [p EXCEPT !.pending = None, !.lighting = lighting])
  BY DEF Stays, IsPage, PageFields
<1>3. \/ AcceptResult(p, job) \in {p, EndScan(p)}
      \/ \E keymap : AcceptResult(p, job) = [p EXCEPT !.pending = None, !.keymap = keymap]
      \/ \E lighting : AcceptResult(p, job) = [p EXCEPT !.pending = None, !.lighting = lighting]
  <2>1. CASE p.generation # job.connection \/ job.kind = "Catalog" \/ job.kind # p.pending
    BY <2>1 DEF AcceptResult
  <2>2. CASE ~(p.generation # job.connection \/ job.kind = "Catalog" \/ job.kind # p.pending)
    <3>1. CASE job.kind = "Keymap"
      BY <2>2, <3>1 DEF AcceptResult
    <3>2. CASE job.kind = "Lighting"
      BY <2>2, <3>2 DEF AcceptResult
    <3>3. CASE job.kind \notin {"Keymap", "Lighting"}
      BY <2>2, <3>3 DEF AcceptResult
    <3> QED BY <3>1, <3>2, <3>3
  <2> QED BY <2>1, <2>2
<1> QED BY <1>1, <1>2, <1>3

\* So does the controller that is idle again.
LEMMA HostFinishesStays ==
  ASSUME NEW p, IsPage(p), NEW problem PROVE Stays(p, HostFinishes(p, problem))
BY DEF Stays, IsPage, PageFields, HostFinishes

\* So does the session that hears of a stop.
LEMMA SessionStopsHostStays ==
  ASSUME NEW p, IsPage(p) PROVE Stays(p, SessionStopsHost(p))
BY DEF Stays, IsPage, PageFields, SessionStopsHost

\* So does the controller's pump.
LEMMA HostDrainsStays ==
  ASSUME NEW p, IsPage(p) PROVE Stays(p, HostDrains(p))
<1> DEFINE z == SessionStopsHost(p)
           a == [z EXCEPT !.host.draining = TRUE]
           b == [p EXCEPT !.host.draining = TRUE, !.host.frame = FALSE]
           d == [p EXCEPT !.host.draining = FALSE]
<1>1. Stays(p, z)
  BY SessionStopsHostStays
<1> HIDE DEF z
<1>2. Stays(z, a) /\ Stays(p, b) /\ Stays(p, d)
  BY <1>1 DEF Stays, IsPage, PageFields
<1>3. \/ HostDrains(p) = Enqueue(a, "Stop", "host", p.host.saved)
      \/ HostDrains(p) = Enqueue(b, "Frame", "host", None)
      \/ HostDrains(p) = d
  BY DEF HostDrains, z
<1> HIDE DEF a, b, d
<1>4. Stays(p, a)
  BY <1>1, <1>2, StaysAgain
<1> QED BY <1>2, <1>3, <1>4, EnqueueStays, StaysAgain DEF Stays

\* So does a stop of host lighting.
LEMMA HostStopsStays ==
  ASSUME NEW p, IsPage(p), NEW problem PROVE Stays(p, HostStops(p, problem))
<1> DEFINE z == [p EXCEPT !.host.stopping = TRUE, !.host.frame = FALSE,
                          !.host.phase = "Stopping", !.host.problem = @ \/ problem]
           r == SessionStopsHost(z)
<1>1. Stays(p, z)
  BY DEF Stays, IsPage, PageFields
<1>2. \/ HostStops(p, problem) = HostFinishes(p, problem \/ p.host.problem)
      \/ HostStops(p, problem) = p
      \/ HostStops(p, problem) = r
      \/ HostStops(p, problem) = HostDrains(r)
  BY DEF HostStops
<1> HIDE DEF z
<1>3. Stays(p, r)
  BY <1>1, SessionStopsHostStays, StaysAgain DEF Stays
<1> HIDE DEF r
<1>4. Stays(p, HostDrains(r))
  BY <1>3, HostDrainsStays, StaysAgain DEF Stays
<1> QED BY <1>2, <1>3, <1>4, HostFinishesStays DEF Stays

\* So does the controller whatever its job returned.
LEMMA HostAcceptsStays ==
  ASSUME NEW p, IsPage(p), NEW job PROVE Stays(p, HostAccepts(p, job))
<1> DEFINE a == [p EXCEPT !.host.activity = TRUE,
                          !.hosting = IF @ = "Starting" THEN "Active" ELSE @]
           b == [p EXCEPT !.host.problem = TRUE, !.host.stopping = TRUE]
           d == HostFinished(p, job.value)
<1>1. Stays(p, a) /\ Stays(p, b)
  BY DEF Stays, IsPage, PageFields
<1>2. Stays(p, d)
  BY DEF Stays, IsPage, PageFields, HostFinished
<1>3. \/ HostAccepts(p, job) = HostStarted(a)
      \/ HostAccepts(p, job) = HostDrains(p)
      \/ HostAccepts(p, job) = HostDrains(b)
      \/ HostAccepts(p, job) = HostFinishes(d, p.host.problem \/ job.value # "Restored")
  <2> HIDE DEF a, b, d
  <2>1. CASE job.kind = "Start" /\ job.value = "Started"
    BY <2>1 DEF HostAccepts, a
  <2>2. CASE job.kind = "Frame" /\ job.value.kind = "ok"
    BY <2>2 DEF HostAccepts
  <2>3. CASE job.kind = "Frame" /\ job.value.kind # "ok"
    BY <2>3 DEF HostAccepts, b
  <2>4. CASE ~(job.kind = "Start" /\ job.value = "Started") /\ job.kind # "Frame"
    BY <2>4 DEF HostAccepts, d
  <2> QED BY <2>1, <2>2, <2>3, <2>4
<1> HIDE DEF a, b, d
<1>4. Stays(a, HostStarted(a))
  <2>1. Stays(a, [a EXCEPT !.host.phase = "Active"])
    BY <1>1 DEF Stays, IsPage, PageFields
  <2> QED BY <1>1, <2>1, HostDrainsStays DEF Stays, HostStarted
<1>5. Stays(p, HostDrains(p)) /\ Stays(b, HostDrains(b))
  BY <1>1, HostDrainsStays DEF Stays
<1>6. \A problem : Stays(d, HostFinishes(d, problem))
  BY <1>2, HostFinishesStays DEF Stays
<1> QED BY <1>1, <1>2, <1>3, <1>4, <1>5, <1>6, StaysAgain

\* So does a task's beginning or end.
LEMMA TaskStays ==
  ASSUME NEW p, IsPage(p), NEW task PROVE Stays(p, [p EXCEPT !.task = task])
BY DEF Stays, IsPage, PageFields

\* So does connecting at its last step.
LEMMA LoadsCatalogStays ==
  ASSUME NEW p, IsPage(p) PROVE Stays(p, LoadsCatalog(p))
<1>1. Stays(p, Ended(p))
  BY TaskStays DEF Ended
<1>2. Stays(p, Discover(Ended(p)))
  BY <1>1, DiscoverStays, StaysAgain DEF Stays
<1> QED BY <1>1, <1>2 DEF LoadsCatalog

\* So does connecting when it reads the lighting.
LEMMA ReadsLightingStays ==
  ASSUME NEW p, IsPage(p) PROVE Stays(p, ReadsLighting(p))
<1> DEFINE q == [p EXCEPT !.task = "Lighting"]
<1>1. Stays(p, Ended(p)) /\ Stays(p, q)
  BY TaskStays DEF Ended
<1>2. ReadsLighting(p) \in {Ended(p), LoadsCatalog(p), Submit(q, "Lighting", "connect")}
  BY DEF ReadsLighting
<1> HIDE DEF q
<1>3. Stays(p, Submit(q, "Lighting", "connect"))
  BY <1>1, SubmitStays, StaysAgain DEF Stays
<1> QED BY <1>1, <1>2, <1>3, LoadsCatalogStays

\* So does connecting when it reads the keymap.
LEMMA ReadsKeymapStays ==
  ASSUME NEW p, IsPage(p) PROVE Stays(p, ReadsKeymap(p))
<1> DEFINE q == [p EXCEPT !.task = "Keymap"]
<1>1. Stays(p, Ended(p)) /\ Stays(p, q)
  BY TaskStays DEF Ended
<1>2. ReadsKeymap(p) \in {Ended(p), ReadsLighting(p), Submit(q, "Keymap", "connect")}
  BY DEF ReadsKeymap
<1> HIDE DEF q
<1>3. Stays(p, Submit(q, "Keymap", "connect"))
  BY <1>1, SubmitStays, StaysAgain DEF Stays
<1> QED BY <1>1, <1>2, <1>3, ReadsLightingStays

\* An executor retires after the connection's end.
LEMMA RetireStays ==
  ASSUME NEW p, IsPage(p) PROVE Stays(p, Retire(p))
<1> DEFINE q == [p EXCEPT !.closing = "Executor", !.executors[Retired(p)].active = FALSE]
<1>1. Stays(p, q)
  BY DEF Stays, IsPage, PageFields
<1>2. Retire(p) = Pump(q, Retired(p))
  BY DEF Retire
<1> HIDE DEF q
<1> QED BY <1>1, <1>2, PumpStays, StaysAgain DEF Stays

\* A disconnection remembers whether it was forced.
LEMMA TearDownForce ==
  ASSUME NEW p, IsPage(p) PROVE TearDown(p).force = p.force
<1> DEFINE h == [p EXCEPT !.host = IdleHost, !.listener = "None"]
           a == [h EXCEPT !.recording = FALSE]
           b == EndScan(a)
           q == SessionDisconnect(h)
<1>1. Stays(p, h)
  BY DEF Stays, IsPage, PageFields
<1> HIDE DEF h
<1>2. Stays(h, a)
  BY <1>1 DEF Stays, IsPage, PageFields
<1> HIDE DEF a
<1>3. Stays(h, b)
  BY <1>2, EndScanStays, StaysAgain DEF Stays
<1> HIDE DEF b
<1>4. IsPage(q) /\ q.force = b.force
  BY <1>3 DEF SessionDisconnect, Stays, IsPage, PageFields, a, b
<1> HIDE DEF q
<1>5. TearDown(p) \in {Retire(q), [q EXCEPT !.closing = "Listener"]}
  BY DEF TearDown, h, q
<1>6. [q EXCEPT !.closing = "Listener"].force = q.force
  BY <1>4 DEF IsPage, PageFields
<1> QED BY <1>1, <1>3, <1>4, <1>5, <1>6, RetireStays DEF Stays

\* The connection ends by force, or with host lighting restored or shown.
LEMMA LeaveEnds ==
  ASSUME NEW p, IsPage(p)
  PROVE  LET q == Leave(p)
         IN /\ q.force = p.force
            /\ q.generation = p.generation \/ p.force \/ HostRestored(p)
<1>1. Stays(p, [p EXCEPT !.closing = "No"])
  BY DEF Stays, IsPage, PageFields
<1> QED BY <1>1, TearDownForce DEF Leave, Stays

\* A disconnection does the same at once or waits.
LEMMA DisconnectEnds ==
  ASSUME NEW p, IsPage(p), NEW force
  PROVE  LET q == Disconnect(p, force)
         IN /\ q.force = force
            /\ q.generation = p.generation \/ force \/ HostRestored(p)
<1> DEFINE a == [p EXCEPT !.force = force, !.timer = FALSE]
           b == HostStops(a, FALSE)
<1>1. /\ IsPage(a) /\ a.generation = p.generation /\ a.force = force
      /\ a.host = p.host /\ a.hosting = p.hosting /\ a.lighting = p.lighting
  BY DEF IsPage, PageFields
<1>2. Disconnect(p, force) \in {[b EXCEPT !.closing = "Host"], Leave(a)}
  BY DEF Disconnect
<1> HIDE DEF a
<1>3. Stays(a, b)
  BY <1>1, HostStopsStays
<1> HIDE DEF b
<1>4. Stays(b, [b EXCEPT !.closing = "Host"])
  BY <1>3 DEF Stays, IsPage, PageFields
<1>5. HostRestored(a) <=> HostRestored(p)
  BY <1>1 DEF HostRestored
<1>6. Leave(a).force = a.force
      /\ (Leave(a).generation = a.generation \/ a.force \/ HostRestored(a))
  BY <1>1, LeaveEnds
<1> QED BY <1>1, <1>2, <1>3, <1>4, <1>5, <1>6 DEF Stays

\* The connection ends where the page says so; otherwise it goes on, or its
\* end is forced, or there was none.
Remains == page'.generation = page.generation \/ page'.force = TRUE \/ ~Connected(page)

\* No answer to an effect ends a connection.
LEMMA EffectRemains ==
  ASSUME IsPage(page), NEW c \in Connections, EffectRefused(c) \/ EffectSettles(c)
  PROVE  Remains
<1>1. \A answer : Resume(page, c, answer).generation = page.generation
  BY ResumeStays DEF Stays
<1>2. CASE EffectRefused(c)
  BY <1>1, <1>2 DEF EffectRefused, Reacts, Remains
<1>3. CASE BackupSettles(c) \/ ExchangeSettles(c) \/ WriteNotSent(c) \/ WaitEnds(c)
  BY <1>1, <1>3
    DEF BackupSettles, ExchangeSettles, WriteNotSent, WaitEnds, Happens, Remains
<1>4. CASE WriteSettles(c)
  <2>1. PICK taken, ok \in BOOLEAN :
          LET x == page.executors[c]
              answer == [ok |-> ok, attempted |-> TRUE, value |-> None]
          IN page' = IF ok /\ x.job.kind = "Frame"
                       THEN Resume(page, c, answer)
                       ELSE [page EXCEPT !.executors[c].at = "wait",
                                         !.executors[c].answer = answer]
    BY <1>4 DEF WriteSettles
  <2>2. \A answer : [page EXCEPT !.executors[c].at = "wait",
                                 !.executors[c].answer = answer].generation = page.generation
    BY DEF IsPage, PageFields
  <2> QED BY <1>1, <2>1, <2>2 DEF Remains
<1>5. CASE YieldEnds(c)
  <2> DEFINE p == [page EXCEPT !.executors[c].at = "idle"]
  <2>1. Stays(page, p)
    BY DEF Stays, IsPage, PageFields
  <2>2. page' = Pump(p, c)
    BY <1>5 DEF YieldEnds, Happens
  <2> HIDE DEF p
  <2> QED BY <2>1, <2>2, PumpStays DEF Stays, Remains
<1> QED BY <1>2, <1>3, <1>4, <1>5 DEF EffectSettles

\* No job that returns ends a connection, unless connecting failed.
LEMMA ReturnRemains ==
  ASSUME IsPage(page), JobReturns PROVE Remains
<1> DEFINE p == [page EXCEPT !.settled = Tail(@)]
           job == Head(page.settled)
           a == AcceptResult(p, job)
           f == [p EXCEPT !.task = "Failing"]
<1>1. Stays(page, p)
  BY DEF Stays, IsPage, PageFields
<1>2. page' = Received(p, job)
  BY DEF JobReturns, Reacts
<1> HIDE DEF p, job
<1>3. Stays(p, ReadsKeymap(p)) /\ Stays(p, HostAccepts(p, job)) /\ Stays(p, a)
  BY <1>1, ReadsKeymapStays, HostAcceptsStays, AcceptResultStays DEF Stays
<1>4. Stays(a, ReadsLighting(a)) /\ Stays(a, LoadsCatalog(a))
  BY <1>3, ReadsLightingStays, LoadsCatalogStays DEF Stays
<1>5. Stays(p, f) /\ Stays(p, Ended(p))
  BY <1>1, TaskStays DEF Ended, Stays
<1> HIDE DEF f
<1>6. Disconnect(f, TRUE).force = TRUE
  BY <1>5, DisconnectEnds DEF Stays
<1>7. ConnectFails(p) \in {Disconnect(f, TRUE), Ended(p)}
  BY DEF ConnectFails, f
<1>8. Received(p, job) \in {ReadsKeymap(p), ConnectFails(p), HostAccepts(p, job), a,
                            ReadsLighting(a), LoadsCatalog(a)}
  <2>1. CASE job.kind = "Identity"
    BY <2>1 DEF Received
  <2>2. CASE job.kind # "Identity" /\ job.by = "host"
    BY <2>2 DEF Received
  <2>3. CASE job.kind # "Identity" /\ job.by # "host"
    BY <2>3 DEF Received
  <2> QED BY <2>1, <2>2, <2>3
<1> QED BY <1>1, <1>2, <1>3, <1>4, <1>5, <1>6, <1>7, <1>8 DEF Stays, Remains

\* Only two actions end a connection without force.
LEMMA OtherwiseRemains ==
  ASSUME IsPage(page), Placed(page), Next, ~HostStopped, ~DisconnectPressed
  PROVE  Remains
<1>1. ASSUME NEW q, Stays(page, q), page' = q PROVE Remains
  BY <1>1 DEF Stays, Remains
<1>2. CASE Reactions
  <2>1. CASE ExecutorFinished
    BY <2>1 DEF ExecutorFinished, Reacts, Remains, IsPage, PageFields
  <2>2. CASE RecordingResumes
    <3> DEFINE p == [page EXCEPT !.recorder = 0]
    <3>1. IsPage(p) /\ p.generation = page.generation
      BY DEF IsPage, PageFields
    <3>2. page' \in {StartRecording(p), p}
      BY <2>2 DEF RecordingResumes, Reacts
    <3> HIDE DEF p
    <3>3. [p EXCEPT !.recording = TRUE].generation = p.generation
      BY <3>1 DEF IsPage, PageFields
    <3> QED BY <3>1, <3>2, <3>3 DEF StartRecording, Remains
  <2> QED BY <1>2, <2>1, <2>2, EffectRemains, ReturnRemains DEF Reactions
<1>3. CASE KeyboardAndClock
  <2>1. CASE ListenerOpens
    <3>1. PICK found \in {"Open", "None"} :
            page' = ReadsKeymap([page EXCEPT !.listener = IF @ = "Opening" THEN found ELSE @])
      BY <2>1 DEF ListenerOpens, Happens
    <3> DEFINE p == [page EXCEPT !.listener = IF @ = "Opening" THEN found ELSE @]
    <3>2. Stays(page, p)
      BY DEF Stays, IsPage, PageFields
    <3>3. page' = ReadsKeymap(p)
      BY <3>1
    <3> HIDE DEF p
    <3> QED BY <1>1, <3>2, <3>3, ReadsKeymapStays, StaysAgain DEF Stays
  <2>2. CASE ListenerCloses
    BY <1>1, <2>2, RetireStays
      DEF ListenerCloses, CloseRefused, Happens, Closed, Remains, IsPage, PageFields
  <2>3. CASE DeviceCloses
    BY <2>3 DEF DeviceCloses, Happens, Closed, Remains, IsPage, PageFields
  <2>4. CASE Unplug \/ Plug
    BY <2>4 DEF Unplug, Plug, Remains
  <2>5. CASE Unplugged \/ ListenerUnplugged
    BY <2>5, DisconnectEnds
      DEF Unplugged, ListenerUnplugged, Happens, Remains, IsPage, PageFields
  <2>6. CASE Notified
    BY <1>1, <2>6, EndScanStays DEF Notified, Happens
  <2>7. CASE TimerFires
    <3> DEFINE p == [page EXCEPT !.timer = FALSE]
    <3>1. Stays(page, p)
      BY DEF Stays, IsPage, PageFields
    <3>2. page' \in {Submit(p, "Apply", "user"), p}
      BY <2>7 DEF TimerFires, Happens
    <3> HIDE DEF p
    <3> QED BY <1>1, <3>1, <3>2, SubmitStays, StaysAgain DEF Stays
  <2> QED BY <1>3, <2>1, <2>2, <2>3, <2>4, <2>5, <2>6, <2>7, EffectRemains DEF KeyboardAndClock
<1>4. CASE User
  <2>1. CASE Choose \/ Chosen
    BY <2>1 DEF Choose, Chosen, Placed, Remains
  <2>2. CASE ReadPressed
    BY <1>1, <2>2, SubmitStays DEF ReadPressed, Happens
  <2>3. CASE Edited
    BY <2>3 DEF Edited, Happens, Remains, IsPage, PageFields
  <2>4. CASE DiscoverPressed
    BY <1>1, <2>4, DiscoverStays DEF DiscoverPressed, Happens
  <2>5. CASE RecordPressed
    <3> DEFINE r == [page EXCEPT !.recorder = page.generation]
               p == EndScan(r)
    <3>1. Stays(page, r) /\ Stays(page, [page EXCEPT !.recording = TRUE]) /\ Stays(page, page)
      BY DEF Stays, IsPage, PageFields
    <3>2. \/ page' = StartRecording(page)
          \/ page' = AwaitedPage(p)
      BY <2>5 DEF RecordPressed, Happens, AwaitedPage, AwaitedJobs
    <3> HIDE DEF r
    <3>3. Stays(page, p)
      BY <3>1, EndScanStays, StaysAgain DEF Stays
    <3> HIDE DEF p
    <3>4. Stays(p, AwaitedPage(p))
      BY <3>3 DEF Stays, IsPage, PageFields, AwaitedPage
    <3>5. Stays(page, StartRecording(page))
      BY <3>1 DEF StartRecording
    <3> QED BY <1>1, <3>2, <3>3, <3>4, <3>5, StaysAgain
  <2>6. CASE RecordStopped
    <3> DEFINE p == [page EXCEPT !.recording = FALSE]
    <3>1. Stays(page, p)
      BY DEF Stays, IsPage, PageFields
    <3>2. page' = Pump(p, page.generation)
      BY <2>6 DEF RecordStopped, Happens
    <3> HIDE DEF p
    <3> QED BY <1>1, <3>1, <3>2, PumpStays, StaysAgain DEF Stays
  <2>7. CASE HostPressed
    BY <2>7 DEF HostPressed, Happens, Remains, IsPage, PageFields
  <2>8. CASE ScreenChosen
    <3> DEFINE p == EndScan(page)
               saved == p.lighting.baseline.context
               q == [p EXCEPT !.hosting = "Starting", !.host.phase = "Starting",
                              !.host.saved = saved]
    <3>1. page' \in {HostFinishes(page, TRUE), HostFinishes(p, TRUE),
                     Enqueue(q, "Start", "host", saved)}
      BY <2>8 DEF ScreenChosen, Happens
    <3>2. Stays(page, p)
      BY EndScanStays
    <3> HIDE DEF p
    <3>3. Stays(p, q)
      BY <3>2 DEF Stays, IsPage, PageFields
    <3> HIDE DEF q
    <3>4. Stays(page, HostFinishes(page, TRUE)) /\ Stays(p, HostFinishes(p, TRUE))
      BY <3>2, HostFinishesStays DEF Stays
    <3>5. \A value : Stays(q, Enqueue(q, "Start", "host", value))
      BY <3>3, EnqueueStays DEF Stays
    <3> QED BY <3>1, <3>2, <3>3, <3>4, <3>5 DEF Stays, Remains
  <2>9. CASE FrameCaptured
    <3> DEFINE p == [page EXCEPT !.host.frame = TRUE]
    <3>1. Stays(page, p)
      BY DEF Stays, IsPage, PageFields
    <3>2. page' \in {p, HostDrains(p)}
      BY <2>9 DEF FrameCaptured, Happens
    <3> HIDE DEF p
    <3> QED BY <1>1, <3>1, <3>2, HostDrainsStays, StaysAgain DEF Stays
  <2>10. CASE HostStopPressed
    BY <1>1, <2>10, HostStopsStays DEF HostStopPressed, Happens
  <2> QED BY <1>4, <2>1, <2>2, <2>3, <2>4, <2>5, <2>6, <2>7, <2>8, <2>9, <2>10 DEF User
<1> QED BY <1>2, <1>3, <1>4 DEF Next

\* What is left behind when host lighting is over, restored or shown.
LEMMA RestoredFacts ==
  ASSUME NEW p, NEW shown, Presented(p, shown), Connected(p), HostRestored(p), ~Writing(p)
  PROVE  /\ p.hosting = "Idle"
         /\ shown = p.generation => Ready(p.lighting) /\ p.lighting.baseline = Snapshot(shown)
<1>1. p.hosting = "Idle" /\ ~Hosting(p)
  BY DEF HostRestored, Presented, HostHeld
<1>2. shown = p.generation => Ready(p.lighting)
  BY <1>1 DEF HostRestored, Presented, HostHeld
<1> QED BY <1>1, <1>2 DEF Presented, LightingTrue

\* Those two lose nothing.
LEMMA StepLosesNothing ==
  ASSUME PageInvariant, TruthInvariant, Next PROVE LosesNothing
<1>1. SUFFICES ASSUME Connected(page), ~Connected(page'), ~page'.force
               PROVE  /\ ~Writing(page) /\ page.hosting = "Idle"
                      /\ keyboard.shown = page.generation =>
                           Ready(page.lighting) /\ page.lighting.baseline = Snapshot(keyboard.shown)
  BY DEF LosesNothing
<1>2. /\ Placed(page) /\ IsPage(page) /\ Hosted(page) /\ Presented(page, keyboard.shown)
  BY PageSound DEF Ordered, Shaped, IsPage, TruthInvariant, Truthful
<1>3. ~Remains
  BY <1>1 DEF Remains, Connected
<1>4. CASE HostStopped
  <2>1. page' = Leave(page) /\ page.closing = "Host"
    BY <1>4 DEF HostStopped, Reacts
  <2>2. page'.force = page.force /\ (page.force \/ HostRestored(page))
    BY <1>2, <1>3, <2>1, LeaveEnds DEF Remains
  <2>3. ~Writing(page)
    BY <1>1, <1>2, <2>1, <2>2 DEF Presented, EditorHeld
  <2> QED BY <1>1, <1>2, <2>2, <2>3, RestoredFacts
<1>5. CASE DisconnectPressed
  <2>1. page' = Disconnect(page, FALSE) /\ ~Writing(page)
    BY <1>5 DEF DisconnectPressed, MayDisconnect, Saving, Happens
  <2>2. HostRestored(page)
    BY <1>2, <1>3, <2>1, DisconnectEnds DEF Remains
  <2> QED BY <1>1, <1>2, <2>1, <2>2, RestoredFacts
<1> QED BY <1>2, <1>3, <1>4, <1>5, OtherwiseRemains

-----------------------------------------------------------------------------
(* The theorems. *)

\* Every action keeps both invariants, unless it leaves an executor at work.
LEMMA EveryStepKeeps ==
  ASSUME PageInvariant, TruthInvariant, [Next]_vars, left' = {}
  PROVE  PageInvariant' /\ TruthInvariant'
<1>1. CASE Reactions
  BY <1>1, EffectRefusedKeeps, JobReturnsKeeps, HostStoppedKeeps, ExecutorFinishedKeeps,
     RecordingResumesKeeps
    DEF Reactions
<1>2. CASE KeyboardAndClock
  <2>1. ASSUME NEW c \in Connections, EffectSettles(c) PROVE PageInvariant' /\ TruthInvariant'
    BY <2>1, BackupSettlesKeeps, ExchangeSettlesKeeps, WriteNotSentKeeps, WriteSettlesKeeps,
       WaitEndsKeeps, YieldEndsKeeps
      DEF EffectSettles
  <2>2. CASE ListenerCloses
    BY <2>2, ListenerClosedKeeps, CloseRefusedKeeps DEF ListenerCloses
  <2> QED BY <1>2, <2>1, <2>2, ListenerOpensKeeps, DeviceClosesKeeps, PluggedKeeps,
             UnpluggedKeeps, ListenerUnpluggedKeeps, NotifiedKeeps, TimerFiresKeeps
    DEF KeyboardAndClock
<1>3. CASE User
  BY <1>3, ChooseKeeps, ChosenKeeps, DisconnectPressedKeeps, ReadPressedKeeps, EditedKeeps,
     DiscoverPressedKeeps, RecordPressedKeeps, RecordStoppedKeeps, HostPressedKeeps,
     ScreenChosenKeeps, FrameCapturedKeeps, HostStopPressedKeeps
    DEF User
<1>4. CASE UNCHANGED vars
  BY <1>4 DEF vars, PageInvariant, TruthInvariant
<1> QED BY <1>1, <1>2, <1>3, <1>4 DEF Next

\* An executor left at work stays on record.
LEMMA LeftStays ==
  ASSUME [Next]_vars, left' = {} PROVE left = {}
<1>1. ASSUME NEW c \in Connections, EffectRefused(c) \/ EffectSettles(c) PROVE left' = left
  BY <1>1
    DEF EffectRefused, EffectSettles, BackupSettles, ExchangeSettles, WriteNotSent, WriteSettles,
        WaitEnds, YieldEnds, Reacts, Happens
<1>2. CASE Reactions
  BY <1>1, <1>2
    DEF Reactions, JobReturns, HostStopped, ExecutorFinished, RecordingResumes, Reacts
<1>3. CASE KeyboardAndClock
  <2>1. CASE ListenerCloses
    BY <2>1 DEF ListenerCloses, CloseRefused, Happens
  <2>2. CASE ListenerOpens \/ DeviceCloses \/ Notified \/ TimerFires \/ ListenerUnplugged
    BY <2>2 DEF ListenerOpens, DeviceCloses, Notified, TimerFires, ListenerUnplugged, Happens
  <2>3. CASE Unplug \/ Unplugged \/ Plug
    BY <2>3 DEF Unplug, Unplugged, Plug
  <2> QED BY <1>1, <1>3, <2>1, <2>2, <2>3 DEF KeyboardAndClock
<1>4. CASE User
  BY <1>4
    DEF User, Choose, Chosen, DisconnectPressed, ReadPressed, Edited, DiscoverPressed,
        RecordPressed, RecordStopped, HostPressed, ScreenChosen, FrameCaptured, HostStopPressed,
        Happens
<1>5. CASE UNCHANGED vars
  BY <1>5 DEF vars
<1> QED BY <1>2, <1>3, <1>4, <1>5 DEF Next

\* The inductive invariant of the page: at most one job of the session and one of
\* the host controller is in flight, only the last connection has jobs, every job
\* tells the truth about the keyboard, and so does what is presented of it.  It
\* holds until a listener that refuses to be closed leaves an executor at work.
THEOREM PageIsSound == Spec => [](left = {} => PageInvariant /\ TruthInvariant)
<1> DEFINE Inv == left = {} => PageInvariant /\ TruthInvariant
<1>1. Init => Inv
  BY PageStarts
<1>2. Inv /\ [Next]_vars => Inv'
  BY EveryStepKeeps, LeftStays
<1> QED BY <1>1, <1>2, PTL DEF Spec

\* A keyboard is used by one connection at a time, however connecting,
\* disconnecting and unplugging follow each other, as long as no executor was left
\* at work (runtime.mjs, executor.mjs).
THEOREM OneConnectionIsAtDevice == Spec => [](left = {} => OneConnectionAtDevice)
<1>1. PageInvariant => OneConnectionAtDevice
  <2>1. SUFFICES ASSUME PageInvariant, NEW c \in Connections, AtWork(c) PROVE Owns(c)
    BY DEF OneConnectionAtDevice
  <2>2. Placed(page)
    BY <2>1, PageSound
  <2>3. ~Finished(page.executors[c])
    BY <2>1 DEF AtWork, Finished
  <2> QED BY <2>1, <2>2, <2>3, BusyPlaced DEF AtRest, Owns
<1> QED BY <1>1, PageIsSound, PTL

\* Lighting presented as verified is what the keyboard shows, whatever ended a
\* save, host lighting or the previous connection, as long as no executor was
\* left at work.
THEOREM ReadyLightingIsTrue == Spec => []ReadyIsTrue
<1>1. (left = {} => TruthInvariant) => ReadyIsTrue
  BY DEF TruthInvariant, Truthful, Presented, LightingTrue, ReadyIsTrue
<1> QED BY <1>1, PageIsSound, PTL

\* Disconnecting by hand loses no save, and leaves no host lighting on the
\* keyboard without showing it, as long as no executor was left at work.
THEOREM DisconnectingLosesNothing == Spec /\ [](left = {}) => DisconnectLosesNothing
<1>1. PageInvariant /\ TruthInvariant /\ [Next]_vars => [LosesNothing]_vars
  BY StepLosesNothing
<1> QED BY <1>1, PageIsSound, PTL DEF Spec, DisconnectLosesNothing
=============================================================================
