---------------------------- MODULE WebPlannerProofs ----------------------------
(***************************************************************************)
(* Theorems about the browser's planner: what it reports of the keyboard   *)
(* is so, and one effect that goes wrong never costs the original.         *)
(***************************************************************************)
EXTENDS WebPlanner, SequenceTheorems, FiniteSetTheorems, TLAPS

(* Sequences. *)

IsSeq(q) == q \in Seq({q[i] : i \in DOMAIN q})

\* A sequence of whatever is one of its items.
LEMMA SeqIsSeq ==
  ASSUME NEW S, NEW q \in Seq(S) PROVE IsSeq(q)
<1> DEFINE T == {q[i] : i \in DOMAIN q}
<1>1. q \in [1..Len(q) -> T] /\ Len(q) \in Nat
  OBVIOUS
<1> QED BY <1>1, SeqDef DEF IsSeq

\* Domain, length and emptiness of a sequence.
LEMMA SeqFacts ==
  ASSUME NEW q, IsSeq(q)
  PROVE  /\ Len(q) \in Nat /\ DOMAIN q = 1..Len(q) /\ q = [i \in 1..Len(q) |-> q[i]]
         /\ q = << >> <=> Len(q) = 0
<1> DEFINE S == {q[i] : i \in DOMAIN q}
<1>1. q \in Seq(S)
  BY DEF IsSeq
<1> HIDE DEF S
<1>2. Len(q) \in Nat /\ q \in [1..Len(q) -> S]
  BY <1>1
<1>3. q # << >> => Len(q) # 0
  BY <1>1, EmptySeq
<1> QED BY <1>2, <1>3

\* A function on 1..n is a sequence.
LEMMA FcnIsSeq ==
  ASSUME NEW n \in Nat, NEW q, q = [i \in 1..n |-> q[i]] PROVE IsSeq(q) /\ Len(q) = n
<1> DEFINE T == {q[i] : i \in DOMAIN q}
<1>1. DOMAIN q = 1..n
  OBVIOUS
<1>2. q \in [1..n -> T]
  BY <1>1
<1> HIDE DEF T
<1>3. q \in Seq(T)
  BY <1>2, SeqDef
<1> QED BY <1>1, <1>3, SeqIsSeq

\* The empty sequence.
LEMMA EmptyIsSeq == IsSeq(<< >>) /\ Len(<< >>) = 0
BY EmptySeq, SeqIsSeq

\* A sequence of one.
LEMMA OneIsSeq ==
  ASSUME NEW x PROVE IsSeq(<<x>>) /\ Len(<<x>>) = 1 /\ <<x>>[1] = x /\ <<x>> # << >>
<1>1. <<x>> \in Seq({x}) /\ Len(<<x>>) = 1 /\ <<x>>[1] = x
  OBVIOUS
<1> QED BY <1>1, SeqIsSeq

\* Append adds its item behind the others.
LEMMA Appended ==
  ASSUME NEW q, NEW x, IsSeq(q)
  PROVE  /\ IsSeq(Append(q, x)) /\ Len(Append(q, x)) = Len(q) + 1
         /\ \A i \in 1..Len(q) : Append(q, x)[i] = q[i]
         /\ Append(q, x)[Len(q) + 1] = x
<1> DEFINE S == {q[i] : i \in DOMAIN q} \cup {x}
<1>1. q \in Seq(S) /\ x \in S
  BY DEF IsSeq
<1> HIDE DEF S
<1>2. Append(q, x) \in Seq(S) /\ Len(Append(q, x)) = Len(q) + 1
  BY <1>1
<1>3. /\ \A i \in 1..Len(q) : Append(q, x)[i] = q[i]
      /\ Append(q, x)[Len(q) + 1] = x
  BY <1>1
<1> QED BY <1>2, <1>3, SeqIsSeq

\* The items of a concatenation are those of its parts, in order.
LEMMA Joined ==
  ASSUME NEW p, NEW q, IsSeq(p), IsSeq(q)
  PROVE  /\ IsSeq(p \o q) /\ Len(p \o q) = Len(p) + Len(q)
         /\ \A i \in 1..Len(p) : (p \o q)[i] = p[i]
         /\ \A i \in 1..Len(q) : (p \o q)[Len(p) + i] = q[i]
         /\ \A i \in 1..Len(p \o q) : \/ i \in 1..Len(p)
                                      \/ i - Len(p) \in 1..Len(q) /\ i = Len(p) + (i - Len(p))
<1> DEFINE S == {p[i] : i \in DOMAIN p} \cup {q[i] : i \in DOMAIN q}
<1>1. p \in Seq(S) /\ q \in Seq(S)
  BY DEF IsSeq
<1> HIDE DEF S
<1>2. /\ p \o q \in Seq(S) /\ Len(p \o q) = Len(p) + Len(q)
      /\ \A i \in 1..Len(p) + Len(q) :
           (p \o q)[i] = IF i <= Len(p) THEN p[i] ELSE q[i - Len(p)]
  BY <1>1, ConcatProperties
<1>3. Len(p) \in Nat /\ Len(q) \in Nat
  BY <1>1
<1>4. IsSeq(p \o q)
  BY <1>2, SeqIsSeq
<1>5. \A i \in 1..Len(p) : (p \o q)[i] = p[i]
  BY <1>2, <1>3
<1>6. \A i \in 1..Len(q) : (p \o q)[Len(p) + i] = q[i]
  <2> TAKE i \in 1..Len(q)
  <2>1. Len(p) + i \in 1..Len(p) + Len(q) /\ ~(Len(p) + i <= Len(p)) /\ (Len(p) + i) - Len(p) = i
    BY <1>3
  <2> QED BY <1>2, <2>1
<1>7. \A i \in 1..Len(p \o q) : \/ i \in 1..Len(p)
                                \/ i - Len(p) \in 1..Len(q) /\ i = Len(p) + (i - Len(p))
  BY <1>2, <1>3
<1> QED BY <1>2, <1>4, <1>5, <1>6, <1>7

\* The empty sequence adds nothing.
LEMMA EmptyJoined ==
  ASSUME NEW q, IsSeq(q) PROVE << >> \o q = q /\ q \o << >> = q
BY ConcatEmptySeq DEF IsSeq

\* A sequence is its head and its tail.
LEMMA TailFacts ==
  ASSUME NEW q, IsSeq(q), q # << >>
  PROVE  /\ IsSeq(Tail(q)) /\ Len(Tail(q)) = Len(q) - 1 /\ Head(q) = q[1]
         /\ <<Head(q)>> \o Tail(q) = q
<1> DEFINE S == {q[i] : i \in DOMAIN q}
<1>1. q \in Seq(S)
  BY DEF IsSeq
<1> HIDE DEF S
<1>2. /\ Tail(q) \in Seq(S) /\ Len(Tail(q)) = Len(q) - 1 /\ Head(q) \in S
      /\ \A i \in 1..Len(Tail(q)) : Tail(q)[i] = q[i + 1]
  BY <1>1, HeadTailProperties
<1>3. Head(q) = q[1] /\ Len(q) \in Nat \ {0}
  BY <1>1, EmptySeq
<1>4. <<Head(q)>> \in Seq(S) /\ Len(<<Head(q)>>) = 1 /\ <<Head(q)>>[1] = Head(q)
  BY <1>2
<1>5. /\ <<Head(q)>> \o Tail(q) \in Seq(S)
      /\ Len(<<Head(q)>> \o Tail(q)) = Len(q)
      /\ \A i \in 1..Len(q) : (<<Head(q)>> \o Tail(q))[i] = IF i <= 1 THEN Head(q) ELSE Tail(q)[i - 1]
  BY <1>2, <1>3, <1>4, ConcatProperties
<1>6. \A i \in 1..Len(q) : (<<Head(q)>> \o Tail(q))[i] = q[i]
  BY <1>2, <1>3, <1>5
<1>7. <<Head(q)>> \o Tail(q) = q
  BY <1>1, <1>5, <1>6, SeqEqual
<1> QED BY <1>2, <1>3, <1>7, SeqIsSeq

\* Mapping the items leaves a sequence as long as it was.
LEMMA Mapped ==
  ASSUME NEW q, NEW f, IsSeq(q), DOMAIN f = DOMAIN q, f = [i \in DOMAIN f |-> f[i]]
  PROVE  IsSeq(f) /\ Len(f) = Len(q)
BY SeqFacts, FcnIsSeq

\* The items at the chosen places, all of them, in a sequence.
LEMMA InOrderFacts ==
  ASSUME NEW s, IsSeq(s), NEW chosen \in SUBSET DOMAIN s
  PROVE  /\ IsSeq(InOrder(s, chosen))
         /\ \A i \in chosen :
              \E k \in 1..Len(InOrder(s, chosen)) : InOrder(s, chosen)[k] = s[i]
<1> DEFINE upto(i) == {j \in chosen : j <= i}
           rank(i) == Cardinality(upto(i))
           result == InOrder(s, chosen)
<1>1. DOMAIN s = 1..Len(s) /\ Len(s) \in Nat
  BY SeqFacts
<1>2. chosen \in SUBSET (1..Len(s)) /\ IsFiniteSet(chosen) /\ Cardinality(chosen) \in Nat
  <2>1. IsFiniteSet(1..Len(s)) /\ chosen \in SUBSET (1..Len(s))
    BY <1>1, FS_Interval
  <2> QED BY <2>1, FS_Subset, FS_CardinalityType
<1>3. result = [k \in 1..Cardinality(chosen) |-> s[CHOOSE i \in chosen : rank(i) = k]]
  BY DEF InOrder
<1>4. \A i \in chosen : rank(i) \in 1..Cardinality(chosen)
  <2> TAKE i \in chosen
  <2> DEFINE part == upto(i)
  <2>1. part \in SUBSET chosen /\ i \in part
    BY <1>1, <1>2
  <2> HIDE DEF part
  <2>2. IsFiniteSet(part) /\ Cardinality(part) <= Cardinality(chosen) /\ Cardinality(part) \in Nat
    BY <1>2, <2>1, FS_Subset, FS_CardinalityType
  <2>3. Cardinality(part) # 0
    BY <2>1, <2>2, FS_EmptySet
  <2> QED BY <1>2, <2>2, <2>3 DEF part
<1>5. \A i, j \in chosen : i < j => rank(i) # rank(j)
  <2> SUFFICES ASSUME NEW i \in chosen, NEW j \in chosen, i < j PROVE rank(i) # rank(j)
    OBVIOUS
  <2> DEFINE small == upto(i)
             large == upto(j)
  <2>1. small \in SUBSET large /\ j \in large /\ j \notin small /\ large \in SUBSET chosen
    BY <1>1, <1>2
  <2> HIDE DEF small, large
  <2>2. IsFiniteSet(large)
    BY <1>2, <2>1, FS_Subset
  <2>3. Cardinality(small) # Cardinality(large)
    BY <2>1, <2>2, FS_Subset
  <2> QED BY <2>3 DEF small, large
<1>6. IsSeq(result) /\ Len(result) = Cardinality(chosen)
  <2>1. result = [k \in 1..Cardinality(chosen) |-> result[k]]
    BY <1>3
  <2> HIDE DEF result
  <2> QED BY <1>2, <2>1, FcnIsSeq
<1>7. \A i \in chosen : result[rank(i)] = s[i]
  <2> TAKE i \in chosen
  <2> DEFINE j == CHOOSE j \in chosen : rank(j) = rank(i)
  <2> HIDE DEF rank
  <2>1. j \in chosen /\ rank(j) = rank(i)
    OBVIOUS
  <2>2. j = i
    BY <1>2, <1>5, <2>1
  <2>3. result[rank(i)] = s[j]
    BY <1>3, <1>4
  <2> QED BY <2>2, <2>3
<1> HIDE DEF rank, result
<1> QED BY <1>4, <1>6, <1>7 DEF result
-----------------------------------------------------------------------------
(* The world an operation runs in, and what holds of an operation o with   *)
(* its remaining effects in steps.                                         *)

World == [keyboard |-> keyboard, profile |-> profile, saved |-> saved, stale |-> stale,
          faults |-> faults, switches |-> switches]
Clean(w) == w.faults < 2 /\ w.profile = "first" /\ w.switches = 0 /\ w.stale = {}

Fields == {"plan", "sections", "changes", "stage", "queue", "current", "replies", "capture",
           "attempted", "outcome"}
IsOperation(o) == Fields \subseteq DOMAIN o

Section(o) == Head(o.sections)
Covered(o) == ToSet(Places(Section(o)))
Untouched(w) ==
  \A place \in AllPlaces : w.keyboard[place] = IF place \in w.stale THEN "other" ELSE "old"
Honest(w, replies) ==
  \A i \in DOMAIN replies : replies[i][1] # Identity => replies[i][2] = w.keyboard[replies[i][1]]
Stored(w, o, image) == \A place \in Covered(o) : w.keyboard[place] = Image(o, image, place)

\* A read is under way: the replies that came, those asked for after n setters.
ToRead(w, o, steps, n) ==
  /\ IsSeq(o.replies) /\ Honest(w, o.replies)
  /\ Len(o.replies) + Len(steps) = n + Len(Asked(o))
  /\ \A i \in 1..Len(o.replies) : o.replies[i][1] = Asked(o)[i]
  /\ \A j \in 1..Len(steps) : n < j =>
       steps[j].kind = "exchange" /\ steps[j].place = Asked(o)[Len(o.replies) + j - n]

\* The first n effects commit the backup and set places as the save wants them.
Setting(o, steps, n) ==
  \A j \in 1..n :
    \/ steps[j].kind = "write" /\ steps[j].value = Image(o, "target", steps[j].place)
    \/ j = 1 /\ steps[j].kind = "backup"

\* Before the backup is committed, and before a setter is sent, nothing changed.
Backed(w, o, steps) ==
  /\ w.saved \/ (steps # <<>> /\ steps[1].kind = "backup" /\ ~o.attempted)
  /\ steps # <<>> /\ steps[1].kind = "backup" => ~o.attempted
  /\ ~w.saved \/ ~o.attempted => Untouched(w)

Old(w, place) == w.keyboard[place] = "old"
Pending(steps, place) ==
  \E j \in 1..Len(steps) : steps[j].kind = "write" /\ steps[j].place = place
FunctionPlaces == {<<key, "all">> : key \in ToSet(FunctionKeys)}
BasePlaces == {<<key, "first">> : key \in ToSet(BaseKeys)}
FirstOnly(o) == \A i \in DOMAIN o.replies : o.replies[i][1] = Identity => o.replies[i][2] = "first"
Outside(w, o) == \A place \in Covered(o) \ o.changes : Old(w, place)

Restoring == {"RestoreFn", "RestoreBase", "Restore"}
Observing == {"ObserveFn", "ObserveBase", "Verify"}
\* The places a stage of the recovery writes, and those it found or put back.
Target(o) == CASE o.stage = "RestoreFn"   -> FunctionPlaces
               [] o.stage = "RestoreBase" -> BasePlaces
               [] o.stage = "Restore"     -> Covered(o)
               [] OTHER -> {}
Back(o) == CASE o.stage \in {"ObserveBase", "RestoreBase"} -> FunctionPlaces
             [] o.stage = "Verify" -> Covered(o)
             [] OTHER -> {}

Main(w, o, steps) ==
  /\ \E n \in 0..Len(steps) :
       (n > 0 => o.replies = <<>>) /\ Setting(o, steps, n) /\ ToRead(w, o, steps, n)
  /\ Clean(w) =>
       /\ FirstOnly(o) /\ Outside(w, o)
       /\ w.faults = 0 =>
            \A place \in Covered(o) :
              w.keyboard[place] = Image(o, "target", place) \/ Pending(steps, place)
Restore(w, o, steps) ==
  /\ \A j \in 1..Len(steps) : steps[j].kind = "write" /\ steps[j].value = "old"
  /\ Section(o)[1] = "keymap" <=> o.stage # "Restore"
  /\ Clean(w) =>
       /\ w.faults # 0 /\ Outside(w, o)
       /\ \A place \in Target(o) : Old(w, place) \/ Pending(steps, place)
       /\ \A place \in Back(o) : Old(w, place)
Observe(w, o, steps) ==
  /\ ToRead(w, o, steps, 0)
  /\ Section(o)[1] # "keymap" => o.stage = "Verify"
  /\ Clean(w) =>
       /\ w.faults # 0 /\ FirstOnly(o) /\ Outside(w, o)
       /\ \A place \in Back(o) : Old(w, place)

Reading(w, o, steps) ==
  /\ o.changes = {} /\ o.outcome = "none" /\ Untouched(w)
  /\ \A j \in 1..Len(steps) : steps[j].kind = "exchange"
  /\ IsSeq(o.replies) /\ Honest(w, o.replies)
  /\ IsSeq(o.capture) /\ \A i \in DOMAIN o.capture : Honest(w, o.capture[i])
Accepting(w, o, steps) ==
  /\ Section(o)[1] \notin ReadBack /\ o.outcome = "none" /\ Backed(w, o, steps)
  /\ Setting(o, steps, Len(steps))
Planned(o) ==
  /\ Section(o) \in Sections /\ Section(o)[1] \in ReadBack /\ o.outcome = "none"
  /\ o.changes # {} /\ o.changes \subseteq Covered(o)
  /\ Section(o)[1] = "keymap" => o.changes \cap Reserved = {}
Applying(w, o, steps) ==
  /\ Planned(o) /\ Backed(w, o, steps)
  /\ o.stage \in {"Main"} \cup Restoring \cup Observing
  /\ o.stage = "Main" => Main(w, o, steps)
  /\ o.stage \in Restoring => Restore(w, o, steps)
  /\ o.stage \in Observing => Observe(w, o, steps)

\* What may be reported.
Truthful(w, o, outcome) ==
  /\ o.sections # <<>> /\ o.changes # {} /\ Section(o)[1] \in ReadBack =>
       /\ outcome = "Ok" => Stored(w, o, "target")
       /\ outcome = "Verified" => Stored(w, o, "before")
       /\ outcome \in {"Failed", "Unverified"} => ~Clean(w)
  /\ outcome = "NotAttempted" \/ ~w.saved => Untouched(w)
  /\ outcome = "Read" => \A i \in DOMAIN o.capture : Honest(w, o.capture[i])
Answered(w, o, steps) ==
  steps = <<Step("complete", <<>>, o.outcome)>> /\ Truthful(w, o, o.outcome)

Fine(w, o, steps) ==
  /\ IsSeq(steps)
  /\ o.plan \in {"read", "archive", "accepted", "apply", "terminal"}
  /\ o.plan \in {"read", "archive"} => Reading(w, o, steps)
  /\ o.plan = "accepted" => Accepting(w, o, steps)
  /\ o.plan = "apply" => Applying(w, o, steps)
  /\ o.plan = "terminal" => Answered(w, o, steps)

PlannerInvariant ==
  /\ DOMAIN keyboard = AllPlaces /\ faults \in 0..2 /\ switches \in Nat
  /\ op = None => Untouched(World) /\ ~saved
  /\ op # None => /\ IsOperation(op) /\ IsSeq(op.queue)
                  /\ Fine(World, op, <<op.current>> \o op.queue)
-----------------------------------------------------------------------------
(* Places and steps. *)

\* The keymap of a profile covers its base layer and the function layer.
LEMMA KeyPlacesFacts ==
  ASSUME NEW p
  PROVE  /\ IsSeq(KeyPlaces(p))
         /\ ToSet(KeyPlaces(p)) = {<<key, p>> : key \in ToSet(BaseKeys)} \cup FunctionPlaces
<1> DEFINE base == [i \in DOMAIN BaseKeys |-> <<BaseKeys[i], p>>]
           function == [i \in DOMAIN FunctionKeys |-> <<FunctionKeys[i], "all">>]
<1>1. IsSeq(BaseKeys) /\ IsSeq(FunctionKeys)
  BY PlannerAssumption, SeqIsSeq
<1>2. IsSeq(base) /\ Len(base) = Len(BaseKeys) /\ IsSeq(function) /\ Len(function) = Len(FunctionKeys)
  <2>1. base = [i \in DOMAIN base |-> base[i]] /\ function = [i \in DOMAIN function |-> function[i]]
    OBVIOUS
  <2>2. DOMAIN base = DOMAIN BaseKeys /\ DOMAIN function = DOMAIN FunctionKeys
    OBVIOUS
  <2> HIDE DEF base, function
  <2> QED BY <1>1, <2>1, <2>2, Mapped
<1>3. KeyPlaces(p) = base \o function
  BY DEF KeyPlaces
<1>4. \A i \in 1..Len(base) : base[i] = <<BaseKeys[i], p>>
  BY <1>1, <1>2, SeqFacts
<1>5. \A i \in 1..Len(function) : function[i] = <<FunctionKeys[i], "all">>
  BY <1>1, <1>2, SeqFacts
<1>6. DOMAIN BaseKeys = 1..Len(base) /\ DOMAIN FunctionKeys = 1..Len(function)
  BY <1>1, <1>2, SeqFacts
<1> HIDE DEF base, function
<1>7. /\ IsSeq(KeyPlaces(p)) /\ DOMAIN KeyPlaces(p) = 1..Len(KeyPlaces(p))
      /\ Len(KeyPlaces(p)) = Len(base) + Len(function) /\ Len(base) \in Nat /\ Len(function) \in Nat
  BY <1>2, <1>3, Joined, SeqFacts
<1>8. ASSUME NEW i \in DOMAIN KeyPlaces(p)
      PROVE  KeyPlaces(p)[i] \in {<<key, p>> : key \in ToSet(BaseKeys)} \cup FunctionPlaces
  <2>1. CASE i \in 1..Len(base)
    <3>1. KeyPlaces(p)[i] = <<BaseKeys[i], p>> /\ BaseKeys[i] \in ToSet(BaseKeys)
      BY <1>2, <1>3, <1>4, <1>6, <2>1, Joined DEF ToSet
    <3> QED BY <3>1
  <2>2. CASE i - Len(base) \in 1..Len(function) /\ i = Len(base) + (i - Len(base))
    <3>1. KeyPlaces(p)[i] = function[i - Len(base)]
      BY <1>2, <1>3, <2>2, Joined
    <3>2. KeyPlaces(p)[i] = <<FunctionKeys[i - Len(base)], "all">>
      BY <1>5, <2>2, <3>1
    <3>3. FunctionKeys[i - Len(base)] \in ToSet(FunctionKeys)
      BY <1>6, <2>2 DEF ToSet
    <3> QED BY <3>2, <3>3 DEF FunctionPlaces
  <2> QED BY <1>2, <1>3, <1>7, <2>1, <2>2, Joined
<1>9. ASSUME NEW key \in ToSet(BaseKeys) PROVE <<key, p>> \in ToSet(KeyPlaces(p))
  <2>1. PICK i \in 1..Len(base) : key = BaseKeys[i]
    BY <1>6 DEF ToSet
  <2>2. KeyPlaces(p)[i] = <<key, p>> /\ i \in DOMAIN KeyPlaces(p)
    BY <1>2, <1>3, <1>4, <1>7, <2>1, Joined
  <2> QED BY <2>2 DEF ToSet
<1>10. ASSUME NEW key \in ToSet(FunctionKeys) PROVE <<key, "all">> \in ToSet(KeyPlaces(p))
  <2>1. PICK i \in 1..Len(function) : key = FunctionKeys[i]
    BY <1>6 DEF ToSet
  <2>2. KeyPlaces(p)[Len(base) + i] = <<key, "all">> /\ Len(base) + i \in DOMAIN KeyPlaces(p)
    BY <1>2, <1>3, <1>5, <1>7, <2>1, Joined
  <2> QED BY <2>2 DEF ToSet
<1> QED BY <1>7, <1>8, <1>9, <1>10 DEF ToSet, FunctionPlaces

\* What the sections cover.
LEMMA PlacesFacts ==
  ASSUME NEW section
  PROVE  /\ IsSeq(Places(section))
         /\ section[1] = "keymap" => Places(section) = KeyPlaces("first")
         /\ section[1] # "keymap" => Places(section) # << >>
         /\ section[1] \in {"macro", "settings"} =>
              Places(section) = [i \in 1..Pages |-> <<section[1], section[2], i>>]
<1>1. CASE section[1] = "keymap"
  BY <1>1, KeyPlacesFacts DEF Places
<1>2. CASE section[1] = "lighting"
  <2>1. Places(section) = << <<"lighting", 0>> >>
    BY <1>2 DEF Places
  <2> QED BY <1>2, <2>1, OneIsSeq
<1>3. CASE section[1] \notin {"keymap", "lighting"}
  <2> DEFINE pages == [i \in 1..Pages |-> <<section[1], section[2], i>>]
  <2>1. Places(section) = pages
    BY <1>3 DEF Places
  <2>2. pages = [i \in 1..Pages |-> pages[i]]
    OBVIOUS
  <2> HIDE DEF pages
  <2>3. IsSeq(pages) /\ Len(pages) = Pages /\ Pages # 0
    BY <2>2, PlannerAssumption, FcnIsSeq
  <2>4. pages # << >>
    BY <2>3, SeqFacts
  <2>5. IsSeq(Places(section)) /\ Places(section) # << >>
    BY <2>1, <2>3, <2>4
  <2>6. Places(section) = [i \in 1..Pages |-> <<section[1], section[2], i>>]
    BY <2>1 DEF pages
  <2> QED BY <1>3, <2>5, <2>6
<1> QED BY <1>1, <1>2, <1>3

\* The fields of an effect.
LEMMA StepFields ==
  \A kind, place, value : /\ Step(kind, place, value).kind = kind
                          /\ Step(kind, place, value).place = place
                          /\ Step(kind, place, value).value = value
BY DEF Step

\* One request for each place, in order.
LEMMA ExchangesFacts ==
  ASSUME NEW places, IsSeq(places)
  PROVE  /\ IsSeq(Exchanges(places)) /\ Len(Exchanges(places)) = Len(places)
         /\ \A i \in 1..Len(places) : /\ Exchanges(places)[i].kind = "exchange"
                                     /\ Exchanges(places)[i].place = places[i]
<1>1. DOMAIN Exchanges(places) = DOMAIN places
      /\ Exchanges(places) = [i \in DOMAIN Exchanges(places) |-> Exchanges(places)[i]]
  BY DEF Exchanges
<1>2. IsSeq(Exchanges(places)) /\ Len(Exchanges(places)) = Len(places)
  BY <1>1, Mapped
<1>3. DOMAIN places = 1..Len(places)
  BY SeqFacts
<1> QED BY <1>2, <1>3 DEF Exchanges, Step

\* One setter for each place, in order, with the value of the image.
LEMMA WritesFacts ==
  ASSUME NEW o, NEW image, NEW places, IsSeq(places)
  PROVE  /\ IsSeq(Writes(o, image, places)) /\ Len(Writes(o, image, places)) = Len(places)
         /\ \A i \in 1..Len(places) :
              /\ Writes(o, image, places)[i].kind = "write"
              /\ Writes(o, image, places)[i].place = places[i]
              /\ Writes(o, image, places)[i].value = Image(o, image, places[i])
<1> DEFINE writes == Writes(o, image, places)
<1>1. DOMAIN writes = DOMAIN places /\ writes = [i \in DOMAIN writes |-> writes[i]]
  BY DEF Writes
<1>2. DOMAIN places = 1..Len(places)
  BY SeqFacts
<1>3. \A i \in 1..Len(places) : writes[i] = Step("write", places[i], Image(o, image, places[i]))
  BY <1>2 DEF Writes
<1> HIDE DEF writes
<1>4. IsSeq(writes) /\ Len(writes) = Len(places)
  BY <1>1, Mapped
<1>5. ASSUME NEW i \in 1..Len(places)
      PROVE  /\ writes[i].kind = "write" /\ writes[i].place = places[i]
             /\ writes[i].value = Image(o, image, places[i])
  BY <1>3, StepFields
<1> QED BY <1>4, <1>5 DEF writes

\* A section a save reads back is covered by the places of the keyboard.
LEMMA CoveredFacts ==
  ASSUME NEW o, Section(o) \in Sections, Section(o)[1] \in ReadBack
  PROVE  /\ Covered(o) \subseteq AllPlaces
         /\ Section(o)[1] = "keymap" =>
              /\ Covered(o) = BasePlaces \cup FunctionPlaces
              /\ Covered(o) = ToSet(KeyPlaces("first"))
         /\ Section(o)[1] # "keymap" => Section(o)[1] \in {"macro", "settings"}
         /\ \A place \in Covered(o) : place # Identity
<1>1. Section(o)[1] # "keymap" => Section(o)[1] \in {"macro", "settings"}
  BY DEF ReadBack
<1>2. Covered(o) \subseteq AllPlaces
  <2> DEFINE macros == [i \in 1..Slots |-> <<"macro", i>>]
             front == << <<"keymap", 0>>, <<"lighting", 0>>, <<"settings", 0>>, <<"picture", 0>> >>
  <2>1. macros = [i \in 1..Slots |-> macros[i]]
    OBVIOUS
  <2>2. front \in Seq({<<"keymap", 0>>, <<"lighting", 0>>, <<"settings", 0>>, <<"picture", 0>>})
        /\ Len(front) = 4
    OBVIOUS
  <2>3. Archive = front \o macros
    BY DEF Archive
  <2> HIDE DEF macros, front
  <2>4. IsSeq(macros) /\ Len(macros) = Slots /\ Slots \in Nat \ {0}
    BY <2>1, PlannerAssumption, FcnIsSeq
  <2>5. IsSeq(Archive) /\ Len(Archive) = 4 + Slots
    <3>1. IsSeq(front)
      BY <2>2, SeqIsSeq
    <3>2. IsSeq(front \o macros) /\ Len(front \o macros) = Len(front) + Len(macros)
      BY <2>4, <3>1, Joined, Zenon
    <3> QED BY <2>2, <2>3, <2>4, <3>2
  <2>6. 1..5 \subseteq DOMAIN Archive
    BY <2>4, <2>5, SeqFacts
  <2>7. Section(o) \in ToSet(Archive)
    BY <2>6 DEF Sections, ToSet
  <2> QED BY <2>7 DEF AllPlaces, Covered
<1>3. Section(o)[1] = "keymap" =>
        Covered(o) = BasePlaces \cup FunctionPlaces /\ Covered(o) = ToSet(KeyPlaces("first"))
  BY PlacesFacts, KeyPlacesFacts DEF Covered, BasePlaces
<1>4. ASSUME NEW place \in Covered(o) PROVE place # Identity
  <2>1. CASE Section(o)[1] = "keymap"
    <3>1. place[1] \in ToSet(BaseKeys) \cup ToSet(FunctionKeys)
      BY <1>3, <1>4, <2>1 DEF BasePlaces, FunctionPlaces
    <3> QED BY <3>1, PlannerAssumption DEF Identity
  <2>2. CASE Section(o)[1] \in {"macro", "settings"}
    <3>1. Places(Section(o)) = [i \in 1..Pages |-> <<Section(o)[1], Section(o)[2], i>>]
      BY <2>2, PlacesFacts
    <3>2. place[1] = Section(o)[1]
      BY <1>4, <3>1 DEF Covered, ToSet
    <3> QED BY <2>2, <3>2 DEF Identity
  <2> QED BY <1>1, <2>1, <2>2
<1> QED BY <1>1, <1>2, <1>3, <1>4

\* What a save's read asks for: a keymap's identity, then every covered place.
LEMMA AskedFacts ==
  ASSUME NEW o, Section(o) \in Sections, Section(o)[1] \in ReadBack
  PROVE  /\ IsSeq(Asked(o))
         /\ Section(o)[1] # "keymap" => Asked(o) = Places(Section(o))
         /\ Section(o)[1] = "keymap" /\ o.replies = <<>> => Asked(o) = <<Identity>>
         /\ Section(o)[1] = "keymap" /\ o.replies # <<>> =>
              Asked(o) = <<Identity>> \o KeyPlaces(o.replies[1][2])
<1>1. Section(o)[1] # "keymap" => Asked(o) = Places(Section(o))
  BY DEF Asked, Section, ReadBack
<1>2. Section(o)[1] = "keymap" /\ o.replies = <<>> => Asked(o) = <<Identity>>
  BY DEF Asked, Section
<1>3. Section(o)[1] = "keymap" /\ o.replies # <<>> =>
        Asked(o) = <<Identity>> \o KeyPlaces(o.replies[1][2])
  BY DEF Asked, Section
<1>4. IsSeq(<<Identity>>) /\ \A p : IsSeq(KeyPlaces(p))
  BY OneIsSeq, KeyPlacesFacts
<1>5. \A p : IsSeq(<<Identity>> \o KeyPlaces(p))
  BY <1>4, Joined
<1> QED BY <1>1, <1>2, <1>3, <1>4, <1>5, PlacesFacts

-----------------------------------------------------------------------------
(* What the parts of an operation do to it. *)

\* Ready: effects are queued; Running: the first of them is under way.
Ready(w, o) == IsOperation(o) /\ IsSeq(o.queue) /\ o.queue # <<>> /\ Fine(w, o, o.queue)
Running(w, o) == IsOperation(o) /\ IsSeq(o.queue) /\ Fine(w, o, <<o.current>> \o o.queue)

\* What is fine does not depend on the effect under way, nor on the queue.
LEMMA SameFine ==
  ASSUME NEW w, NEW o, NEW e, NEW steps, Fine(w, o, steps),
         e.plan = o.plan, e.sections = o.sections, e.changes = o.changes, e.stage = o.stage,
         e.replies = o.replies, e.capture = o.capture, e.attempted = o.attempted,
         e.outcome = o.outcome
  PROVE  Fine(w, e, steps)
<1>1. Section(e) = Section(o) /\ Covered(e) = Covered(o)
  BY DEF Section, Covered
<1>2. Asked(e) = Asked(o) /\ Target(e) = Target(o) /\ Back(e) = Back(o) /\ FirstOnly(e) = FirstOnly(o)
  BY <1>1 DEF Asked, Target, Back, FirstOnly
<1>3. \A image, place : Image(e, image, place) = Image(o, image, place)
  BY DEF Image
<1>4. \A n : ToRead(w, e, steps, n) = ToRead(w, o, steps, n)
  BY <1>2 DEF ToRead
<1>5. \A n : Setting(e, steps, n) = Setting(o, steps, n)
  BY <1>3 DEF Setting
<1>6. Backed(w, e, steps) = Backed(w, o, steps)
  BY DEF Backed
<1>7. Outside(w, e) = Outside(w, o) /\ \A image : Stored(w, e, image) = Stored(w, o, image)
  BY <1>1, <1>3 DEF Outside, Stored
<1>8. Main(w, e, steps) = Main(w, o, steps)
  BY <1>1, <1>2, <1>3, <1>4, <1>5, <1>7 DEF Main
<1>9. Restore(w, e, steps) = Restore(w, o, steps)
  BY <1>1, <1>2, <1>7 DEF Restore
<1>10. Observe(w, e, steps) = Observe(w, o, steps)
  BY <1>1, <1>2, <1>4, <1>7 DEF Observe
<1>11. Planned(e) = Planned(o)
  BY <1>1 DEF Planned
<1>12. Reading(w, e, steps) = Reading(w, o, steps)
  BY DEF Reading
<1>13. Accepting(w, e, steps) = Accepting(w, o, steps)
  BY <1>1, <1>5, <1>6 DEF Accepting
<1>14. Applying(w, e, steps) = Applying(w, o, steps)
  BY <1>6, <1>8, <1>9, <1>10, <1>11 DEF Applying
<1>15. Answered(w, e, steps) = Answered(w, o, steps)
  BY <1>1, <1>7 DEF Answered, Truthful
<1> QED BY <1>12, <1>13, <1>14, <1>15 DEF Fine

\* An operation that is ready goes on with its next effect.
LEMMA ReadyRuns ==
  ASSUME NEW w, NEW o, Ready(w, o)
  PROVE  Running(w, [o EXCEPT !.current = Head(o.queue), !.queue = Tail(o.queue)])
<1> DEFINE e == [o EXCEPT !.current = Head(o.queue), !.queue = Tail(o.queue)]
<1>1. /\ DOMAIN e = DOMAIN o /\ e.current = Head(o.queue) /\ e.queue = Tail(o.queue)
      /\ e.plan = o.plan /\ e.sections = o.sections /\ e.changes = o.changes
      /\ e.stage = o.stage /\ e.replies = o.replies /\ e.capture = o.capture
      /\ e.attempted = o.attempted /\ e.outcome = o.outcome
  BY DEF Ready, IsOperation, Fields
<1> HIDE DEF e
<1>2. IsSeq(e.queue) /\ <<e.current>> \o e.queue = o.queue
  BY <1>1, TailFacts DEF Ready
<1>3. Fine(w, e, o.queue)
  BY <1>1, SameFine DEF Ready
<1>4. Running(w, e)
  BY <1>1, <1>2, <1>3 DEF Running, Ready, IsOperation
<1> QED BY <1>4 DEF e

\* A truthful answer may be given.
LEMMA CompleteReady ==
  ASSUME NEW w, NEW o, NEW outcome, IsOperation(o), Truthful(w, o, outcome)
  PROVE  Ready(w, Complete(o, outcome))
<1> DEFINE e == Complete(o, outcome)
<1>1. /\ DOMAIN e = DOMAIN o /\ e.plan = "terminal" /\ e.outcome = outcome
      /\ e.queue = <<Step("complete", <<>>, outcome)>>
      /\ e.sections = o.sections /\ e.changes = o.changes /\ e.capture = o.capture
  BY DEF Complete, IsOperation, Fields
<1> HIDE DEF e
<1>2. Section(e) = Section(o) /\ Covered(e) = Covered(o)
  BY <1>1 DEF Section, Covered
<1>3. \A image : Stored(w, e, image) = Stored(w, o, image)
  BY <1>1, <1>2 DEF Stored, Image
<1>4. Truthful(w, e, outcome)
  BY <1>1, <1>2, <1>3 DEF Truthful
<1>5. IsSeq(e.queue) /\ e.queue # <<>>
  BY <1>1, OneIsSeq
<1>6. Fine(w, e, e.queue)
  BY <1>1, <1>4, <1>5 DEF Fine, Answered
<1>7. Ready(w, e)
  BY <1>1, <1>5, <1>6 DEF Ready, IsOperation
<1> QED BY <1>7 DEF e

\* What a read changes of an operation.
LEMMA BeginReadFields ==
  ASSUME NEW o, NEW section, IsOperation(o), IsSeq(o.queue)
  PROVE  LET e == BeginRead(o, section)
         IN /\ IsOperation(e) /\ e.plan = o.plan /\ e.sections = o.sections
            /\ e.changes = o.changes /\ e.stage = o.stage /\ e.capture = o.capture
            /\ e.attempted = o.attempted /\ e.outcome = o.outcome /\ e.replies = <<>>
            /\ \E first : /\ IsSeq(first) /\ first # <<>> /\ e.queue = o.queue \o Exchanges(first)
                          /\ section[1] = "keymap" => first = <<Identity>>
                          /\ section[1] \in {"macro", "settings"} => first = Places(section)
<1> DEFINE e == BeginRead(o, section)
           first == CASE section[1] = "keymap" -> <<Identity>>
                      [] section[1] = "picture" /\ Len(o.sections) = 1 -> << <<"lighting", 0>> >>
                      [] OTHER -> Places(section)
<1>1. e = [o EXCEPT !.replies = <<>>, !.queue = o.queue \o Exchanges(first)]
  BY DEF BeginRead
<1>2. /\ section[1] = "keymap" => first = <<Identity>>
      /\ section[1] \in {"macro", "settings"} => first = Places(section)
      /\ first \in {<<Identity>>, << <<"lighting", 0>> >>, Places(section)}
  <2>1. section[1] = "keymap" => first = <<Identity>>
    OBVIOUS
  <2>2. section[1] \in {"macro", "settings"} => first = Places(section)
    OBVIOUS
  <2>3. CASE section[1] = "keymap"
    BY <2>1, <2>3, <2>2
  <2>4. CASE section[1] = "picture" /\ Len(o.sections) = 1
    BY <2>4
  <2>5. CASE section[1] # "keymap" /\ ~(section[1] = "picture" /\ Len(o.sections) = 1)
    BY <2>5
  <2> QED BY <2>3, <2>4, <2>5
<1>3. IsSeq(first) /\ first # <<>>
  <2>1. IsSeq(<<Identity>>) /\ <<Identity>> # <<>>
    BY OneIsSeq
  <2>2. IsSeq(<< <<"lighting", 0>> >>) /\ << <<"lighting", 0>> >> # <<>>
    BY OneIsSeq
  <2> HIDE DEF first
  <2> QED BY <1>2, <2>1, <2>2, PlacesFacts
<1> HIDE DEF first
<1>4. /\ DOMAIN e = DOMAIN o /\ e.plan = o.plan /\ e.sections = o.sections
      /\ e.changes = o.changes /\ e.stage = o.stage /\ e.capture = o.capture
      /\ e.attempted = o.attempted /\ e.outcome = o.outcome /\ e.replies = <<>>
      /\ e.queue = o.queue \o Exchanges(first)
  <2> HIDE DEF e
  <2> QED BY <1>1 DEF IsOperation, Fields
<1> HIDE DEF e
<1>5. IsOperation(e)
  BY <1>4 DEF IsOperation
<1>6. \E x : /\ IsSeq(x) /\ x # <<>> /\ e.queue = o.queue \o Exchanges(x)
             /\ section[1] = "keymap" => x = <<Identity>>
             /\ section[1] \in {"macro", "settings"} => x = Places(section)
  BY <1>2, <1>3, <1>4
<1>7. /\ IsOperation(e) /\ e.plan = o.plan /\ e.sections = o.sections
      /\ e.changes = o.changes /\ e.stage = o.stage /\ e.capture = o.capture
      /\ e.attempted = o.attempted /\ e.outcome = o.outcome /\ e.replies = <<>>
  BY <1>4, <1>5
<1> QED BY <1>6, <1>7 DEF e

\* The read of a save's section, behind the effects already queued.
LEMMA ReadBegins ==
  ASSUME NEW w, NEW o, IsOperation(o), IsSeq(o.queue),
         Section(o) \in Sections, Section(o)[1] \in ReadBack
  PROVE  LET e == BeginRead(o, Section(o))
         IN /\ IsSeq(e.queue) /\ e.queue # <<>> /\ e.replies = <<>>
            /\ Len(o.queue) \in 0..Len(e.queue)
            /\ \A j \in 1..Len(o.queue) : e.queue[j] = o.queue[j]
            /\ ToRead(w, e, e.queue, Len(o.queue))
<1> DEFINE e == BeginRead(o, Section(o))
           q == o.queue
<1>1. PICK first : /\ IsSeq(first) /\ first # <<>> /\ e.queue = q \o Exchanges(first)
                   /\ Section(o)[1] = "keymap" => first = <<Identity>>
                   /\ Section(o)[1] \in {"macro", "settings"} => first = Places(Section(o))
  BY BeginReadFields
<1>2. e.replies = <<>> /\ e.sections = o.sections /\ IsOperation(e)
  BY BeginReadFields
<1> HIDE DEF e
<1>3. Section(e) = Section(o)
  BY <1>2 DEF Section
<1>4. Asked(e) = first
  <2>1. Section(o)[1] # "keymap" => Section(o)[1] \in {"macro", "settings"}
    BY DEF ReadBack
  <2> QED BY <1>1, <1>2, <1>3, <2>1, AskedFacts
<1> DEFINE x == Exchanges(first)
<1>5. /\ IsSeq(x) /\ Len(x) = Len(first)
      /\ \A i \in 1..Len(first) : x[i].kind = "exchange" /\ x[i].place = first[i]
  BY <1>1, ExchangesFacts
<1> HIDE DEF x
<1>6. Len(first) \in Nat /\ Len(first) # 0 /\ Len(q) \in Nat
  BY <1>1, SeqFacts
<1>7. /\ IsSeq(e.queue) /\ Len(e.queue) = Len(q) + Len(x)
      /\ \A j \in 1..Len(q) : e.queue[j] = q[j]
      /\ \A j \in 1..Len(x) : e.queue[Len(q) + j] = x[j]
  <2>1. e.queue = q \o x
    BY <1>1 DEF x
  <2> HIDE DEF q
  <2>2. IsSeq(q)
    BY DEF q
  <2>3. /\ IsSeq(q \o x) /\ Len(q \o x) = Len(q) + Len(x)
        /\ \A j \in 1..Len(q) : (q \o x)[j] = q[j]
        /\ \A j \in 1..Len(x) : (q \o x)[Len(q) + j] = x[j]
    <3>1. IsSeq(x)
      BY <1>5
    <3> QED BY <2>2, <3>1, Joined
  <2> QED BY <2>1, <2>3
<1>8. e.queue # <<>>
  BY <1>5, <1>6, <1>7, SeqFacts
<1>9. IsSeq(e.replies) /\ Len(e.replies) = 0 /\ DOMAIN e.replies = {}
  BY <1>2, EmptyIsSeq, SeqFacts
<1>10. ASSUME NEW j \in 1..Len(e.queue), Len(q) < j
       PROVE  /\ e.queue[j].kind = "exchange"
              /\ e.queue[j].place = Asked(e)[Len(e.replies) + j - Len(q)]
  <2>1. j - Len(q) \in 1..Len(x) /\ j = Len(q) + (j - Len(q)) /\ Len(e.replies) + j - Len(q) = j - Len(q)
    BY <1>5, <1>6, <1>7, <1>9, <1>10
  <2>2. e.queue[j] = x[j - Len(q)]
    BY <1>7, <2>1
  <2> QED BY <1>4, <1>5, <2>1, <2>2
<1>11. ToRead(w, e, e.queue, Len(q))
  <2>1. Honest(w, e.replies)
    BY <1>9 DEF Honest
  <2>2. Len(e.replies) + Len(e.queue) = Len(q) + Len(Asked(e))
    BY <1>4, <1>5, <1>6, <1>7, <1>9
  <2>3. \A i \in 1..Len(e.replies) : e.replies[i][1] = Asked(e)[i]
    BY <1>9
  <2> QED BY <1>9, <1>10, <2>1, <2>2, <2>3 DEF ToRead
<1>12. Len(q) \in 0..Len(e.queue)
  BY <1>5, <1>6, <1>7
<1> QED BY <1>2, <1>7, <1>8, <1>11, <1>12 DEF e

-----------------------------------------------------------------------------
(* What a read that came in whole says of the keyboard. *)

\* Nothing is asked for, or set, by no effects.
LEMMA NothingLeft == Len(<<>>) = 0 /\ IsSeq(<<>>) /\ \A place : ~Pending(<<>>, place)
BY EmptyIsSeq DEF Pending

\* When no request is left every reply came.
LEMMA ReadIsWhole ==
  ASSUME NEW w, NEW o, Section(o) \in Sections, Section(o)[1] \in ReadBack, ToRead(w, o, <<>>, 0)
  PROVE  Whole(o) /\ o.replies # <<>>
<1>1. IsSeq(o.replies) /\ IsSeq(Asked(o)) /\ IsSeq(<<Identity>>) /\ Len(<<Identity>>) = 1
  BY AskedFacts, OneIsSeq DEF ToRead
<1>2. Len(o.replies) = Len(Asked(o))
  BY <1>1, NothingLeft, SeqFacts DEF ToRead
<1>3. \A i \in 1..Len(o.replies) : o.replies[i][1] = Asked(o)[i]
  BY DEF ToRead
<1>4. [i \in DOMAIN o.replies |-> o.replies[i][1]] = Asked(o)
  <2>1. DOMAIN o.replies = 1..Len(o.replies) /\ Asked(o) = [i \in 1..Len(Asked(o)) |-> Asked(o)[i]]
    BY <1>1, SeqFacts
  <2> QED BY <1>2, <1>3, <2>1
<1>5. ASSUME o.replies = <<>> PROVE FALSE
  <2>1. Len(Asked(o)) = 0
    BY <1>2, <1>5, NothingLeft
  <2>2. Section(o)[1] # "keymap"
    BY <1>1, <1>5, <2>1, AskedFacts
  <2>3. Asked(o) # <<>>
    BY <2>2, AskedFacts, PlacesFacts
  <2> QED BY <1>1, <2>1, <2>3, SeqFacts
<1> QED BY <1>4, <1>5 DEF Whole

\* A whole reading has a reply for each place, and the other way round.
LEMMA WholeReads ==
  ASSUME NEW o, Section(o) \in Sections, Section(o)[1] \in ReadBack,
         IsSeq(o.replies), Whole(o), FirstProfile(o)
  PROVE  /\ \A place \in Covered(o) : \E i \in DOMAIN o.replies : o.replies[i][1] = place
         /\ \A i \in DOMAIN o.replies : o.replies[i][1] \in {Identity} \cup Covered(o)
<1>1. /\ DOMAIN o.replies = DOMAIN Asked(o)
      /\ \A i \in DOMAIN o.replies : o.replies[i][1] = Asked(o)[i]
  <2>1. Asked(o) = [i \in DOMAIN o.replies |-> o.replies[i][1]]
    BY DEF Whole
  <2> QED BY <2>1
<1>2. CASE Section(o)[1] # "keymap"
  <2>1. Asked(o) = Places(Section(o))
    BY <1>2, AskedFacts
  <2> QED BY <1>1, <2>1 DEF Covered, ToSet
<1>3. CASE Section(o)[1] = "keymap"
  <2> DEFINE p == o.replies[1][2]
             keys == KeyPlaces(p)
  <2>1. o.replies # <<>>
    <3> SUFFICES ASSUME o.replies = <<>> PROVE FALSE
      OBVIOUS
    <3>1. Asked(o) = <<Identity>>
      BY <1>3, AskedFacts
    <3>2. DOMAIN o.replies = {}
      BY EmptyIsSeq, SeqFacts
    <3>3. 1 \in DOMAIN Asked(o)
      BY <3>1, OneIsSeq, SeqFacts
    <3> QED BY <1>1, <3>2, <3>3
  <2>2. Asked(o) = <<Identity>> \o keys
    BY <1>3, <2>1, AskedFacts
  <2>3. IsSeq(keys) /\ Len(keys) \in Nat /\ DOMAIN keys = 1..Len(keys)
    BY KeyPlacesFacts, SeqFacts
  <2>4. IsSeq(<<Identity>>) /\ Len(<<Identity>>) = 1 /\ <<Identity>>[1] = Identity
    BY OneIsSeq
  <2> HIDE DEF keys
  <2>5. /\ IsSeq(Asked(o)) /\ Len(Asked(o)) = 1 + Len(keys)
        /\ Asked(o)[1] = Identity
        /\ \A i \in 1..Len(keys) : Asked(o)[1 + i] = keys[i]
    BY <2>2, <2>3, <2>4, Joined
  <2>6. DOMAIN Asked(o) = 1..1 + Len(keys)
    BY <2>5, SeqFacts
  <2>7. p = "first"
    BY <1>1, <2>3, <2>5, <2>6 DEF FirstProfile
  <2>8. ToSet(keys) = Covered(o)
    BY <1>3, <2>7, CoveredFacts DEF keys
  <2>9. ASSUME NEW place \in Covered(o)
        PROVE  \E i \in DOMAIN o.replies : o.replies[i][1] = place
    <3>1. PICK i \in 1..Len(keys) : keys[i] = place
      BY <2>3, <2>8 DEF ToSet
    <3>2. 1 + i \in DOMAIN Asked(o) /\ Asked(o)[1 + i] = place
      BY <2>3, <2>5, <2>6, <3>1
    <3> QED BY <1>1, <3>2
  <2>10. ASSUME NEW i \in DOMAIN o.replies
         PROVE  o.replies[i][1] \in {Identity} \cup Covered(o)
    <3>1. i \in 1..1 + Len(keys)
      BY <1>1, <2>6
    <3>2. CASE i = 1
      BY <1>1, <2>5, <3>2
    <3>3. CASE i # 1
      <4>1. i - 1 \in 1..Len(keys) /\ 1 + (i - 1) = i
        BY <2>3, <3>1, <3>3
      <4>2. Asked(o)[i] = keys[i - 1]
        BY <2>5, <4>1
      <4>3. keys[i - 1] \in Covered(o)
        BY <2>3, <2>8, <4>1 DEF ToSet
      <4> QED BY <1>1, <4>2, <4>3
    <3> QED BY <3>2, <3>3
  <2> QED BY <2>9, <2>10
<1> QED BY <1>2, <1>3

\* A reading whose every identity is the first profile is of that profile.
LEMMA FirstIsFirst ==
  ASSUME NEW o, IsSeq(o.replies), o.replies # <<>>, FirstOnly(o) PROVE FirstProfile(o)
<1>1. 1 \in DOMAIN o.replies
  BY SeqFacts
<1> QED BY <1>1 DEF FirstOnly, FirstProfile

\* The answer of a read back is right when what is read is.
LEMMA HoldsStored ==
  ASSUME NEW w, NEW o, NEW image, Section(o) \in Sections, Section(o)[1] \in ReadBack,
         IsSeq(o.replies), Honest(w, o.replies), Holds(o, image)
  PROVE  Stored(w, o, image)
<1>1. /\ Whole(o) /\ FirstProfile(o)
      /\ \A i \in DOMAIN o.replies : o.replies[i][1] # Identity =>
           o.replies[i][2] = Image(o, image, o.replies[i][1])
  BY DEF Holds
<1>2. ASSUME NEW place \in Covered(o) PROVE w.keyboard[place] = Image(o, image, place)
  <2>1. PICK i \in DOMAIN o.replies : o.replies[i][1] = place
    BY <1>1, WholeReads
  <2>2. place # Identity
    BY CoveredFacts
  <2> QED BY <1>1, <2>1, <2>2 DEF Honest
<1> QED BY <1>2 DEF Stored

\* A whole reading of a stored image finds it.
LEMMA StoredHolds ==
  ASSUME NEW w, NEW o, NEW image, Section(o) \in Sections, Section(o)[1] \in ReadBack,
         ToRead(w, o, <<>>, 0), FirstOnly(o), Stored(w, o, image)
  PROVE  Holds(o, image)
<1>1. /\ Whole(o) /\ o.replies # <<>> /\ IsSeq(o.replies) /\ Honest(w, o.replies)
  BY ReadIsWhole DEF ToRead
<1>2. FirstProfile(o)
  BY <1>1, FirstIsFirst
<1>3. ASSUME NEW i \in DOMAIN o.replies, o.replies[i][1] # Identity
      PROVE  o.replies[i][2] = Image(o, image, o.replies[i][1])
  <2>1. o.replies[i][1] \in Covered(o)
    BY <1>1, <1>2, <1>3, WholeReads
  <2> QED BY <1>1, <1>3, <2>1 DEF Honest, Stored
<1> QED BY <1>1, <1>2, <1>3 DEF Holds

-----------------------------------------------------------------------------
(* The stages of a recovery. *)

\* A save whose original is in storage.
Kept(w, o) ==
  /\ IsOperation(o) /\ o.plan = "apply" /\ Planned(o)
  /\ w.saved /\ (~o.attempted => Untouched(w))

\* What holds of the operation in every stage does not depend on the stage.
LEMMA SameKept ==
  ASSUME NEW w, NEW o, NEW e, Kept(w, o), DOMAIN e = DOMAIN o, e.plan = o.plan,
         e.sections = o.sections, e.changes = o.changes, e.attempted = o.attempted,
         e.outcome = o.outcome
  PROVE  Kept(w, e) /\ Section(e) = Section(o) /\ Covered(e) = Covered(o)
         /\ (Outside(w, o) => Outside(w, e))
<1>1. Section(e) = Section(o) /\ Covered(e) = Covered(o)
  BY DEF Section, Covered
<1>2. Planned(e)
  BY <1>1 DEF Planned, Kept
<1>3. Kept(w, e)
  BY <1>2 DEF Kept, IsOperation
<1> QED BY <1>1, <1>3 DEF Outside

\* The setters of a restoration may be sent.
LEMMA RestoreReady ==
  ASSUME NEW w, NEW e, NEW o, NEW places, Kept(w, e), e.stage \in Restoring,
         e.queue = Writes(o, "before", places), IsSeq(places), places # <<>>,
         Section(e)[1] = "keymap" <=> e.stage # "Restore",
         Clean(w) => /\ w.faults # 0 /\ Outside(w, e)
                     /\ \A place \in Target(e) : Old(w, place) \/ place \in ToSet(places)
                     /\ \A place \in Back(e) : Old(w, place)
  PROVE  Ready(w, e)
<1> DEFINE q == e.queue
<1>1. /\ IsSeq(q) /\ Len(q) = Len(places) /\ Len(q) \in Nat /\ Len(q) # 0 /\ q # <<>>
      /\ DOMAIN places = 1..Len(q)
  BY WritesFacts, SeqFacts
<1>2. \A j \in 1..Len(q) : q[j].kind = "write" /\ q[j].place = places[j] /\ q[j].value = "old"
  <2> TAKE j \in 1..Len(q)
  <2>1. /\ q[j].kind = "write" /\ q[j].place = places[j]
        /\ q[j].value = Image(o, "before", places[j])
    BY <1>1, WritesFacts
  <2> QED BY <2>1 DEF Image
<1> HIDE DEF q
<1>3. Backed(w, e, q)
  <2>1. q[1].kind # "backup"
    BY <1>1, <1>2
  <2> QED BY <2>1 DEF Backed, Kept
<1>4. \A place : place \in ToSet(places) => Pending(q, place)
  BY <1>1, <1>2 DEF Pending, ToSet
<1>5. Restore(w, e, q)
  <2>1. \A j \in 1..Len(q) : q[j].kind = "write" /\ q[j].value = "old"
    BY <1>2
  <2>2. Clean(w) => \A place \in Target(e) : Old(w, place) \/ Pending(q, place)
    BY <1>4
  <2> QED BY <2>1, <2>2 DEF Restore
<1>6. Applying(w, e, q)
  <2>1. e.stage # "Main" /\ e.stage \notin Observing
    BY DEF Restoring, Observing
  <2> QED BY <1>3, <1>5, <2>1 DEF Applying, Kept
<1>7. Fine(w, e, q)
  BY <1>1, <1>6 DEF Fine, Kept
<1> QED BY <1>1, <1>7 DEF q, Ready, Kept

\* A reading of the recovery may be asked for.
LEMMA ObserveReady ==
  ASSUME NEW w, NEW o, Kept(w, o), o.queue = <<>>, o.stage \in Observing,
         Section(o)[1] # "keymap" => o.stage = "Verify",
         Clean(w) => /\ w.faults # 0 /\ Outside(w, o)
                     /\ \A place \in Back(o) : Old(w, place)
  PROVE  Ready(w, BeginRead(o, Section(o)))
<1> DEFINE e == BeginRead(o, Section(o))
           q == e.queue
<1>1. IsSeq(o.queue) /\ Len(o.queue) = 0 /\ IsOperation(o)
  BY EmptyIsSeq DEF Kept
<1>2. Section(o) \in Sections /\ Section(o)[1] \in ReadBack
  BY DEF Kept, Planned
<1>3. /\ IsOperation(e) /\ e.plan = o.plan /\ e.sections = o.sections
      /\ e.changes = o.changes /\ e.stage = o.stage
      /\ e.attempted = o.attempted /\ e.outcome = o.outcome /\ e.replies = <<>>
  BY <1>1, BeginReadFields
<1>4. IsSeq(q) /\ q # <<>> /\ ToRead(w, e, q, 0)
  BY <1>1, <1>2, ReadBegins
<1> HIDE DEF e
<1>5. Section(e) = Section(o) /\ Covered(e) = Covered(o)
  BY <1>3 DEF Section, Covered
<1>6. Planned(e) /\ (Outside(w, o) => Outside(w, e)) /\ Back(e) = Back(o)
  BY <1>3, <1>5 DEF Planned, Kept, Outside, Back
<1>7. FirstOnly(e)
  BY <1>3, EmptyIsSeq, SeqFacts DEF FirstOnly
<1>8. Observe(w, e, q)
  BY <1>3, <1>4, <1>5, <1>6, <1>7 DEF Observe
<1>9. Backed(w, e, q)
  <2>1. 1 \in 1..Len(q) /\ 0 < 1
    BY <1>4, SeqFacts
  <2>2. \A j \in 1..Len(q) : 0 < j => q[j].kind = "exchange"
    BY <1>4 DEF ToRead
  <2>3. q[1].kind = "exchange"
    BY <2>1, <2>2
  <2> QED BY <1>3, <2>3 DEF Backed, Kept
<1>10. Applying(w, e, q)
  <2>1. e.stage # "Main" /\ e.stage \notin Restoring
    BY <1>3 DEF Restoring, Observing
  <2> QED BY <1>3, <1>6, <1>8, <1>9, <2>1 DEF Applying
<1>11. Fine(w, e, q)
  BY <1>3, <1>4, <1>10 DEF Fine, Kept
<1> QED BY <1>3, <1>4, <1>11 DEF e, Ready

\* The writes of a stage are done: what they were for is back.
LEMMA RestoredReady ==
  ASSUME NEW w, NEW o, Kept(w, o), o.queue = <<>>, o.stage \in Restoring, Restore(w, o, <<>>)
  PROVE  Ready(w, Restored(o))
<1> DEFINE e == [o EXCEPT !.stage = IF @ = "RestoreFn" THEN "ObserveBase" ELSE "Verify"]
<1>1. /\ DOMAIN e = DOMAIN o /\ e.plan = o.plan /\ e.sections = o.sections
      /\ e.changes = o.changes /\ e.attempted = o.attempted /\ e.outcome = o.outcome
      /\ e.queue = o.queue /\ e.stage = IF o.stage = "RestoreFn" THEN "ObserveBase" ELSE "Verify"
  BY DEF Kept, IsOperation, Fields
<1>2. Restored(o) = BeginRead(e, Section(o))
  BY DEF Restored, Section
<1> HIDE DEF e
<1>3. Kept(w, e) /\ Section(e) = Section(o) /\ Covered(e) = Covered(o) /\ (Outside(w, o) => Outside(w, e))
  BY <1>1, SameKept
<1>4. e.stage \in Observing /\ (Section(e)[1] # "keymap" => e.stage = "Verify")
  BY <1>1, <1>3 DEF Observing, Restoring, Restore
<1>5. ASSUME Clean(w)
      PROVE  w.faults # 0 /\ Outside(w, e) /\ \A place \in Back(e) : Old(w, place)
  <2>1. /\ w.faults # 0 /\ Outside(w, e)
        /\ \A place \in Target(o) : Old(w, place)
        /\ \A place \in Back(o) : Old(w, place)
    <3>1. /\ w.faults # 0 /\ Outside(w, o)
          /\ \A place \in Target(o) : Old(w, place) \/ Pending(<<>>, place)
          /\ \A place \in Back(o) : Old(w, place)
      BY <1>5 DEF Restore
    <3> QED BY <1>3, <3>1, NothingLeft
  <2>2. CASE o.stage = "RestoreFn"
    <3>1. Target(o) = FunctionPlaces /\ Back(e) = FunctionPlaces
      BY <1>1, <2>2 DEF Target, Back
    <3> QED BY <2>1, <3>1
  <2>3. CASE o.stage = "RestoreBase"
    <3>1. Target(o) = BasePlaces /\ Back(o) = FunctionPlaces /\ Back(e) = Covered(e)
      BY <1>1, <2>3 DEF Target, Back
    <3>2. Covered(o) = BasePlaces \cup FunctionPlaces
      BY <2>3, CoveredFacts DEF Restore, Kept, Planned
    <3> QED BY <1>3, <2>1, <3>1, <3>2
  <2>4. CASE o.stage = "Restore"
    <3>1. Target(o) = Covered(o) /\ Back(e) = Covered(e)
      BY <1>1, <2>4 DEF Target, Back
    <3> QED BY <1>3, <2>1, <3>1
  <2> QED BY <2>2, <2>3, <2>4 DEF Restoring
<1>6. Ready(w, BeginRead(e, Section(e)))
  BY <1>1, <1>3, <1>4, <1>5, ObserveReady
<1> QED BY <1>2, <1>3, <1>6

\* A macro's setters write all of it, those of the settings what changed.
LEMMA SettersAreSeq ==
  ASSUME NEW o PROVE IsSeq(Setters(o))
<1> DEFINE places == Places(Section(o))
           changed == {i \in DOMAIN places : places[i] \in o.changes}
<1>1. IsSeq(places) /\ IsSeq(InOrder(places, changed))
  BY PlacesFacts, InOrderFacts
<1> QED BY <1>1 DEF Setters, Section

\* The setters of a save reach every place it changes.
LEMMA SettersFacts ==
  ASSUME NEW o, Planned(o)
  PROVE  /\ IsSeq(Setters(o))
         /\ Setters(o) # <<>> /\ \A place \in o.changes : place \in ToSet(Setters(o))
<1> DEFINE places == Places(Section(o))
           chosen == {i \in DOMAIN places : places[i] \in o.changes}
           changed == InOrder(places, chosen)
<1>1. IsSeq(places) /\ DOMAIN places = 1..Len(places)
  BY PlacesFacts, SeqFacts
<1>2. IsSeq(changed) /\ \A place \in o.changes : place \in ToSet(changed)
  <2>1. /\ IsSeq(changed)
        /\ \A i \in DOMAIN places : places[i] \in o.changes =>
             \E k \in 1..Len(changed) : changed[k] = places[i]
    <3>1. chosen \in SUBSET DOMAIN places
      OBVIOUS
    <3>2. /\ IsSeq(changed)
          /\ \A i \in chosen : \E k \in 1..Len(changed) : changed[k] = places[i]
      BY <1>1, <3>1, InOrderFacts
    <3> QED BY <3>2
  <2>2. DOMAIN changed = 1..Len(changed)
    BY <2>1, SeqFacts
  <2>3. \A place \in o.changes : \E i \in DOMAIN places : places[i] = place
    BY DEF Planned, Covered, ToSet
  <2> HIDE DEF changed
  <2> QED BY <2>1, <2>2, <2>3 DEF ToSet
<1>3. CASE Section(o)[1] \in {"keymap", "settings"}
  <2>1. Setters(o) = changed
    BY <1>3 DEF Setters, Section
  <2>2. changed # <<>>
    <3> SUFFICES ASSUME changed = <<>> PROVE FALSE
      OBVIOUS
    <3>1. DOMAIN changed = {}
      BY EmptyIsSeq, SeqFacts
    <3> QED BY <1>2, <3>1 DEF Planned, ToSet
  <2> QED BY <1>2, <2>1, <2>2
<1>4. CASE Section(o)[1] \notin {"keymap", "settings"}
  <2>1. Setters(o) = places
    BY <1>4 DEF Setters, Section
  <2> QED BY <1>1, <1>4, <2>1, PlacesFacts DEF Planned, Covered
<1> QED BY <1>3, <1>4

\* A recovery may begin once something went wrong.
LEMMA RecoveryReady ==
  ASSUME NEW w, NEW o, Kept(w, o), Clean(w) => w.faults # 0 /\ Outside(w, o)
  PROVE  Ready(w, BeginRecovery(o))
<1>1. CASE Section(o)[1] = "keymap"
  <2> DEFINE e == [o EXCEPT !.queue = <<>>, !.stage = "ObserveFn"]
  <2>1. /\ DOMAIN e = DOMAIN o /\ e.plan = o.plan /\ e.sections = o.sections
        /\ e.changes = o.changes /\ e.attempted = o.attempted /\ e.outcome = o.outcome
        /\ e.queue = <<>> /\ e.stage = "ObserveFn"
    BY DEF Kept, IsOperation, Fields
  <2>2. BeginRecovery(o) = BeginRead(e, Section(o))
    BY <1>1 DEF BeginRecovery, Section
  <2> HIDE DEF e
  <2>3. Kept(w, e) /\ Section(e) = Section(o) /\ (Outside(w, o) => Outside(w, e))
    BY <2>1, SameKept
  <2>4. Back(e) = {} /\ e.stage \in Observing
    BY <2>1 DEF Back, Observing
  <2>5. Ready(w, BeginRead(e, Section(e)))
    BY <1>1, <2>1, <2>3, <2>4, ObserveReady
  <2> QED BY <2>2, <2>3, <2>5
<1>2. CASE Section(o)[1] # "keymap"
  <2> DEFINE e == [o EXCEPT !.stage = "Restore", !.queue = Writes(o, "before", Setters(o))]
  <2>1. /\ DOMAIN e = DOMAIN o /\ e.plan = o.plan /\ e.sections = o.sections
        /\ e.changes = o.changes /\ e.attempted = o.attempted /\ e.outcome = o.outcome
        /\ e.queue = Writes(o, "before", Setters(o)) /\ e.stage = "Restore"
    BY DEF Kept, IsOperation, Fields
  <2>2. BeginRecovery(o) = e
    BY <1>2 DEF BeginRecovery, Section
  <2> HIDE DEF e
  <2>3. /\ Kept(w, e) /\ Section(e) = Section(o) /\ Covered(e) = Covered(o)
        /\ (Outside(w, o) => Outside(w, e))
    BY <2>1, SameKept
  <2>4. Target(e) = Covered(o) /\ Back(e) = {} /\ e.stage \in Restoring
    BY <2>1, <2>3 DEF Target, Back, Restoring
  <2>5. /\ IsSeq(Setters(o)) /\ Setters(o) # <<>>
        /\ \A place \in o.changes : place \in ToSet(Setters(o))
    BY <1>2, SettersFacts DEF Kept
  <2>6. Clean(w) => \A place \in Target(e) : Old(w, place) \/ place \in ToSet(Setters(o))
    BY <2>4, <2>5 DEF Outside
  <2>7. Ready(w, e)
    BY <1>2, <2>1, <2>3, <2>4, <2>5, <2>6, RestoreReady
  <2> QED BY <2>2, <2>7
<1> QED BY <1>1, <1>2

\* The place a key of the layer under observation stands for, and what the
\* recovery takes it to hold.
Place(o, key) == <<key, IF o.stage = "ObserveFn" THEN "all" ELSE "first">>

\* A key of the layer in question has one place.
LEMMA PlaceFacts ==
  ASSUME NEW o, Section(o) \in Sections, Section(o)[1] = "keymap", NEW key \in ToSet(Layer(o))
  PROVE  /\ Place(o, key) \in Covered(o)
         /\ \A place \in Covered(o) : place[1] = key => place = Place(o, key)
         /\ key # "identity" /\ Place(o, key)[1] = key
<1>1. Covered(o) = BasePlaces \cup FunctionPlaces
  BY CoveredFacts DEF ReadBack
<1>2. Place(o, key)[1] = key
  BY DEF Place
<1>3. CASE o.stage = "ObserveFn"
  <2>1. key \in ToSet(FunctionKeys) /\ key \notin ToSet(BaseKeys) /\ key # "identity"
    BY <1>3, PlannerAssumption DEF Layer
  <2>2. Place(o, key) = <<key, "all">>
    BY <1>3 DEF Place
  <2>3. \A place \in BasePlaces : place[1] # key
    BY <2>1 DEF BasePlaces
  <2>4. \A place \in FunctionPlaces : place[1] = key => place = <<key, "all">>
    BY DEF FunctionPlaces
  <2>5. <<key, "all">> \in FunctionPlaces
    BY <2>1 DEF FunctionPlaces
  <2> QED BY <1>1, <1>2, <2>1, <2>2, <2>3, <2>4, <2>5
<1>4. CASE o.stage # "ObserveFn"
  <2>1. key \in ToSet(BaseKeys) /\ key \notin ToSet(FunctionKeys) /\ key # "identity"
    BY <1>4, PlannerAssumption DEF Layer
  <2>2. Place(o, key) = <<key, "first">>
    BY <1>4 DEF Place
  <2>3. \A place \in FunctionPlaces : place[1] # key
    BY <2>1 DEF FunctionPlaces
  <2>4. \A place \in BasePlaces : place[1] = key => place = <<key, "first">>
    BY DEF BasePlaces
  <2>5. <<key, "first">> \in BasePlaces
    BY <2>1 DEF BasePlaces
  <2> QED BY <1>1, <1>2, <2>1, <2>2, <2>3, <2>4, <2>5
<1> QED BY <1>3, <1>4

\* What a recovery observes of a key, or assumes where it cannot, is safe to act
\* on: a key observed as it was is as it was.
LEMMA ObservedIsSo ==
  ASSUME NEW w, NEW o, Kept(w, o), Section(o)[1] = "keymap", NEW key \in ToSet(Layer(o)),
         IsSeq(o.replies), Honest(w, o.replies), FirstOnly(o)
  PROVE  Whole(o) => Observed(o, key) = w.keyboard[Place(o, key)]
<1>1. Section(o) \in Sections /\ Section(o)[1] \in ReadBack
  BY DEF Kept, Planned
<1> HAVE Whole(o)
<1>2. o.replies # <<>>
  <2> SUFFICES ASSUME o.replies = <<>> PROVE FALSE
    OBVIOUS
  <2>1. Asked(o) = <<Identity>>
    BY <1>1, AskedFacts
  <2>2. DOMAIN o.replies = {}
    BY EmptyIsSeq, SeqFacts
  <2>3. 1 \in DOMAIN Asked(o)
    BY <2>1, OneIsSeq, SeqFacts
  <2>4. DOMAIN o.replies = DOMAIN Asked(o)
    <3>1. Asked(o) = [i \in DOMAIN o.replies |-> o.replies[i][1]]
      BY DEF Whole
    <3> QED BY <3>1
  <2> QED BY <2>2, <2>3, <2>4
<1>3. FirstProfile(o)
  BY <1>2, FirstIsFirst
<1> DEFINE i == CHOOSE i \in DOMAIN o.replies : o.replies[i][1][1] = key
<1>4. \E j \in DOMAIN o.replies : o.replies[j][1] = Place(o, key)
  BY <1>1, <1>3, PlaceFacts, WholeReads
<1>5. i \in DOMAIN o.replies /\ o.replies[i][1][1] = key
  BY <1>1, <1>4, PlaceFacts
<1>6. Observed(o, key) = o.replies[i][2]
  BY DEF Observed
<1> HIDE DEF i
<1>7. o.replies[i][1] \in {Identity} \cup Covered(o)
  BY <1>1, <1>3, <1>5, WholeReads
<1>8. o.replies[i][1] = Place(o, key) /\ o.replies[i][1] # Identity
  BY <1>1, <1>5, <1>7, PlaceFacts DEF Identity
<1> QED BY <1>5, <1>6, <1>8 DEF Honest

\* A key taken to be as it was is so, and a reserved key is taken to be so.
LEMMA ObservedOld ==
  ASSUME NEW w, NEW o, Kept(w, o), Section(o)[1] = "keymap",
         IsSeq(o.replies), Honest(w, o.replies), FirstOnly(o), Outside(w, o)
  PROVE  /\ \A key \in ToSet(Layer(o)) : Observed(o, key) = "old" => Old(w, Place(o, key))
         /\ Restorable(o)
<1>1. Section(o) \in Sections /\ Section(o)[1] \in ReadBack
  BY DEF Kept, Planned
<1>2. ASSUME NEW key \in ToSet(Layer(o)), Observed(o, key) = "old" PROVE Old(w, Place(o, key))
  <2>1. CASE Whole(o)
    BY <1>2, <2>1, ObservedIsSo DEF Old
  <2>2. CASE ~Whole(o)
    <3>1. ~ \E place \in o.changes : place[1] = key
      BY <1>2, <2>2 DEF Observed
    <3>2. Place(o, key) \in Covered(o) \ o.changes
      BY <1>1, <3>1, PlaceFacts
    <3> QED BY <3>2 DEF Outside
  <2> QED BY <2>1, <2>2
<1>3. ASSUME NEW key \in ToSet(Layer(o)), key \in ReservedKeys PROVE Observed(o, key) = "old"
  <2>1. Place(o, key) \in Reserved
    <3>1. Place(o, key) \in ToSet(KeyPlaces("first")) /\ Place(o, key)[1] = key
      BY <1>1, PlaceFacts, CoveredFacts
    <3> QED BY <1>3, <3>1 DEF Reserved
  <2>2. o.changes \cap Reserved = {} /\ o.changes \subseteq Covered(o)
    BY DEF Kept, Planned
  <2>3. CASE Whole(o)
    <3>1. Old(w, Place(o, key))
      BY <1>1, <2>1, <2>2, PlaceFacts DEF Outside
    <3> QED BY <2>3, <3>1, ObservedIsSo DEF Old
  <2>4. CASE ~Whole(o)
    <3>1. ASSUME NEW place \in o.changes, place[1] = key PROVE FALSE
      BY <1>1, <2>1, <2>2, <3>1, PlaceFacts
    <3> QED BY <2>4, <3>1 DEF Observed
  <2> QED BY <2>3, <2>4
<1> QED BY <1>2, <1>3 DEF Restorable

\* The differences seen are what is written back.
LEMMA SlotsFacts ==
  ASSUME NEW o, o.stage \in {"ObserveFn", "ObserveBase"}
  PROVE  /\ IsSeq(SlotsToRestore(o))
         /\ \A key \in ToSet(Layer(o)) : Observed(o, key) # "old" =>
              Place(o, key) \in ToSet(SlotsToRestore(o))
<1> DEFINE chosen == {i \in DOMAIN Layer(o) : Observed(o, Layer(o)[i]) # "old"}
           differs == InOrder(Layer(o), chosen)
           slots == SlotsToRestore(o)
<1>1. IsSeq(Layer(o)) /\ DOMAIN Layer(o) = 1..Len(Layer(o))
  BY PlannerAssumption, SeqIsSeq, SeqFacts DEF Layer
<1>2. /\ IsSeq(differs)
      /\ \A i \in chosen : \E k \in 1..Len(differs) : differs[k] = Layer(o)[i]
  <2>1. chosen \in SUBSET DOMAIN Layer(o)
    OBVIOUS
  <2> HIDE DEF chosen
  <2> QED BY <1>1, <2>1, InOrderFacts
<1>3. slots = [i \in DOMAIN differs |-> Place(o, differs[i])]
  BY DEF SlotsToRestore, Place
<1> HIDE DEF differs, slots
<1>4. DOMAIN slots = DOMAIN differs /\ slots = [i \in DOMAIN slots |-> slots[i]]
  BY <1>3
<1>5. IsSeq(slots) /\ DOMAIN differs = 1..Len(differs)
  BY <1>2, <1>4, Mapped, SeqFacts
<1>6. ASSUME NEW key \in ToSet(Layer(o)), Observed(o, key) # "old"
      PROVE  Place(o, key) \in ToSet(slots)
  <2>1. PICK i \in DOMAIN Layer(o) : Layer(o)[i] = key
    BY DEF ToSet
  <2>2. i \in chosen
    BY <1>6, <2>1
  <2> HIDE DEF chosen
  <2>3. PICK k \in 1..Len(differs) : differs[k] = key
    BY <1>2, <2>1, <2>2
  <2>4. k \in DOMAIN slots /\ slots[k] = Place(o, key)
    BY <1>3, <1>4, <1>5, <2>3
  <2> QED BY <2>4 DEF ToSet
<1> QED BY <1>5, <1>6 DEF slots

\* A recovery that has observed a layer goes on to restore it.
LEMMA ObservationReady ==
  ASSUME NEW w, NEW o, Kept(w, o), o.queue = <<>>, Section(o)[1] = "keymap",
         o.stage \in {"ObserveFn", "ObserveBase"}, IsSeq(o.replies), Honest(w, o.replies),
         Clean(w) => /\ w.faults # 0 /\ FirstOnly(o) /\ Outside(w, o)
                     /\ \A place \in Back(o) : Old(w, place)
  PROVE  Ready(w, ObservationDone(o))
<1>1. CASE ~Restorable(o)
  <2>1. ~Clean(w)
    BY <1>1, ObservedOld
  <2>2. Truthful(w, o, "Unverified")
    BY <2>1 DEF Truthful, Kept
  <2>3. Ready(w, Complete(o, "Unverified"))
    BY <2>2, CompleteReady DEF Kept
  <2> QED BY <1>1, <2>3 DEF ObservationDone
<1>2. CASE Restorable(o)
  <2> DEFINE slots == SlotsToRestore(o)
             q == Writes(o, "before", slots)
             e == [o EXCEPT !.stage = IF @ = "ObserveFn" THEN "RestoreFn" ELSE "RestoreBase",
                            !.queue = q]
  <2>1. /\ DOMAIN e = DOMAIN o /\ e.plan = o.plan /\ e.sections = o.sections
        /\ e.changes = o.changes /\ e.attempted = o.attempted /\ e.outcome = o.outcome
        /\ e.queue = q /\ e.stage = IF o.stage = "ObserveFn" THEN "RestoreFn" ELSE "RestoreBase"
    <3> HIDE DEF q
    <3> QED BY DEF Kept, IsOperation, Fields
  <2>2. ObservationDone(o) = IF e.queue = <<>> THEN Restored(e) ELSE e
    BY <1>2 DEF ObservationDone
  <2> HIDE DEF e
  <2>3. /\ Kept(w, e) /\ Section(e) = Section(o) /\ Covered(e) = Covered(o)
        /\ (Outside(w, o) => Outside(w, e))
    BY <2>1, SameKept
  <2>4. IsSeq(slots) /\ \A key \in ToSet(Layer(o)) : Observed(o, key) # "old" =>
                                Place(o, key) \in ToSet(slots)
    BY SlotsFacts
  <2> HIDE DEF slots
  <2>5. e.stage \in Restoring /\ (Section(e)[1] = "keymap" <=> e.stage # "Restore")
    BY <2>1, <2>3 DEF Restoring
  <2>6. Target(e) = {Place(o, key) : key \in ToSet(Layer(o))} /\ Back(e) = Back(o)
    BY <2>1 DEF Target, Back, Layer, Place, FunctionPlaces, BasePlaces
  <2>7. ASSUME Clean(w)
        PROVE  /\ w.faults # 0 /\ Outside(w, e)
               /\ \A place \in Target(e) : Old(w, place) \/ place \in ToSet(slots)
               /\ \A place \in Back(e) : Old(w, place)
    <3>1. ASSUME NEW key \in ToSet(Layer(o))
          PROVE  Old(w, Place(o, key)) \/ Place(o, key) \in ToSet(slots)
      BY <2>4, <2>7, ObservedOld
    <3>2. \A place \in Target(e) : Old(w, place) \/ place \in ToSet(slots)
      BY <2>6, <3>1
    <3> QED BY <2>3, <2>6, <2>7, <3>2
  <2>8. IsSeq(q) /\ Len(q) = Len(slots)
    BY <2>4, WritesFacts
  <2>9. CASE q = <<>>
    <3>1. \A place : place \notin ToSet(slots)
      <4>1. DOMAIN slots = {}
        BY <2>4, <2>8, <2>9, EmptyIsSeq, SeqFacts
      <4> QED BY <4>1 DEF ToSet
    <3>2. Restore(w, e, <<>>)
      BY <2>5, <2>7, <3>1, NothingLeft DEF Restore
    <3>3. Ready(w, Restored(e))
      BY <2>1, <2>3, <2>5, <2>9, <3>2, RestoredReady
    <3> QED BY <2>1, <2>2, <2>9, <3>3
  <2>10. CASE q # <<>>
    <3>1. slots # <<>>
      BY <2>4, <2>8, <2>10, SeqFacts
    <3>2. Ready(w, e)
      BY <2>1, <2>3, <2>4, <2>5, <2>7, <3>1, RestoreReady
    <3> QED BY <2>1, <2>2, <2>10, <3>2
  <2> QED BY <2>9, <2>10
<1> QED BY <1>1, <1>2

\* What a recovery reports after its last reading is so.
LEMMA VerificationReady ==
  ASSUME NEW w, NEW o, Kept(w, o), o.stage = "Verify", ToRead(w, o, <<>>, 0),
         Clean(w) => /\ FirstOnly(o) /\ \A place \in Back(o) : Old(w, place)
  PROVE  Ready(w, VerificationDone(o))
<1>1. Section(o) \in Sections /\ Section(o)[1] \in ReadBack /\ IsOperation(o)
  BY DEF Kept, Planned
<1>2. Whole(o) /\ IsSeq(o.replies) /\ Honest(w, o.replies)
  BY <1>1, ReadIsWhole DEF ToRead
<1>3. CASE Holds(o, "before")
  <2>1. Stored(w, o, "before")
    BY <1>1, <1>2, <1>3, HoldsStored
  <2>2. Truthful(w, o, "Verified")
    BY <2>1 DEF Truthful, Kept
  <2>3. VerificationDone(o) = Complete(o, "Verified")
    BY <1>2, <1>3 DEF VerificationDone
  <2> QED BY <1>1, <2>2, <2>3, CompleteReady
<1>4. CASE ~Holds(o, "before")
  <2>1. ASSUME Clean(w) PROVE FALSE
    <3>1. Back(o) = Covered(o)
      BY DEF Back
    <3>2. Stored(w, o, "before")
      BY <2>1, <3>1 DEF Stored, Image, Old
    <3> QED BY <1>1, <1>4, <2>1, <3>2, StoredHolds
  <2>2. Truthful(w, o, "Failed")
    BY <2>1 DEF Truthful, Kept
  <2>3. VerificationDone(o) = Complete(o, "Failed")
    BY <1>2, <1>4 DEF VerificationDone
  <2> QED BY <1>1, <2>2, <2>3, CompleteReady
<1> QED BY <1>3, <1>4

\* The last effect of a stage is in.
LEMMA StageReady ==
  ASSUME NEW w, NEW o, IsOperation(o), o.plan = "apply", o.queue = <<>>, Applying(w, o, <<>>)
  PROVE  Ready(w, StageDone(o))
<1>1. Kept(w, o) /\ Section(o) \in Sections /\ Section(o)[1] \in ReadBack
  BY DEF Applying, Backed, Kept, Planned
<1>2. CASE o.stage = "Main"
  <2>1. Main(w, o, <<>>)
    BY <1>2 DEF Applying
  <2>2. ToRead(w, o, <<>>, 0)
    <3>1. PICK n \in 0..Len(<<>>) : ToRead(w, o, <<>>, n)
      BY <2>1 DEF Main
    <3>2. n = 0
      BY NothingLeft
    <3> QED BY <3>1, <3>2
  <2>3. CASE Holds(o, "target")
    <3>1. Stored(w, o, "target")
      BY <1>1, <2>2, <2>3, HoldsStored DEF ToRead
    <3>2. Truthful(w, o, "Ok")
      BY <1>1, <3>1 DEF Truthful, Kept
    <3>3. StageDone(o) = Complete(o, "Ok")
      BY <1>2, <2>3 DEF StageDone
    <3> QED BY <3>2, <3>3, CompleteReady
  <2>4. CASE ~Holds(o, "target")
    <3>1. ASSUME Clean(w) PROVE w.faults # 0 /\ Outside(w, o)
      <4>1. /\ FirstOnly(o) /\ Outside(w, o)
            /\ w.faults = 0 => \A place \in Covered(o) :
                 w.keyboard[place] = Image(o, "target", place) \/ Pending(<<>>, place)
        BY <2>1, <3>1 DEF Main
      <4>2. w.faults = 0 => Stored(w, o, "target")
        BY <4>1, NothingLeft DEF Stored
      <4> QED BY <1>1, <2>2, <2>4, <4>1, <4>2, StoredHolds
    <3>2. Ready(w, BeginRecovery(o))
      BY <1>1, <3>1, RecoveryReady
    <3>3. StageDone(o) = BeginRecovery(o)
      BY <1>2, <2>4 DEF StageDone
    <3> QED BY <3>2, <3>3
  <2> QED BY <2>3, <2>4
<1>3. CASE o.stage \in {"ObserveFn", "ObserveBase"}
  <2>1. Observe(w, o, <<>>)
    BY <1>3 DEF Applying, Observing
  <2>2. StageDone(o) = ObservationDone(o)
    BY <1>3 DEF StageDone
  <2>3. Section(o)[1] = "keymap" /\ IsSeq(o.replies) /\ Honest(w, o.replies)
    BY <1>3, <2>1 DEF Observe, ToRead
  <2>4. Clean(w) => /\ w.faults # 0 /\ FirstOnly(o) /\ Outside(w, o)
                    /\ \A place \in Back(o) : Old(w, place)
    BY <2>1 DEF Observe
  <2> QED BY <1>1, <1>3, <2>2, <2>3, <2>4, ObservationReady
<1>4. CASE o.stage \in Restoring
  <2>1. Restore(w, o, <<>>)
    BY <1>4 DEF Applying
  <2>2. StageDone(o) = Restored(o)
    BY <1>4 DEF StageDone, Restoring
  <2> QED BY <1>1, <1>4, <2>1, <2>2, RestoredReady
<1>5. CASE o.stage = "Verify"
  <2>1. Observe(w, o, <<>>)
    BY <1>5 DEF Applying, Observing
  <2>2. StageDone(o) = VerificationDone(o)
    BY <1>5 DEF StageDone
  <2> QED BY <1>1, <1>5, <2>1, <2>2, VerificationReady DEF Observe
<1> QED BY <1>2, <1>3, <1>4, <1>5 DEF Applying, Restoring, Observing

\* The requests of a section that is only read.
LEMMA ReadReady ==
  ASSUME NEW w, NEW o, NEW section, IsOperation(o), o.plan \in {"read", "archive"},
         o.queue = <<>>, o.changes = {}, o.outcome = "none", Untouched(w),
         IsSeq(o.capture), \A i \in DOMAIN o.capture : Honest(w, o.capture[i])
  PROVE  Ready(w, BeginRead(o, section))
<1> DEFINE e == BeginRead(o, section)
<1>1. IsSeq(o.queue)
  BY EmptyIsSeq
<1>2. /\ IsOperation(e) /\ e.plan = o.plan /\ e.changes = o.changes
      /\ e.capture = o.capture /\ e.outcome = o.outcome /\ e.replies = <<>>
  BY <1>1, BeginReadFields
<1>3. PICK first : IsSeq(first) /\ first # <<>> /\ e.queue = o.queue \o Exchanges(first)
  BY <1>1, BeginReadFields
<1> HIDE DEF e
<1>4. /\ IsSeq(Exchanges(first)) /\ Len(Exchanges(first)) = Len(first)
      /\ \A i \in 1..Len(first) : Exchanges(first)[i].kind = "exchange"
  BY <1>3, ExchangesFacts
<1>5. e.queue = Exchanges(first)
  BY <1>3, <1>4, EmptyJoined
<1>6. IsSeq(e.queue) /\ e.queue # <<>>
  BY <1>3, <1>4, <1>5, SeqFacts
<1>7. IsSeq(e.replies) /\ Honest(w, e.replies)
  BY <1>2, EmptyIsSeq, SeqFacts DEF Honest
<1>8. Reading(w, e, e.queue)
  BY <1>2, <1>4, <1>5, <1>7 DEF Reading
<1>9. Fine(w, e, e.queue)
  BY <1>2, <1>6, <1>8 DEF Fine
<1> QED BY <1>2, <1>6, <1>9 DEF Ready, e

\* The last reply of a section is in.
LEMMA SectionReady ==
  ASSUME NEW w, NEW o, IsOperation(o), o.plan \in {"read", "archive"}, o.queue = <<>>,
         Reading(w, o, <<>>)
  PROVE  Ready(w, SectionDone(o))
<1> DEFINE read == [o EXCEPT !.capture = Append(@, o.replies), !.sections = Tail(@)]
<1>1. /\ DOMAIN read = DOMAIN o /\ read.plan = o.plan /\ read.changes = o.changes
      /\ read.outcome = o.outcome /\ read.queue = <<>> /\ read.replies = o.replies
      /\ read.capture = Append(o.capture, o.replies)
  BY DEF IsOperation, Fields
<1>2. SectionDone(o) \in {Complete(o, "ReadFailed"), Complete(read, "Read"),
                          BeginRead(read, Head(read.sections))}
  BY DEF SectionDone
<1> HIDE DEF read
<1>3. IsOperation(read) /\ IsSeq(read.queue)
  BY <1>1, EmptyIsSeq DEF IsOperation
<1>4. IsSeq(read.capture) /\ \A i \in DOMAIN read.capture : Honest(w, read.capture[i])
  <2>1. /\ IsSeq(o.capture) /\ Honest(w, o.replies)
        /\ \A i \in DOMAIN o.capture : Honest(w, o.capture[i])
    BY DEF Reading
  <2>2. /\ IsSeq(read.capture) /\ Len(read.capture) = Len(o.capture) + 1
        /\ \A i \in 1..Len(o.capture) : read.capture[i] = o.capture[i]
        /\ read.capture[Len(o.capture) + 1] = o.replies
    BY <1>1, <2>1, Appended
  <2>3. /\ DOMAIN read.capture = 1..Len(o.capture) + 1 /\ DOMAIN o.capture = 1..Len(o.capture)
        /\ Len(o.capture) \in Nat
    BY <2>1, <2>2, SeqFacts
  <2>4. ASSUME NEW i \in DOMAIN read.capture PROVE Honest(w, read.capture[i])
    <3>1. CASE i = Len(o.capture) + 1
      BY <2>1, <2>2, <3>1
    <3>2. CASE i \in 1..Len(o.capture)
      BY <2>1, <2>2, <2>3, <3>2
    <3> QED BY <2>3, <3>1, <3>2
  <2> QED BY <2>2, <2>4
<1>5. Ready(w, Complete(o, "ReadFailed"))
  <2>1. Truthful(w, o, "ReadFailed")
    BY DEF Truthful, Reading
  <2> QED BY <2>1, CompleteReady
<1>6. Ready(w, Complete(read, "Read"))
  <2>1. Truthful(w, read, "Read")
    BY <1>1, <1>4 DEF Truthful, Reading
  <2> QED BY <1>3, <2>1, CompleteReady
<1>7. Ready(w, BeginRead(read, Head(read.sections)))
  BY <1>1, <1>3, <1>4, ReadReady DEF Reading
<1> QED BY <1>2, <1>5, <1>6, <1>7

\* When the effects of a stage are done the next stage may begin.
LEMMA SequenceReady ==
  ASSUME NEW w, NEW o, IsOperation(o), o.queue = <<>>, Fine(w, o, <<>>)
  PROVE  Ready(w, SequenceDone(o))
<1>1. CASE o.plan \in {"read", "archive"}
  <2>1. SequenceDone(o) = SectionDone(o)
    BY <1>1 DEF SequenceDone
  <2> QED BY <1>1, <2>1, SectionReady DEF Fine
<1>2. CASE o.plan = "accepted"
  <2>1. SequenceDone(o) = Complete(o, "Ok")
    BY <1>2 DEF SequenceDone
  <2>2. Accepting(w, o, <<>>)
    BY <1>2 DEF Fine
  <2>3. Truthful(w, o, "Ok")
    BY <2>2 DEF Truthful, Accepting, Backed
  <2> QED BY <2>1, <2>3, CompleteReady
<1>3. CASE o.plan = "apply"
  <2>1. SequenceDone(o) = StageDone(o)
    BY <1>3 DEF SequenceDone
  <2> QED BY <1>3, <2>1, StageReady DEF Fine
<1>4. CASE o.plan = "terminal"
  <2>1. <<Step("complete", <<>>, o.outcome)>> # <<>>
    BY OneIsSeq
  <2> QED BY <1>4, <2>1 DEF Fine, Answered
<1> QED BY <1>1, <1>2, <1>3, <1>4 DEF Fine

\* An operation whose queued effects are fine goes on to the next one.
LEMMA NextFine ==
  ASSUME NEW w, NEW o, IsOperation(o), IsSeq(o.queue), Fine(w, o, o.queue)
  PROVE  Running(w, NextStep(o))
<1> DEFINE ready == IF o.queue = <<>> THEN SequenceDone(o) ELSE o
<1>1. Ready(w, ready)
  <2>1. CASE o.queue = <<>>
    BY <2>1, SequenceReady
  <2>2. CASE o.queue # <<>>
    BY <2>2 DEF Ready
  <2> QED BY <2>1, <2>2
<1>2. NextStep(o) = [ready EXCEPT !.current = Head(ready.queue), !.queue = Tail(ready.queue)]
  BY DEF NextStep
<1> HIDE DEF ready
<1>3. Running(w, [ready EXCEPT !.current = Head(ready.queue), !.queue = Tail(ready.queue)])
  BY <1>1, ReadyRuns
<1> QED BY <1>2, <1>3

-----------------------------------------------------------------------------
(* The results of an effect. *)

\* The effect in hand is the first of those that remain.
LEMMA FirstStep ==
  ASSUME NEW c, NEW q, IsSeq(q)
  PROVE  LET steps == <<c>> \o q
         IN /\ IsSeq(steps) /\ steps # <<>> /\ Len(steps) = Len(q) + 1 /\ Len(q) \in Nat
            /\ steps[1] = c /\ 1 \in 1..Len(steps)
            /\ \A j \in 1..Len(q) : steps[j + 1] = q[j] /\ j + 1 \in 1..Len(steps)
            /\ \A j \in 1..Len(steps) : j # 1 => j - 1 \in 1..Len(q) /\ steps[j] = q[j - 1]
<1> DEFINE steps == <<c>> \o q
<1>1. IsSeq(<<c>>) /\ Len(<<c>>) = 1 /\ <<c>>[1] = c
  BY OneIsSeq
<1>2. /\ IsSeq(steps) /\ Len(steps) = 1 + Len(q) /\ steps[1] = c
      /\ \A j \in 1..Len(q) : steps[1 + j] = q[j]
  <2>1. /\ IsSeq(<<c>> \o q) /\ Len(<<c>> \o q) = Len(<<c>>) + Len(q)
        /\ \A i \in 1..Len(<<c>>) : (<<c>> \o q)[i] = <<c>>[i]
        /\ \A i \in 1..Len(q) : (<<c>> \o q)[Len(<<c>>) + i] = q[i]
    BY <1>1, Joined
  <2> QED BY <1>1, <2>1
<1> HIDE DEF steps
<1>3. Len(q) \in Nat /\ steps # <<>>
  BY <1>2, SeqFacts
<1>4. \A j \in 1..Len(q) : steps[j + 1] = q[j] /\ j + 1 \in 1..Len(steps)
  <2> TAKE j \in 1..Len(q)
  <2>1. 1 + j = j + 1 /\ j + 1 \in 1..Len(steps)
    BY <1>2, <1>3
  <2> QED BY <1>2, <2>1
<1>5. \A j \in 1..Len(steps) : j # 1 => j - 1 \in 1..Len(q) /\ steps[j] = q[j - 1]
  <2> SUFFICES ASSUME NEW j \in 1..Len(steps), j # 1
               PROVE  j - 1 \in 1..Len(q) /\ steps[j] = q[j - 1]
    OBVIOUS
  <2>1. j - 1 \in 1..Len(q) /\ 1 + (j - 1) = j
    BY <1>2, <1>3
  <2> QED BY <1>2, <2>1
<1>6. Len(steps) = Len(q) + 1 /\ 1 \in 1..Len(steps)
  BY <1>2, <1>3
<1> QED BY <1>2, <1>3, <1>4, <1>5, <1>6 DEF steps

\* The plans an effect of each kind belongs to, and the setters still ahead.
LEMMA EffectKinds ==
  ASSUME NEW w, NEW o, NEW c, NEW q, IsSeq(q), Fine(w, o, <<c>> \o q)
  PROVE  /\ o.plan \in {"read", "archive"} => c.kind = "exchange"
         /\ o.plan = "accepted" => c.kind \in {"backup", "write"}
         /\ o.plan = "terminal" => c.kind = "complete"
         /\ o.plan = "apply" /\ o.stage \in Restoring => c.kind = "write"
         /\ o.plan = "apply" /\ o.stage \in Observing => c.kind = "exchange"
         /\ o.plan = "apply" => c.kind \in {"backup", "write", "exchange"}
<1> DEFINE steps == <<c>> \o q
<1>1. steps # <<>> /\ steps[1] = c /\ 1 \in 1..Len(steps) /\ Len(steps) \in Nat
  <2>1. /\ steps # <<>> /\ steps[1] = c /\ 1 \in 1..Len(steps)
        /\ Len(steps) = Len(q) + 1 /\ Len(q) \in Nat
    BY FirstStep
  <2> QED BY <2>1
<1> HIDE DEF steps
<1>2. Fine(w, o, steps)
  BY DEF steps
<1>3. o.plan \in {"read", "archive"} => c.kind = "exchange"
  BY <1>1, <1>2 DEF Fine, Reading
<1>4. o.plan = "accepted" => c.kind \in {"backup", "write"}
  BY <1>1, <1>2 DEF Fine, Accepting, Setting
<1>5. o.plan = "terminal" => c.kind = "complete"
  <2>1. o.plan = "terminal" => steps = <<Step("complete", <<>>, o.outcome)>>
    BY <1>2 DEF Fine, Answered
  <2>2. o.plan = "terminal" => c = Step("complete", <<>>, o.outcome)
    BY <1>1, <2>1, OneIsSeq
  <2> QED BY <2>2, StepFields
<1>6. o.plan = "apply" /\ o.stage \in Restoring => c.kind = "write"
  BY <1>1, <1>2 DEF Fine, Applying, Restore
<1>7. ASSUME NEW n \in Nat, ToRead(w, o, steps, n), n < 1 PROVE c.kind = "exchange"
  BY <1>1, <1>7 DEF ToRead
<1>8. o.plan = "apply" /\ o.stage \in Observing => c.kind = "exchange"
  BY <1>2, <1>7 DEF Fine, Applying, Observe
<1>9. o.plan = "apply" /\ o.stage = "Main" => c.kind \in {"backup", "write", "exchange"}
  <2> SUFFICES ASSUME o.plan = "apply", o.stage = "Main"
               PROVE  c.kind \in {"backup", "write", "exchange"}
    OBVIOUS
  <2>1. PICK n \in 0..Len(steps) : Setting(o, steps, n) /\ ToRead(w, o, steps, n)
    BY <1>2 DEF Fine, Applying, Main
  <2>2. CASE n < 1
    BY <1>7, <2>1, <2>2
  <2>3. CASE ~(n < 1)
    <3>1. 1 \in 1..n
      BY <1>1, <2>3
    <3> QED BY <1>1, <2>1, <3>1 DEF Setting
  <2> QED BY <2>2, <2>3
<1>10. o.plan = "apply" => o.stage \in {"Main"} \cup Restoring \cup Observing
  BY <1>2 DEF Fine, Applying
<1> QED BY <1>3, <1>4, <1>5, <1>6, <1>8, <1>9, <1>10

\* Nothing is promised once the profile was switched or a second effect failed.
LEMMA WorldFine ==
  ASSUME NEW w, NEW v, NEW o, NEW steps, Fine(w, o, steps), v.keyboard = w.keyboard,
         v.saved = w.saved, v.stale = w.stale, ~Clean(v)
  PROVE  Fine(v, o, steps)
<1>1. Untouched(v) = Untouched(w) /\ (\A r : Honest(v, r) = Honest(w, r))
      /\ (\A image : Stored(v, o, image) = Stored(w, o, image))
  BY DEF Untouched, Honest, Stored
<1>2. Backed(v, o, steps) = Backed(w, o, steps) /\ \A n : ToRead(v, o, steps, n) = ToRead(w, o, steps, n)
  BY <1>1 DEF Backed, ToRead
<1>3. Main(w, o, steps) => Main(v, o, steps)
  BY <1>2 DEF Main
<1>4. Restore(w, o, steps) => Restore(v, o, steps)
  BY DEF Restore
<1>5. Observe(w, o, steps) => Observe(v, o, steps)
  BY <1>2 DEF Observe
<1>6. Applying(w, o, steps) => Applying(v, o, steps)
  BY <1>2, <1>3, <1>4, <1>5 DEF Applying
<1>7. Reading(w, o, steps) => Reading(v, o, steps)
  BY <1>1 DEF Reading
<1>8. Accepting(w, o, steps) => Accepting(v, o, steps)
  BY <1>2 DEF Accepting
<1>9. Answered(w, o, steps) => Answered(v, o, steps)
  BY <1>1 DEF Answered, Truthful
<1> QED BY <1>6, <1>7, <1>8, <1>9 DEF Fine

\* The setters of a save after its first effect.
LEMMA MainGoesOn ==
  ASSUME NEW w, NEW o, NEW c, NEW q, IsSeq(q), c.kind \in {"backup", "write"},
         NEW n \in 0..Len(<<c>> \o q), n > 0 => o.replies = <<>>,
         Setting(o, <<c>> \o q, n), ToRead(w, o, <<c>> \o q, n), NEW v
  PROVE  /\ n - 1 \in 0..Len(q) /\ o.replies = <<>>
         /\ Setting(o, q, n - 1) /\ ToRead(v, o, q, n - 1)
<1> DEFINE steps == <<c>> \o q
<1>1. /\ Len(steps) = Len(q) + 1 /\ Len(q) \in Nat
      /\ steps[1] = c /\ 1 \in 1..Len(steps)
      /\ \A j \in 1..Len(q) : steps[j + 1] = q[j] /\ j + 1 \in 1..Len(steps)
  BY FirstStep
<1> HIDE DEF steps
<1>2. n \in 0..Len(steps) /\ Setting(o, steps, n) /\ ToRead(w, o, steps, n)
  BY DEF steps
<1>3. n # 0
  <2> SUFFICES ASSUME n = 0 PROVE FALSE
    OBVIOUS
  <2>1. \A j \in 1..Len(steps) : n < j => steps[j].kind = "exchange"
    BY <1>2 DEF ToRead
  <2>2. n < 1
    OBVIOUS
  <2>3. steps[1].kind = "exchange"
    BY <1>1, <2>1, <2>2
  <2> QED BY <1>1, <2>3
<1>4. n - 1 \in 0..Len(q) /\ o.replies = <<>>
  BY <1>1, <1>2, <1>3
<1>5. Setting(o, q, n - 1)
  <2> SUFFICES ASSUME NEW j \in 1..(n - 1)
               PROVE  q[j].kind = "write" /\ q[j].value = Image(o, "target", q[j].place)
    BY DEF Setting
  <2>1. j \in 1..Len(q) /\ j + 1 \in 1..n /\ j + 1 # 1
    BY <1>1, <1>2, <1>4
  <2>2. steps[j + 1] = q[j]
    BY <1>1, <2>1
  <2> QED BY <1>2, <2>1, <2>2 DEF Setting
<1>6. ToRead(v, o, q, n - 1)
  <2>1. DOMAIN o.replies = {} /\ Len(o.replies) = 0 /\ IsSeq(o.replies)
    BY <1>4, EmptyIsSeq, SeqFacts
  <2>2. Honest(v, o.replies)
    BY <2>1 DEF Honest
  <2>3. Len(o.replies) + Len(q) = n - 1 + Len(Asked(o))
    <3>1. Len(o.replies) + Len(steps) = n + Len(Asked(o))
      BY <1>2 DEF ToRead
    <3>2. Len(Asked(o)) = Len(steps) - n
      BY <1>1, <1>2, <2>1, <3>1
    <3> QED BY <1>1, <1>2, <2>1, <3>2
  <2>4. ASSUME NEW j \in 1..Len(q), n - 1 < j
        PROVE  q[j].kind = "exchange" /\ q[j].place = Asked(o)[Len(o.replies) + j - (n - 1)]
    <3>1. /\ j + 1 \in 1..Len(steps) /\ n < j + 1 /\ steps[j + 1] = q[j]
          /\ Len(o.replies) + (j + 1) - n = Len(o.replies) + j - (n - 1)
      BY <1>1, <1>2, <2>1, <2>4
    <3> QED BY <1>2, <3>1 DEF ToRead
  <2>5. \A i \in 1..Len(o.replies) : o.replies[i][1] = Asked(o)[i]
    BY <2>1
  <2> QED BY <2>1, <2>2, <2>3, <2>4, <2>5 DEF ToRead
<1> QED BY <1>4, <1>5, <1>6

\* A setter leaves a place as it was or sets it; an effect that goes wrong
\* is a fault, the second of which ends all promises.
Wrote(w, v, c) ==
  /\ v.saved = w.saved /\ v.stale = w.stale /\ (Clean(v) => Clean(w))
  /\ \A place \in AllPlaces :
       v.keyboard[place] = w.keyboard[place] \/ (place = c.place /\ v.keyboard[place] = c.value)
  /\ Clean(v) => \/ v.faults = w.faults
                    /\ (c.place \in AllPlaces => v.keyboard[c.place] = c.value)
                 \/ w.faults = 0 /\ v.faults # 0

\* A setter sets a place as the save wants it, or puts its original back.
LEMMA WriteSets ==
  ASSUME NEW w, NEW o, NEW c, NEW q, IsSeq(q), Fine(w, o, <<c>> \o q), c.kind = "write"
  PROVE  /\ o.plan \in {"accepted", "apply"} /\ Backed(w, o, <<c>> \o q) /\ w.saved
         /\ o.plan = "apply" => Planned(o) /\ o.stage \in {"Main"} \cup Restoring
         /\ o.plan = "apply" /\ o.stage = "Main" => c.value = Image(o, "target", c.place)
         /\ o.plan = "apply" /\ o.stage \in Restoring => c.value = "old"
<1> DEFINE steps == <<c>> \o q
<1>1. /\ steps # <<>> /\ steps[1] = c /\ 1 \in 1..Len(steps)
  BY FirstStep
<1> HIDE DEF steps
<1>2. Fine(w, o, steps)
  BY DEF steps
<1>3. /\ o.plan \in {"accepted", "apply"}
      /\ o.plan = "apply" => o.stage \notin Observing
  BY EffectKinds, <1>2 DEF Fine
<1>4. /\ Backed(w, o, steps)
      /\ o.plan = "apply" => Planned(o) /\ o.stage \in {"Main"} \cup Restoring
  BY <1>2, <1>3 DEF Fine, Accepting, Applying
<1>5. w.saved
  BY <1>1, <1>4 DEF Backed
<1>6. ASSUME o.plan = "apply", o.stage = "Main" PROVE c.value = Image(o, "target", c.place)
  <2>1. PICK n \in 0..Len(steps) : Setting(o, steps, n) /\ ToRead(w, o, steps, n)
    BY <1>2, <1>6 DEF Fine, Applying, Main
  <2>2. n # 0
    <3> SUFFICES ASSUME n = 0 PROVE FALSE
      OBVIOUS
    <3>1. \A j \in 1..Len(steps) : n < j => steps[j].kind = "exchange"
      BY <2>1 DEF ToRead
    <3>2. n < 1
      OBVIOUS
    <3> QED BY <1>1, <3>1, <3>2
  <2>3. 1 \in 1..n
    BY <2>2
  <2> QED BY <1>1, <2>1, <2>3 DEF Setting
<1>7. ASSUME o.plan = "apply", o.stage \in Restoring PROVE c.value = "old"
  BY <1>1, <1>2, <1>7 DEF Fine, Applying, Restore
<1> QED BY <1>3, <1>4, <1>5, <1>6, <1>7 DEF steps

\* Every place a save covers is left as it was, or set.
LEMMA WroteOutside ==
  ASSUME NEW w, NEW v, NEW o, NEW c, Planned(o), Wrote(w, v, c), Outside(w, o),
         c.value = "old" \/ c.value = Image(o, "target", c.place)
  PROVE  Outside(v, o)
<1>1. Covered(o) \subseteq AllPlaces
  BY CoveredFacts DEF Planned
<1>2. ASSUME NEW place \in Covered(o) \ o.changes PROVE Old(v, place)
  <2>1. Old(w, place)
    BY DEF Outside
  <2>2. place = c.place => c.value = "old"
    BY <1>2 DEF Image
  <2> QED BY <1>1, <2>1, <2>2 DEF Wrote, Old
<1> QED BY <1>2 DEF Outside

\* A setter that was sent is one less to send.
LEMMA WroteFine ==
  ASSUME NEW w, NEW v, NEW o, NEW c, NEW q, IsOperation(o), IsSeq(q),
         Fine(w, o, <<c>> \o q), c.kind = "write", Wrote(w, v, c)
  PROVE  Fine(v, [o EXCEPT !.attempted = TRUE], q)
<1> DEFINE steps == <<c>> \o q
           e == [o EXCEPT !.attempted = TRUE]
<1>1. /\ IsSeq(steps) /\ steps # <<>> /\ Len(steps) = Len(q) + 1 /\ Len(q) \in Nat
      /\ steps[1] = c /\ 1 \in 1..Len(steps)
      /\ \A j \in 1..Len(q) : steps[j + 1] = q[j] /\ j + 1 \in 1..Len(steps)
      /\ \A j \in 1..Len(steps) : j # 1 => j - 1 \in 1..Len(q) /\ steps[j] = q[j - 1]
  BY FirstStep
<1>2. /\ e.plan = o.plan /\ e.sections = o.sections /\ e.changes = o.changes
      /\ e.stage = o.stage /\ e.replies = o.replies /\ e.attempted = TRUE
      /\ e.outcome = o.outcome
  BY DEF IsOperation, Fields
<1>3. /\ o.plan \in {"accepted", "apply"} /\ Backed(w, o, steps) /\ w.saved
      /\ o.plan = "apply" => Planned(o) /\ o.stage \in {"Main"} \cup Restoring
      /\ o.plan = "apply" /\ o.stage = "Main" => c.value = Image(o, "target", c.place)
      /\ o.plan = "apply" /\ o.stage \in Restoring => c.value = "old"
  BY WriteSets
<1> HIDE DEF steps, e
<1> SUFFICES Fine(v, e, q)
  BY DEF e
<1>4. Section(e) = Section(o) /\ Covered(e) = Covered(o) /\ Asked(e) = Asked(o)
      /\ (Planned(o) => Planned(e)) /\ Target(e) = Target(o) /\ Back(e) = Back(o)
      /\ (Outside(v, o) => Outside(v, e)) /\ (FirstOnly(o) => FirstOnly(e))
      /\ \A place : Image(e, "target", place) = Image(o, "target", place)
  <2>1. Section(e) = Section(o) /\ Covered(e) = Covered(o) /\ Asked(e) = Asked(o)
    BY <1>2 DEF Section, Covered, Asked
  <2>2. (Planned(o) => Planned(e)) /\ Target(e) = Target(o) /\ Back(e) = Back(o)
    BY <1>2, <2>1 DEF Planned, Target, Back
  <2>3. (Outside(v, o) => Outside(v, e)) /\ (FirstOnly(o) => FirstOnly(e))
    BY <1>2, <2>1 DEF Outside, FirstOnly
  <2>4. \A place : Image(e, "target", place) = Image(o, "target", place)
    BY <1>2 DEF Image
  <2> QED BY <2>1, <2>2, <2>3, <2>4
<1>5. Fine(w, o, steps)
  BY DEF steps
<1>6. (q # <<>> => q[1].kind # "backup") => Backed(v, e, q)
  BY <1>2, <1>3 DEF Backed, Wrote
<1>7. q # <<>> => 1 \in 1..Len(q) /\ 1 + 1 \in 1..Len(steps) /\ steps[1 + 1] = q[1]
  BY <1>1, SeqFacts
<1>8. CASE o.plan = "accepted"
  <2>1. Setting(o, steps, Len(steps)) /\ Section(o)[1] \notin ReadBack /\ o.outcome = "none"
    BY <1>5, <1>8 DEF Fine, Accepting
  <2>2. \A j \in 1..Len(q) : q[j].kind = "write" /\ q[j].value = Image(e, "target", q[j].place)
    <3> TAKE j \in 1..Len(q)
    <3>1. j + 1 \in 1..Len(steps) /\ steps[j + 1] = q[j] /\ j + 1 # 1
      BY <1>1
    <3> QED BY <1>4, <2>1, <3>1 DEF Setting
  <2>3. Setting(e, q, Len(q))
    BY <2>2 DEF Setting
  <2>4. Backed(v, e, q)
    BY <1>6, <1>7, <2>2
  <2> QED BY <1>2, <1>4, <1>8, <2>1, <2>3, <2>4 DEF Fine, Accepting
<1>9. CASE o.plan = "apply" /\ o.stage = "Main"
  <2>1. Main(w, o, steps)
    BY <1>5, <1>9 DEF Fine, Applying
  <2>2. PICK n \in 0..Len(steps) :
          (n > 0 => o.replies = <<>>) /\ Setting(o, steps, n) /\ ToRead(w, o, steps, n)
    BY <2>1 DEF Main
  <2>3. n - 1 \in 0..Len(q) /\ o.replies = <<>> /\ Setting(o, q, n - 1) /\ ToRead(v, o, q, n - 1)
    BY <2>2, MainGoesOn DEF steps
  <2>4. Setting(e, q, n - 1) /\ ToRead(v, e, q, n - 1)
    BY <1>2, <1>4, <2>3 DEF Setting, ToRead
  <2>5. ASSUME Clean(v)
        PROVE  /\ FirstOnly(e) /\ Outside(v, e)
               /\ v.faults = 0 =>
                    \A place \in Covered(e) :
                      v.keyboard[place] = Image(e, "target", place) \/ Pending(q, place)
    <3>1. /\ Clean(w) /\ FirstOnly(o) /\ Outside(w, o)
          /\ w.faults = 0 =>
               \A place \in Covered(o) :
                 w.keyboard[place] = Image(o, "target", place) \/ Pending(steps, place)
      BY <2>1, <2>5 DEF Main, Wrote
    <3>2. Outside(v, o)
      BY <1>3, <1>9, <3>1, WroteOutside
    <3>3. ASSUME v.faults = 0, NEW place \in Covered(o)
          PROVE  v.keyboard[place] = Image(o, "target", place) \/ Pending(q, place)
      <4>1. place \in AllPlaces
        BY <1>3, <1>9, CoveredFacts DEF Planned
      <4>2. w.faults = 0 /\ (place = c.place => v.keyboard[place] = c.value)
        BY <2>5, <3>3, <4>1 DEF Wrote
      <4>3. CASE place = c.place
        BY <1>3, <1>9, <4>2, <4>3
      <4>4. CASE place # c.place /\ w.keyboard[place] = Image(o, "target", place)
        BY <4>1, <4>4 DEF Wrote
      <4>5. CASE place # c.place /\ Pending(steps, place)
        <5>1. PICK j \in 1..Len(steps) : steps[j].kind = "write" /\ steps[j].place = place
          BY <4>5 DEF Pending
        <5>2. j - 1 \in 1..Len(q) /\ steps[j] = q[j - 1]
          BY <1>1, <4>5, <5>1
        <5> QED BY <5>1, <5>2 DEF Pending
      <4> QED BY <3>1, <4>2, <4>3, <4>4, <4>5
    <3> QED BY <1>4, <3>1, <3>2, <3>3
  <2>6. Main(v, e, q)
    BY <1>2, <2>3, <2>4, <2>5 DEF Main
  <2>7. Backed(v, e, q)
    <3>1. ASSUME q # <<>> PROVE q[1].kind # "backup"
      <4>1. 1 \in 1..Len(q)
        BY <1>7, <3>1
      <4>2. CASE n - 1 < 1
        BY <2>3, <4>1, <4>2 DEF ToRead
      <4>3. CASE ~(n - 1 < 1)
        <5>1. 2 \in 1..n /\ 2 # 1 /\ 2 = 1 + 1
          BY <2>3, <4>3
        <5>2. steps[2].kind = "write"
          BY <2>2, <5>1 DEF Setting
        <5> QED BY <1>7, <3>1, <5>1, <5>2
      <4> QED BY <4>2, <4>3
    <3> QED BY <1>6, <3>1
  <2>8. Applying(v, e, q)
    BY <1>2, <1>3, <1>4, <1>9, <2>6, <2>7 DEF Applying, Restoring, Observing
  <2> QED BY <1>2, <1>9, <2>8 DEF Fine
<1>10. CASE o.plan = "apply" /\ o.stage \in Restoring
  <2>1. Restore(w, o, steps)
    BY <1>5, <1>10 DEF Fine, Applying
  <2>2. \A j \in 1..Len(q) : q[j].kind = "write" /\ q[j].value = "old"
    BY <1>1, <2>1 DEF Restore
  <2>3. ASSUME Clean(v)
        PROVE  /\ v.faults # 0 /\ Outside(v, e)
               /\ \A place \in Target(e) : Old(v, place) \/ Pending(q, place)
               /\ \A place \in Back(e) : Old(v, place)
    <3>1. /\ Clean(w) /\ w.faults # 0 /\ Outside(w, o)
          /\ \A place \in Target(o) : Old(w, place) \/ Pending(steps, place)
          /\ \A place \in Back(o) : Old(w, place)
      BY <2>1, <2>3 DEF Restore, Wrote
    <3>2. /\ v.faults # 0 /\ c.value = "old"
          /\ c.place \in AllPlaces => Old(v, c.place)
      BY <1>3, <1>10, <2>3, <3>1 DEF Wrote, Old
    <3>3. Outside(v, o)
      BY <1>3, <1>10, <3>1, <3>2, WroteOutside
    <3>4. \A place \in AllPlaces : Old(w, place) => Old(v, place)
      BY <3>2 DEF Wrote, Old
    <3>5. Target(o) \subseteq AllPlaces /\ Back(o) \subseteq AllPlaces
      <4>1. Covered(o) \subseteq AllPlaces
        BY <1>3, <1>10, CoveredFacts DEF Planned
      <4>2. Section(o)[1] = "keymap" => Covered(o) = BasePlaces \cup FunctionPlaces
        BY <1>3, <1>10, CoveredFacts DEF Planned
      <4>3. o.stage # "Restore" => Section(o)[1] = "keymap"
        BY <2>1 DEF Restore
      <4> QED BY <1>10, <4>1, <4>2, <4>3 DEF Target, Back, Restoring
    <3>6. ASSUME NEW place \in Target(o), ~Old(v, place) PROVE Pending(q, place)
      <4>1. Pending(steps, place) /\ place # c.place
        BY <3>1, <3>2, <3>4, <3>5, <3>6
      <4>2. PICK j \in 1..Len(steps) : steps[j].kind = "write" /\ steps[j].place = place
        BY <4>1 DEF Pending
      <4>3. j - 1 \in 1..Len(q) /\ steps[j] = q[j - 1]
        BY <1>1, <4>1, <4>2
      <4> QED BY <4>2, <4>3 DEF Pending
    <3> QED BY <1>4, <3>1, <3>2, <3>3, <3>4, <3>5, <3>6
  <2>4. Restore(v, e, q)
    BY <1>2, <1>4, <2>1, <2>2, <2>3 DEF Restore
  <2>5. Backed(v, e, q)
    BY <1>6, <1>7, <2>2
  <2>6. Applying(v, e, q)
    BY <1>2, <1>3, <1>4, <1>10, <2>4, <2>5 DEF Applying, Restoring, Observing
  <2> QED BY <1>2, <1>10, <2>6 DEF Fine
<1> QED BY <1>3, <1>8, <1>9, <1>10

\* The backup is committed before anything is set.
LEMMA BackupFine ==
  ASSUME NEW w, NEW v, NEW o, NEW c, NEW q, IsSeq(q), Fine(w, o, <<c>> \o q), c.kind = "backup",
         v.keyboard = w.keyboard, v.stale = w.stale, v.faults = w.faults, v.saved = TRUE,
         Clean(v) => Clean(w)
  PROVE  Fine(v, o, q)
<1> DEFINE steps == <<c>> \o q
<1>1. /\ steps # <<>> /\ Len(steps) = Len(q) + 1 /\ Len(q) \in Nat
      /\ steps[1] = c /\ 1 \in 1..Len(steps)
      /\ \A j \in 1..Len(q) : steps[j + 1] = q[j] /\ j + 1 \in 1..Len(steps)
      /\ \A j \in 1..Len(steps) : j # 1 => j - 1 \in 1..Len(q) /\ steps[j] = q[j - 1]
  BY FirstStep
<1>2. /\ o.plan \in {"accepted", "apply"}
      /\ o.plan = "apply" => o.stage = "Main"
  <2>1. o.plan \notin {"read", "archive", "terminal"}
    BY EffectKinds
  <2>2. o.plan = "apply" => o.stage \notin Restoring /\ o.stage \notin Observing
    BY EffectKinds
  <2> QED BY <2>1, <2>2 DEF Fine, Applying
<1> HIDE DEF steps
<1>3. Fine(w, o, steps)
  BY DEF steps
<1>4. q # <<>> => 1 \in 1..Len(q) /\ 1 + 1 \in 1..Len(steps) /\ steps[1 + 1] = q[1]
  BY <1>1, SeqFacts
<1>5. Untouched(v) /\ ~o.attempted
  <2>1. Backed(w, o, steps)
    BY <1>2, <1>3 DEF Fine, Accepting, Applying
  <2>2. Untouched(w) /\ ~o.attempted
    BY <1>1, <2>1 DEF Backed
  <2> QED BY <2>2 DEF Untouched
<1>6. Backed(v, o, q)
  BY <1>5 DEF Backed
<1>7. CASE o.plan = "accepted"
  <2>1. Setting(o, steps, Len(steps)) /\ Section(o)[1] \notin ReadBack /\ o.outcome = "none"
    BY <1>3, <1>7 DEF Fine, Accepting
  <2>2. \A j \in 1..Len(q) : q[j].kind = "write" /\ q[j].value = Image(o, "target", q[j].place)
    <3> TAKE j \in 1..Len(q)
    <3>1. j + 1 \in 1..Len(steps) /\ steps[j + 1] = q[j] /\ j + 1 # 1
      BY <1>1
    <3> QED BY <2>1, <3>1 DEF Setting
  <2>3. Setting(o, q, Len(q))
    BY <2>2 DEF Setting
  <2> QED BY <1>6, <1>7, <2>1, <2>3 DEF Fine, Accepting
<1>8. CASE o.plan = "apply"
  <2>1. Main(w, o, steps) /\ Planned(o)
    BY <1>2, <1>3, <1>8 DEF Fine, Applying
  <2>2. PICK n \in 0..Len(steps) :
          (n > 0 => o.replies = <<>>) /\ Setting(o, steps, n) /\ ToRead(w, o, steps, n)
    BY <2>1 DEF Main
  <2>3. n - 1 \in 0..Len(q) /\ o.replies = <<>> /\ Setting(o, q, n - 1) /\ ToRead(v, o, q, n - 1)
    BY <2>2, MainGoesOn DEF steps
  <2>4. ASSUME Clean(v)
        PROVE  /\ FirstOnly(o) /\ Outside(v, o)
               /\ v.faults = 0 =>
                    \A place \in Covered(o) :
                      v.keyboard[place] = Image(o, "target", place) \/ Pending(q, place)
    <3>1. /\ FirstOnly(o) /\ Outside(w, o)
          /\ w.faults = 0 =>
               \A place \in Covered(o) :
                 w.keyboard[place] = Image(o, "target", place) \/ Pending(steps, place)
      BY <2>1, <2>4 DEF Main
    <3>2. \A place : Pending(steps, place) => Pending(q, place)
      <4> SUFFICES ASSUME NEW place, Pending(steps, place) PROVE Pending(q, place)
        OBVIOUS
      <4>1. PICK j \in 1..Len(steps) : steps[j].kind = "write" /\ steps[j].place = place
        BY DEF Pending
      <4>2. j # 1
        BY <1>1, <4>1
      <4>3. j - 1 \in 1..Len(q) /\ steps[j] = q[j - 1]
        BY <1>1, <4>2
      <4> QED BY <4>1, <4>3 DEF Pending
    <3> QED BY <3>1, <3>2 DEF Outside, Old
  <2>5. Main(v, o, q)
    BY <2>3, <2>4 DEF Main
  <2>6. Applying(v, o, q)
    BY <1>2, <1>6, <1>8, <2>1, <2>5 DEF Applying, Restoring, Observing
  <2> QED BY <1>8, <2>6 DEF Fine
<1> QED BY <1>2, <1>7, <1>8

\* A setter went wrong: a save that may have changed the keyboard is undone.
LEMMA WriteFailsReady ==
  ASSUME NEW w, NEW v, NEW o, NEW sent \in BOOLEAN, IsOperation(o), IsSeq(o.queue),
         Fine(w, o, <<o.current>> \o o.queue), o.current.kind = "write", Wrote(w, v, o.current),
         sent \/ v.keyboard = w.keyboard, Clean(v) => w.faults = 0 /\ v.faults # 0
  PROVE  Ready(v, WriteError(o, sent))
<1> DEFINE c == o.current
           steps == <<c>> \o o.queue
           e == [o EXCEPT !.attempted = TRUE]
<1>1. /\ o.plan \in {"accepted", "apply"} /\ Backed(w, o, steps) /\ w.saved
      /\ o.plan = "apply" => Planned(o) /\ o.stage \in {"Main"} \cup Restoring
      /\ o.plan = "apply" /\ o.stage = "Main" => c.value = Image(o, "target", c.place)
      /\ o.plan = "apply" /\ o.stage \in Restoring => c.value = "old"
  BY WriteSets
<1>2. v.saved /\ v.stale = w.stale
  BY <1>1 DEF Wrote
<1>3. /\ DOMAIN e = DOMAIN o /\ e.plan = o.plan /\ e.sections = o.sections
      /\ e.changes = o.changes /\ e.stage = o.stage /\ e.attempted = TRUE
      /\ e.outcome = o.outcome /\ e.current = o.current
  BY DEF IsOperation, Fields
<1> HIDE DEF steps, e
<1>4. IsOperation(e)
  BY <1>3 DEF IsOperation
<1>5. CASE ~(o.attempted \/ sent)
  <2>1. Untouched(w)
    BY <1>1, <1>5 DEF Backed
  <2>2. Untouched(v)
    BY <1>2, <1>5, <2>1 DEF Untouched
  <2>3. Truthful(v, o, "NotAttempted")
    BY <2>2 DEF Truthful
  <2>4. WriteError(o, sent) = Complete(o, "NotAttempted")
    BY <1>5 DEF WriteError
  <2> QED BY <2>3, <2>4, CompleteReady
<1>6. CASE o.attempted \/ sent
  <2>1. WriteError(o, sent) = FailStep(e)
    BY <1>6 DEF WriteError, e
  <2>2. CASE o.plan = "accepted"
    <3>1. Section(o)[1] \notin ReadBack
      BY <2>2 DEF Fine, Accepting
    <3>2. Truthful(v, e, "Unverified")
      BY <1>2, <1>3, <3>1 DEF Truthful, Section
    <3>3. FailStep(e) = Complete(e, "Unverified")
      BY <1>3, <2>2 DEF FailStep
    <3> QED BY <1>4, <2>1, <3>2, <3>3, CompleteReady
  <2>3. CASE o.plan = "apply" /\ o.stage = "Main"
    <3>1. Section(e) = Section(o) /\ Covered(e) = Covered(o)
      BY <1>3 DEF Section, Covered
    <3>2. Planned(e)
      BY <1>1, <1>3, <2>3, <3>1 DEF Planned
    <3>3. Kept(v, e)
      BY <1>2, <1>3, <1>4, <2>3, <3>2 DEF Kept
    <3>4. ASSUME Clean(v) PROVE v.faults # 0 /\ Outside(v, e)
      <4>1. Clean(w)
        BY <3>4 DEF Wrote
      <4>2. Outside(w, o)
        BY <2>3, <4>1 DEF Fine, Applying, Main
      <4>3. Outside(v, o)
        BY <1>1, <2>3, <4>2, WroteOutside
      <4> QED BY <1>3, <3>1, <3>4, <4>3 DEF Outside
    <3>5. FailStep(e) = BeginRecovery(e)
      BY <1>3, <2>3 DEF FailStep
    <3> QED BY <2>1, <3>3, <3>4, <3>5, RecoveryReady
  <2>4. CASE o.plan = "apply" /\ o.stage \in Restoring
    <3>1. ~Clean(v)
      <4>1. Clean(w) => w.faults # 0
        BY <2>4 DEF Fine, Applying, Restore
      <4> QED BY <4>1 DEF Wrote
    <3>2. Truthful(v, e, "Unverified")
      BY <1>2, <3>1 DEF Truthful
    <3>3. FailStep(e) = Complete(e, "Unverified")
      BY <1>3, <2>4 DEF FailStep, Restoring
    <3> QED BY <1>4, <2>1, <3>2, <3>3, CompleteReady
  <2> QED BY <1>1, <2>2, <2>3, <2>4
<1> QED BY <1>5, <1>6

\* No reply came, or the backup was not committed.
LEMMA StepFailsReady ==
  ASSUME NEW w, NEW v, NEW o, IsOperation(o), IsSeq(o.queue),
         Fine(w, o, <<o.current>> \o o.queue), o.current.kind \in {"backup", "exchange"},
         v.keyboard = w.keyboard, v.saved = w.saved, v.stale = w.stale,
         Clean(v) => Clean(w) /\ w.faults = 0 /\ v.faults # 0
  PROVE  Ready(v, FailStep(o))
<1> DEFINE c == o.current
           steps == <<c>> \o o.queue
<1>1. steps # <<>> /\ steps[1] = c
  BY FirstStep
<1>2. /\ o.plan \in {"read", "archive"} => c.kind = "exchange"
      /\ o.plan = "accepted" => c.kind \in {"backup", "write"}
      /\ o.plan # "terminal"
      /\ o.plan = "apply" => o.stage \notin Restoring
      /\ o.plan = "apply" /\ o.stage \in Observing => c.kind = "exchange"
  BY EffectKinds
<1> HIDE DEF steps
<1>3. Fine(w, o, steps)
  BY DEF steps
<1>4. Untouched(v) = Untouched(w)
  BY DEF Untouched
<1>5. CASE c.kind = "backup"
  <2>1. Backed(w, o, steps)
    BY <1>2, <1>3, <1>5 DEF Fine, Accepting, Applying
  <2>2. Untouched(v)
    BY <1>1, <1>4, <1>5, <2>1 DEF Backed
  <2>3. Truthful(v, o, "NotAttempted")
    BY <2>2 DEF Truthful
  <2>4. FailStep(o) = Complete(o, "NotAttempted")
    BY <1>5 DEF FailStep
  <2> QED BY <2>3, <2>4, CompleteReady
<1>6. CASE c.kind = "exchange" /\ o.plan \in {"read", "archive"}
  <2>1. Reading(w, o, steps)
    BY <1>3, <1>6 DEF Fine
  <2>2. Truthful(v, o, "ReadFailed")
    BY <1>4, <2>1 DEF Reading, Truthful
  <2>3. FailStep(o) = Complete(o, "ReadFailed")
    BY <1>6 DEF FailStep
  <2> QED BY <2>2, <2>3, CompleteReady
<1>7. CASE c.kind = "exchange" /\ o.plan = "apply"
  <2>1. Applying(w, o, steps) /\ o.stage \in {"Main"} \cup Observing
    BY <1>2, <1>3, <1>7 DEF Fine, Applying
  <2>2. Kept(v, o)
    <3>1. Backed(w, o, steps) /\ Planned(o)
      BY <2>1 DEF Applying
    <3>2. v.saved /\ (~o.attempted => Untouched(v))
      BY <1>1, <1>4, <1>7, <3>1 DEF Backed
    <3> QED BY <1>7, <3>1, <3>2 DEF Kept
  <2>3. CASE o.stage = "Main"
    <3>1. Clean(v) => v.faults # 0 /\ Outside(v, o)
      BY <2>1, <2>3 DEF Applying, Main, Outside, Old
    <3>2. FailStep(o) = BeginRecovery(o)
      BY <1>7, <2>3 DEF FailStep
    <3> QED BY <2>2, <3>1, <3>2, RecoveryReady
  <2>4. CASE o.stage \in Observing
    <3>1. Observe(w, o, steps)
      BY <2>1, <2>4 DEF Applying
    <3>2. ~Clean(v)
      BY <3>1 DEF Observe
    <3>3. CASE o.stage = "Verify"
      <4>1. Truthful(v, o, "Unverified")
        BY <2>2, <3>2 DEF Truthful, Kept
      <4>2. FailStep(o) = Complete(o, "Unverified")
        BY <1>7, <3>3 DEF FailStep
      <4> QED BY <4>1, <4>2, CompleteReady
    <3>4. CASE o.stage \in {"ObserveFn", "ObserveBase"}
      <4> DEFINE e == [o EXCEPT !.queue = <<>>]
      <4>1. /\ DOMAIN e = DOMAIN o /\ e.plan = o.plan /\ e.sections = o.sections
            /\ e.changes = o.changes /\ e.stage = o.stage /\ e.attempted = o.attempted
            /\ e.outcome = o.outcome /\ e.replies = o.replies /\ e.queue = <<>>
        BY DEF IsOperation, Fields
      <4>2. FailStep(o) = SequenceDone(e)
        BY <1>7, <3>4 DEF FailStep
      <4> HIDE DEF e
      <4>3. SequenceDone(e) = ObservationDone(e)
        BY <1>7, <3>4, <4>1 DEF SequenceDone, StageDone
      <4>4. Kept(v, e) /\ Section(e) = Section(o)
        BY <2>2, <4>1, SameKept
      <4>5. Section(o)[1] = "keymap"
        BY <3>1, <3>4 DEF Observe
      <4>6. IsSeq(e.replies) /\ Honest(v, e.replies)
        BY <3>1, <4>1 DEF Observe, ToRead, Honest
      <4>7. Ready(v, ObservationDone(e))
        BY <3>2, <3>4, <4>1, <4>4, <4>5, <4>6, ObservationReady
      <4> QED BY <4>2, <4>3, <4>7
    <3> QED BY <2>4, <3>3, <3>4 DEF Observing
  <2> QED BY <2>1, <2>3, <2>4
<1>8. o.plan \in {"read", "archive", "accepted", "apply", "terminal"}
  BY <1>3 DEF Fine
<1> QED BY <1>2, <1>5, <1>6, <1>7, <1>8

\* A reply changes only the replies and what is still to be asked for.
LEMMA AcceptFields ==
  ASSUME NEW o, NEW place, NEW value, IsOperation(o)
  PROVE  LET e == AcceptReply(o, place, value)
         IN /\ IsOperation(e) /\ e.plan = o.plan /\ e.sections = o.sections
            /\ e.changes = o.changes /\ e.stage = o.stage /\ e.capture = o.capture
            /\ e.attempted = o.attempted /\ e.outcome = o.outcome
            /\ e.replies = Append(o.replies, <<place, value>>)
BY DEF AcceptReply, IsOperation, Fields

\* A reply to the identity adds the requests for its profile.
LEMMA AcceptQueue ==
  ASSUME NEW o, NEW place, NEW value, IsOperation(o)
  PROVE  \E pages :
           /\ IsSeq(pages) /\ AcceptReply(o, place, value).queue = o.queue \o Exchanges(pages)
           /\ place = Identity => pages = KeyPlaces(value)
           /\ place # Identity /\ Section(o)[1] # "picture" => pages = <<>>
<1> DEFINE pages == CASE place = Identity -> KeyPlaces(value)
                      [] Section(o)[1] = "picture" /\ place[1] = "lighting" -> Places(Section(o))
                      [] OTHER -> <<>>
<1>1. AcceptReply(o, place, value).queue = o.queue \o Exchanges(pages)
  BY DEF AcceptReply, Section, IsOperation, Fields
<1>2. ASSUME place = Identity PROVE pages = KeyPlaces(value)
  <2>1. ~(Section(o)[1] = "picture" /\ place[1] = "lighting")
    BY <1>2 DEF Identity
  <2> QED BY <1>2, <2>1
<1>3. ASSUME place # Identity, ~(Section(o)[1] = "picture" /\ place[1] = "lighting")
      PROVE  pages = <<>>
  BY <1>3
<1>4. ASSUME place # Identity, Section(o)[1] = "picture" /\ place[1] = "lighting"
      PROVE  pages = Places(Section(o))
  BY <1>4
<1> HIDE DEF pages
<1>5. IsSeq(pages)
  BY <1>2, <1>3, <1>4, KeyPlacesFacts, PlacesFacts, EmptyIsSeq
<1> QED BY <1>1, <1>2, <1>3, <1>5

\* No places, no requests.
LEMMA NoExchanges == Exchanges(<<>>) = <<>>
<1>1. Len(Exchanges(<<>>)) = 0 /\ IsSeq(Exchanges(<<>>))
  BY EmptyIsSeq, ExchangesFacts
<1> QED BY <1>1, SeqFacts

\* No key is the identity.
LEMMA KeyPlacesAreKeys ==
  ASSUME NEW p, NEW i \in DOMAIN KeyPlaces(p) PROVE KeyPlaces(p)[i] # Identity
<1>1. KeyPlaces(p)[i] \in {<<key, p>> : key \in ToSet(BaseKeys)} \cup FunctionPlaces
  BY KeyPlacesFacts DEF ToSet
<1>2. KeyPlaces(p)[i][1] \in ToSet(BaseKeys) \cup ToSet(FunctionKeys)
  BY <1>1 DEF FunctionPlaces
<1> QED BY <1>2, PlannerAssumption DEF Identity

\* A reply that is honest keeps the read that asked for it right.
LEMMA ReplyRead ==
  ASSUME NEW w, NEW o, NEW c, IsOperation(o), IsSeq(o.queue),
         Section(o) \in Sections, Section(o)[1] \in ReadBack,
         ToRead(w, o, <<c>> \o o.queue, 0),
         NEW value, c.place = Identity => value = w.profile,
         c.place # Identity => value = w.keyboard[c.place]
  PROVE  LET e == AcceptReply(o, c.place, value)
         IN /\ ToRead(w, e, e.queue, 0)
            /\ w.profile = "first" /\ FirstOnly(o) => FirstOnly(e)
<1> DEFINE q == o.queue
           steps == <<c>> \o q
           e == AcceptReply(o, c.place, value)
           n == Len(o.replies)
<1>1. /\ Len(steps) = Len(q) + 1 /\ Len(q) \in Nat /\ steps[1] = c /\ 1 \in 1..Len(steps)
      /\ \A j \in 1..Len(q) : steps[j + 1] = q[j] /\ j + 1 \in 1..Len(steps)
  BY FirstStep
<1>2. /\ e.sections = o.sections /\ e.plan = o.plan
      /\ e.replies = Append(o.replies, <<c.place, value>>)
  BY AcceptFields
<1>3. PICK pages : /\ IsSeq(pages) /\ e.queue = q \o Exchanges(pages)
                   /\ c.place = Identity => pages = KeyPlaces(value)
                   /\ c.place # Identity /\ Section(o)[1] # "picture" => pages = <<>>
  BY AcceptQueue
<1> HIDE DEF steps, e
<1>4. /\ IsSeq(o.replies) /\ Honest(w, o.replies)
      /\ n + Len(steps) = 0 + Len(Asked(o))
      /\ \A i \in 1..n : o.replies[i][1] = Asked(o)[i]
      /\ \A j \in 1..Len(steps) : 0 < j =>
           steps[j].kind = "exchange" /\ steps[j].place = Asked(o)[n + j - 0]
  BY DEF ToRead, steps
<1>5. n \in Nat /\ DOMAIN o.replies = 1..n /\ IsSeq(Asked(o)) /\ Len(Asked(o)) \in Nat
      /\ (o.replies = <<>> <=> n = 0)
  BY <1>4, AskedFacts, SeqFacts
<1> HIDE DEF n
<1>6. c.place = Asked(o)[n + 1]
  <2>1. n + 1 - 0 = n + 1 /\ 0 < 1
    BY <1>5
  <2> QED BY <1>1, <1>4, <2>1
<1>7. /\ IsSeq(e.replies) /\ Len(e.replies) = n + 1
      /\ \A i \in 1..n : e.replies[i] = o.replies[i]
      /\ e.replies[n + 1] = <<c.place, value>>
  BY <1>2, <1>4, Appended DEF n
<1>8. DOMAIN e.replies = 1..n + 1 /\ e.replies # <<>>
  BY <1>5, <1>7, SeqFacts, EmptyIsSeq
<1>9. Honest(w, e.replies)
  <2> SUFFICES ASSUME NEW i \in DOMAIN e.replies, e.replies[i][1] # Identity
               PROVE  e.replies[i][2] = w.keyboard[e.replies[i][1]]
    BY DEF Honest
  <2>1. CASE i = n + 1
    BY <1>7, <2>1
  <2>2. CASE i \in 1..n
    BY <1>4, <1>5, <1>7, <2>2 DEF Honest
  <2> QED BY <1>5, <1>8, <2>1, <2>2
<1>10. ASSUME w.profile = "first", FirstOnly(o) PROVE FirstOnly(e)
  <2> SUFFICES ASSUME NEW i \in DOMAIN e.replies, e.replies[i][1] = Identity
               PROVE  e.replies[i][2] = "first"
    BY DEF FirstOnly
  <2>1. CASE i = n + 1
    BY <1>7, <1>10, <2>1
  <2>2. CASE i \in 1..n
    BY <1>5, <1>7, <1>10, <2>2 DEF FirstOnly
  <2> QED BY <1>5, <1>8, <2>1, <2>2
<1>11. Section(e) = Section(o) /\ Section(o)[1] # "picture"
  BY <1>2 DEF Section, ReadBack
<1>12. CASE Section(o)[1] = "keymap" /\ o.replies = <<>>
  <2> DEFINE keys == KeyPlaces(value)
  <2>1. IsSeq(<<Identity>>) /\ Len(<<Identity>>) = 1 /\ <<Identity>>[1] = Identity
    BY OneIsSeq
  <2>2. Asked(o) = <<Identity>> /\ n = 0
    BY <1>5, <1>12, AskedFacts
  <2>3. c.place = Identity
    BY <1>6, <2>1, <2>2
  <2>4. Len(q) = 0
    BY <1>1, <1>4, <2>1, <2>2
  <2>5. q = <<>>
    BY <2>4, SeqFacts
  <2>6. e.replies[1][2] = value
    BY <1>7, <2>2
  <2>7. Asked(e) = <<Identity>> \o keys
    BY <1>8, <1>11, <1>12, <2>6, AskedFacts
  <2>8. IsSeq(keys) /\ Len(keys) \in Nat
    BY KeyPlacesFacts, SeqFacts
  <2> HIDE DEF keys
  <2>9. /\ Len(Asked(e)) = 1 + Len(keys) /\ Asked(e)[1] = Identity
        /\ \A i \in 1..Len(keys) : Asked(e)[1 + i] = keys[i]
    BY <2>1, <2>7, <2>8, Joined
  <2>10. /\ IsSeq(Exchanges(keys)) /\ Len(Exchanges(keys)) = Len(keys)
         /\ \A i \in 1..Len(keys) : /\ Exchanges(keys)[i].kind = "exchange"
                                    /\ Exchanges(keys)[i].place = keys[i]
    BY <2>8, ExchangesFacts
  <2>11. e.queue = Exchanges(keys)
    BY <1>3, <2>3, <2>5, <2>10, EmptyJoined DEF keys
  <2>12. Len(e.replies) = 1 /\ e.replies[1] = <<c.place, value>>
    BY <1>7, <2>2
  <2>13. ASSUME NEW j \in 1..Len(e.queue), 0 < j
         PROVE  e.queue[j].kind = "exchange" /\ e.queue[j].place = Asked(e)[Len(e.replies) + j - 0]
    <3>1. j \in 1..Len(keys) /\ Len(e.replies) + j - 0 = 1 + j
      BY <2>8, <2>10, <2>11, <2>12
    <3> QED BY <2>9, <2>10, <2>11, <3>1
  <2>14. \A i \in 1..Len(e.replies) : e.replies[i][1] = Asked(e)[i]
    BY <2>3, <2>9, <2>12
  <2>15. Len(e.replies) + Len(e.queue) = 0 + Len(Asked(e))
    BY <2>8, <2>9, <2>10, <2>11, <2>12
  <2>16. ToRead(w, e, e.queue, 0)
    BY <1>7, <1>9, <2>13, <2>14, <2>15 DEF ToRead
  <2> QED BY <1>10, <2>16 DEF e
<1>13. CASE ~(Section(o)[1] = "keymap" /\ o.replies = <<>>)
  <2>1. Asked(e) = Asked(o)
    <3>1. CASE Section(o)[1] # "keymap"
      BY <1>11, <3>1, AskedFacts
    <3>2. CASE Section(o)[1] = "keymap"
      <4>1. o.replies # <<>> /\ e.replies[1] = o.replies[1]
        <5>1. o.replies # <<>>
          BY <1>13, <3>2
        <5>2. 1 \in 1..n
          BY <1>5, <5>1
        <5> QED BY <1>7, <5>1, <5>2
      <4> QED BY <1>8, <1>11, <3>2, <4>1, AskedFacts
    <3> QED BY <3>1, <3>2
  <2>2. c.place # Identity
    <3>1. n + 1 \in 1..Len(Asked(o)) /\ DOMAIN Asked(o) = 1..Len(Asked(o))
      <4>1. Len(Asked(o)) = n + (Len(q) + 1)
        BY <1>1, <1>4, <1>5
      <4> QED BY <1>1, <1>5, <4>1, SeqFacts
    <3>2. CASE Section(o)[1] # "keymap"
      <4>1. Asked(o)[n + 1] \in Covered(o)
        BY <3>1, <3>2, AskedFacts DEF Covered, ToSet
      <4> QED BY <1>6, <4>1, CoveredFacts
    <3>3. CASE Section(o)[1] = "keymap"
      <4> DEFINE keys == KeyPlaces(o.replies[1][2])
      <4>1. Asked(o) = <<Identity>> \o keys /\ n # 0
        BY <1>5, <1>13, <3>3, AskedFacts
      <4>2. IsSeq(keys) /\ Len(keys) \in Nat /\ DOMAIN keys = 1..Len(keys)
        BY KeyPlacesFacts, SeqFacts
      <4>3. IsSeq(<<Identity>>) /\ Len(<<Identity>>) = 1
        BY OneIsSeq
      <4>4. \A i \in DOMAIN keys : keys[i] # Identity
        BY KeyPlacesAreKeys
      <4> HIDE DEF keys
      <4>5. Len(Asked(o)) = 1 + Len(keys) /\ \A i \in 1..Len(keys) : Asked(o)[1 + i] = keys[i]
        BY <4>1, <4>2, <4>3, Joined
      <4>6. n \in 1..Len(keys) /\ 1 + n = n + 1
        BY <1>5, <3>1, <4>1, <4>2, <4>5
      <4> QED BY <1>6, <4>2, <4>4, <4>5, <4>6
    <3> QED BY <3>2, <3>3
  <2>3. e.queue = q
    <3>1. pages = <<>>
      BY <1>3, <1>11, <2>2
    <3>2. q \o <<>> = q
      BY EmptyJoined
    <3> QED BY <1>3, <3>1, <3>2, NoExchanges
  <2>4. ASSUME NEW j \in 1..Len(q), 0 < j
        PROVE  q[j].kind = "exchange" /\ q[j].place = Asked(e)[Len(e.replies) + j - 0]
    <3>1. /\ j + 1 \in 1..Len(steps) /\ steps[j + 1] = q[j] /\ 0 < j + 1
          /\ n + (j + 1) - 0 = Len(e.replies) + j - 0
      <4>1. j + 1 \in 1..Len(steps) /\ steps[j + 1] = q[j] /\ 0 < j + 1
        BY <1>1
      <4>2. n + (j + 1) - 0 = Len(e.replies) + j - 0
        BY <1>5, <1>7
      <4> QED BY <4>1, <4>2
    <3> QED BY <1>4, <2>1, <3>1
  <2>5. ASSUME NEW i \in 1..Len(e.replies) PROVE e.replies[i][1] = Asked(e)[i]
    <3>1. CASE i = n + 1
      BY <1>6, <1>7, <2>1, <3>1
    <3>2. CASE i \in 1..n
      BY <1>4, <1>7, <2>1, <3>2
    <3> QED BY <1>5, <1>7, <3>1, <3>2
  <2>6. Len(e.replies) + Len(q) = 0 + Len(Asked(e))
    <3>1. Len(Asked(o)) = n + (Len(q) + 1)
      BY <1>1, <1>4, <1>5
    <3>2. Len(Asked(e)) = Len(Asked(o)) /\ Len(e.replies) = n + 1
      BY <1>7, <2>1
    <3>3. (n + 1) + Len(q) = 0 + (n + (Len(q) + 1))
      <4>1. n \in Nat /\ Len(q) \in Nat
        BY <1>1, <1>5
      <4>2. \A a, b \in Nat : (a + 1) + b = 0 + (a + (b + 1))
        OBVIOUS
      <4> QED BY <4>1, <4>2, Zenon
    <3> QED BY <3>1, <3>2, <3>3
  <2>7. ToRead(w, e, e.queue, 0)
    BY <1>7, <1>9, <2>3, <2>4, <2>5, <2>6 DEF ToRead
  <2> QED BY <1>10, <2>7 DEF e
<1> QED BY <1>12, <1>13

\* The reply that was asked for.
LEMMA ReplyFine ==
  ASSUME NEW w, NEW o, IsOperation(o), IsSeq(o.queue), Fine(w, o, <<o.current>> \o o.queue),
         o.current.kind = "exchange",
         NEW value, o.current.place = Identity => value = w.profile,
         o.current.place # Identity => value = w.keyboard[o.current.place]
  PROVE  Running(w, NextStep(AcceptReply(o, o.current.place, value)))
<1> DEFINE c == o.current
           q == o.queue
           steps == <<c>> \o q
           e == AcceptReply(o, c.place, value)
<1>1. /\ steps # <<>> /\ steps[1] = c /\ 1 \in 1..Len(steps) /\ Len(q) \in Nat
      /\ \A j \in 1..Len(q) : steps[j + 1] = q[j] /\ j + 1 \in 1..Len(steps)
  BY FirstStep
<1>2. o.plan \in {"read", "archive", "apply"} /\ (o.plan = "apply" => o.stage \notin Restoring)
  <2>1. o.plan \notin {"accepted", "terminal"} /\ (o.plan = "apply" => o.stage \notin Restoring)
    BY EffectKinds
  <2> QED BY <2>1 DEF Fine
<1>3. /\ IsOperation(e) /\ e.plan = o.plan /\ e.sections = o.sections
      /\ e.changes = o.changes /\ e.stage = o.stage /\ e.capture = o.capture
      /\ e.attempted = o.attempted /\ e.outcome = o.outcome
      /\ e.replies = Append(o.replies, <<c.place, value>>)
  BY AcceptFields
<1>4. PICK pages : IsSeq(pages) /\ e.queue = q \o Exchanges(pages)
  BY AcceptQueue
<1> DEFINE x == Exchanges(pages)
<1>5. IsSeq(x) /\ Len(x) = Len(pages) /\ \A i \in 1..Len(x) : x[i].kind = "exchange"
  BY <1>4, ExchangesFacts
<1>6. e.queue = q \o x
  BY <1>4
<1> HIDE DEF steps, x, e
<1>7. /\ IsSeq(e.queue) /\ Len(e.queue) = Len(q) + Len(x)
      /\ \A j \in 1..Len(q) : e.queue[j] = q[j]
      /\ \A j \in 1..Len(x) : e.queue[Len(q) + j] = x[j]
      /\ \A j \in 1..Len(e.queue) : \/ j \in 1..Len(q)
                                    \/ j - Len(q) \in 1..Len(x) /\ j = Len(q) + (j - Len(q))
  <2>1. /\ IsSeq(q \o x) /\ Len(q \o x) = Len(q) + Len(x)
        /\ \A j \in 1..Len(q) : (q \o x)[j] = q[j]
        /\ \A j \in 1..Len(x) : (q \o x)[Len(q) + j] = x[j]
        /\ \A j \in 1..Len(q \o x) : \/ j \in 1..Len(q)
                                     \/ j - Len(q) \in 1..Len(x) /\ j = Len(q) + (j - Len(q))
    BY <1>5, Joined
  <2> QED BY <1>6, <2>1
<1>8. Fine(w, o, steps)
  BY DEF steps
<1>9. CASE o.plan \in {"read", "archive"}
  <2>1. Reading(w, o, steps)
    BY <1>8, <1>9 DEF Fine
  <2>2. \A j \in 1..Len(e.queue) : e.queue[j].kind = "exchange"
    <3> TAKE j \in 1..Len(e.queue)
    <3>1. CASE j \in 1..Len(q)
      <4>1. j + 1 \in 1..Len(steps) /\ steps[j + 1] = q[j]
        BY <1>1, <3>1
      <4> QED BY <1>7, <2>1, <3>1, <4>1 DEF Reading
    <3>2. CASE j - Len(q) \in 1..Len(x) /\ j = Len(q) + (j - Len(q))
      <4>1. e.queue[Len(q) + (j - Len(q))] = x[j - Len(q)]
        BY <1>7, <3>2
      <4>2. e.queue[j] = x[j - Len(q)]
        BY <3>2, <4>1
      <4> QED BY <1>5, <3>2, <4>2
    <3> QED BY <1>7, <3>1, <3>2
  <2>3. IsSeq(e.replies) /\ Honest(w, e.replies)
    <3> DEFINE n == Len(o.replies)
    <3>1. IsSeq(o.replies) /\ Honest(w, o.replies) /\ n \in Nat /\ DOMAIN o.replies = 1..n
      BY <2>1, SeqFacts DEF Reading
    <3>2. /\ IsSeq(e.replies) /\ Len(e.replies) = n + 1
          /\ \A i \in 1..n : e.replies[i] = o.replies[i]
          /\ e.replies[n + 1] = <<c.place, value>>
      BY <1>3, <3>1, Appended
    <3> HIDE DEF n
    <3>3. DOMAIN e.replies = 1..n + 1
      BY <3>2, SeqFacts
    <3>4. ASSUME NEW i \in DOMAIN e.replies, e.replies[i][1] # Identity
          PROVE  e.replies[i][2] = w.keyboard[e.replies[i][1]]
      <4>1. CASE i = n + 1
        BY <3>2, <3>4, <4>1
      <4>2. CASE i \in 1..n
        BY <3>1, <3>2, <3>4, <4>2 DEF Honest
      <4> QED BY <3>1, <3>3, <4>1, <4>2
    <3> QED BY <3>2, <3>4 DEF Honest
  <2>4. Reading(w, e, e.queue)
    BY <1>3, <2>1, <2>2, <2>3 DEF Reading
  <2>5. Fine(w, e, e.queue)
    BY <1>3, <1>7, <1>9, <2>4 DEF Fine
  <2> QED BY <1>3, <1>7, <2>5, NextFine DEF e
<1>10. CASE o.plan = "apply"
  <2>1. /\ Planned(o) /\ Backed(w, o, steps) /\ o.stage \in {"Main"} \cup Observing
        /\ Section(o) \in Sections /\ Section(o)[1] \in ReadBack
    BY <1>2, <1>8, <1>10 DEF Fine, Applying, Planned
  <2>2. ToRead(w, o, steps, 0)
    <3>1. CASE o.stage = "Main"
      <4>1. PICK n \in 0..Len(steps) : Setting(o, steps, n) /\ ToRead(w, o, steps, n)
        BY <1>8, <1>10, <3>1 DEF Fine, Applying, Main
      <4>2. ~(1 \in 1..n)
        BY <1>1, <4>1 DEF Setting
      <4>3. n = 0
        BY <4>2
      <4> QED BY <4>1, <4>3
    <3>2. CASE o.stage \in Observing
      BY <1>8, <1>10, <3>2 DEF Fine, Applying, Observe
    <3> QED BY <2>1, <3>1, <3>2
  <2>3. ToRead(w, e, e.queue, 0) /\ (w.profile = "first" /\ FirstOnly(o) => FirstOnly(e))
    BY <2>1, <2>2, ReplyRead DEF steps, e
  <2>4. /\ Section(e) = Section(o) /\ Covered(e) = Covered(o) /\ Planned(e) /\ Back(e) = Back(o)
        /\ (Outside(w, o) => Outside(w, e))
        /\ \A place : Image(e, "target", place) = Image(o, "target", place)
    <3>1. Section(e) = Section(o) /\ Covered(e) = Covered(o)
      BY <1>3 DEF Section, Covered
    <3>2. Planned(e) /\ Back(e) = Back(o)
      BY <1>3, <2>1, <3>1 DEF Planned, Back
    <3>3. Outside(w, o) => Outside(w, e)
      BY <1>3, <3>1 DEF Outside
    <3>4. \A place : Image(e, "target", place) = Image(o, "target", place)
      BY <1>3 DEF Image
    <3> QED BY <3>1, <3>2, <3>3, <3>4
  <2>5. Backed(w, e, e.queue)
    <3>1. w.saved /\ (~e.attempted => Untouched(w))
      BY <1>1, <1>3, <2>1 DEF Backed
    <3>2. ASSUME e.queue # <<>> PROVE e.queue[1].kind = "exchange"
      <4>1. 1 \in 1..Len(e.queue) /\ 0 < 1
        BY <1>7, <3>2, SeqFacts
      <4>2. \A j \in 1..Len(e.queue) : 0 < j => e.queue[j].kind = "exchange"
        BY <2>3 DEF ToRead
      <4> QED BY <4>1, <4>2
    <3> QED BY <3>1, <3>2 DEF Backed
  <2>6. CASE o.stage = "Main"
    <3>1. Main(w, o, steps)
      BY <1>8, <1>10, <2>6 DEF Fine, Applying
    <3>2. 0 \in 0..Len(e.queue) /\ Setting(e, e.queue, 0) /\ ToRead(w, e, e.queue, 0)
      <4>1. Len(e.queue) \in Nat
        BY <1>7, SeqFacts
      <4> QED BY <2>3, <4>1 DEF Setting
    <3>3. \A place : ~Pending(steps, place)
      <4>1. \A j \in 1..Len(steps) : 0 < j => steps[j].kind = "exchange"
        BY <2>2 DEF ToRead
      <4>2. \A j \in 1..Len(steps) : steps[j].kind = "exchange"
        BY <4>1
      <4> QED BY <4>2 DEF Pending
    <3>4. ASSUME Clean(w)
          PROVE  /\ FirstOnly(e) /\ Outside(w, e)
                 /\ w.faults = 0 => \A place \in Covered(e) :
                      w.keyboard[place] = Image(e, "target", place) \/ Pending(e.queue, place)
      BY <2>3, <2>4, <3>1, <3>3, <3>4 DEF Main, Clean
    <3>5. Main(w, e, e.queue)
      BY <3>2, <3>4 DEF Main
    <3>6. Applying(w, e, e.queue)
      BY <1>3, <2>4, <2>5, <2>6, <3>5 DEF Applying, Restoring, Observing
    <3>7. Fine(w, e, e.queue)
      BY <1>3, <1>7, <1>10, <3>6 DEF Fine
    <3> QED BY <1>3, <1>7, <3>7, NextFine DEF e
  <2>7. CASE o.stage \in Observing
    <3>1. Observe(w, o, steps)
      BY <1>8, <1>10, <2>7 DEF Fine, Applying
    <3>2. Clean(w) => /\ w.faults # 0 /\ FirstOnly(e) /\ Outside(w, e)
                      /\ \A place \in Back(e) : Old(w, place)
      BY <2>3, <2>4, <3>1 DEF Observe, Clean
    <3>3. Observe(w, e, e.queue)
      BY <1>3, <2>3, <2>4, <3>1, <3>2 DEF Observe
    <3>4. Applying(w, e, e.queue)
      BY <1>3, <2>4, <2>5, <2>7, <3>3 DEF Applying, Restoring, Observing
    <3>5. Fine(w, e, e.queue)
      BY <1>3, <1>7, <1>10, <3>4 DEF Fine
    <3> QED BY <1>3, <1>7, <3>5, NextFine DEF e
  <2> QED BY <2>1, <2>6, <2>7
<1> QED BY <1>2, <1>9, <1>10
-----------------------------------------------------------------------------
(* The start of an operation. *)

\* An operation that is ready runs on.
LEMMA ReadyGoesOn ==
  ASSUME NEW w, NEW o, Ready(w, o) PROVE Running(w, NextStep(o))
BY NextFine DEF Ready

\* A read begins at an untouched keyboard.
LEMMA ReadStarts ==
  ASSUME NEW w, Untouched(w), NEW sections PROVE Running(w, StartRead(sections))
<1> DEFINE plan == IF sections = Archive THEN "archive" ELSE "read"
           o == Operation(plan, sections, {})
<1>1. /\ IsOperation(o) /\ o.plan = plan /\ o.queue = <<>> /\ o.changes = {}
      /\ o.outcome = "none" /\ o.capture = <<>>
  BY DEF Operation, IsOperation, Fields
<1>2. StartRead(sections) = NextStep(BeginRead(o, Head(sections)))
  BY DEF StartRead
<1>3. plan \in {"read", "archive"}
  OBVIOUS
<1> HIDE DEF o, plan
<1>4. IsSeq(o.capture) /\ \A i \in DOMAIN o.capture : Honest(w, o.capture[i])
  BY <1>1, EmptyIsSeq, SeqFacts
<1>5. Ready(w, BeginRead(o, Head(sections)))
  BY <1>1, <1>3, <1>4, ReadReady
<1> QED BY <1>2, <1>5, ReadyGoesOn

\* A save refused before it begins leaves the keyboard untouched.
LEMMA RefusalStarts ==
  ASSUME NEW w, Untouched(w), NEW section PROVE Running(w, Refuse(section))
<1> DEFINE o == Operation("apply", <<section>>, {})
<1>1. IsOperation(o) /\ o.changes = {}
  BY DEF Operation, IsOperation, Fields
<1>2. Refuse(section) = NextStep(Complete(o, "NotAttempted"))
  BY DEF Refuse
<1> HIDE DEF o
<1>3. Truthful(w, o, "NotAttempted")
  BY <1>1 DEF Truthful
<1> QED BY <1>1, <1>2, <1>3, CompleteReady, ReadyGoesOn

\* An operation on one section has that section first.
LEMMA SectionKept == ASSUME NEW section PROVE Head(<<section>>) = section /\ <<section>> # <<>>
BY OneIsSeq, TailFacts

\* The backup, the setters and, where the section is read back, the requests.
LEMMA SaveStarts ==
  ASSUME NEW w, Untouched(w), ~w.saved, NEW section \in Sections, NEW changes \in Changes(section)
  PROVE  Running(w, StartApply(section, changes))
<1> DEFINE plan == IF section[1] \in ReadBack THEN "apply" ELSE "accepted"
           o == Operation(plan, <<section>>, changes)
           setters == Setters(o)
           writes == Writes(o, "target", setters)
           queued == [o EXCEPT !.queue = <<Backup>> \o writes]
           q == queued.queue
<1>1. /\ IsOperation(o) /\ o.plan = plan /\ o.queue = <<>> /\ o.changes = changes
      /\ o.sections = <<section>> /\ o.outcome = "none" /\ o.capture = <<>>
      /\ o.stage = "Main" /\ o.replies = <<>> /\ o.attempted = FALSE
  BY DEF Operation, IsOperation, Fields
<1>2. StartApply(section, changes) =
        NextStep(IF changes = {} THEN Complete(o, "Ok")
                 ELSE IF plan = "apply" THEN BeginRead(queued, section) ELSE queued)
  BY DEF StartApply
<1> HIDE DEF o
<1>3. /\ DOMAIN queued = DOMAIN o /\ queued.plan = plan /\ queued.sections = <<section>>
      /\ queued.changes = changes /\ queued.outcome = "none" /\ queued.stage = "Main"
      /\ queued.replies = <<>> /\ queued.attempted = FALSE /\ q = <<Backup>> \o writes
  <2> HIDE DEF writes
  <2> QED BY <1>1 DEF IsOperation, Fields
<1>4. Section(o) = section /\ Section(queued) = section /\ Covered(queued) = ToSet(Places(section))
  <2> HIDE DEF queued
  <2> QED BY <1>1, <1>3, SectionKept DEF Section, Covered
<1>5. IsSeq(setters) /\ DOMAIN setters = 1..Len(setters)
  BY SettersAreSeq, SeqFacts
<1> HIDE DEF setters
<1>6. /\ IsSeq(writes) /\ Len(writes) = Len(setters)
      /\ \A i \in 1..Len(setters) : /\ writes[i].kind = "write"
                                    /\ writes[i].place = setters[i]
                                    /\ writes[i].value = Image(o, "target", setters[i])
  BY <1>5, WritesFacts
<1>7. Backup.kind = "backup"
  BY StepFields DEF Backup
<1> HIDE DEF writes, queued
<1>8. /\ IsSeq(q) /\ q # <<>> /\ Len(q) = Len(writes) + 1 /\ Len(writes) \in Nat
      /\ q[1] = Backup /\ 1 \in 1..Len(q)
      /\ \A j \in 1..Len(writes) : q[j + 1] = writes[j] /\ j + 1 \in 1..Len(q)
      /\ \A j \in 1..Len(q) : j # 1 => j - 1 \in 1..Len(writes) /\ q[j] = writes[j - 1]
  <2>1. LET steps == <<Backup>> \o writes
        IN /\ IsSeq(steps) /\ steps # <<>> /\ Len(steps) = Len(writes) + 1 /\ Len(writes) \in Nat
           /\ steps[1] = Backup /\ 1 \in 1..Len(steps)
           /\ \A j \in 1..Len(writes) : steps[j + 1] = writes[j] /\ j + 1 \in 1..Len(steps)
           /\ \A j \in 1..Len(steps) : j # 1 => j - 1 \in 1..Len(writes) /\ steps[j] = writes[j - 1]
    BY <1>6, FirstStep
  <2> QED BY <1>3, <2>1
<1> HIDE DEF q
<1>9. IsOperation(queued) /\ queued.queue = q
  BY <1>1, <1>3 DEF IsOperation, q
<1>10. \A place : Image(queued, "target", place) = Image(o, "target", place)
  BY <1>1, <1>3 DEF Image
<1>11. \A j \in 1..Len(q) :
         \/ q[j].kind = "write" /\ q[j].value = Image(queued, "target", q[j].place)
         \/ j = 1 /\ q[j].kind = "backup"
  <2> SUFFICES ASSUME NEW j \in 1..Len(q), j # 1
               PROVE  q[j].kind = "write" /\ q[j].value = Image(queued, "target", q[j].place)
    BY <1>7, <1>8
  <2>1. j - 1 \in 1..Len(setters) /\ q[j] = writes[j - 1]
    BY <1>6, <1>8
  <2> QED BY <1>6, <1>10, <2>1
<1>12. CASE changes = {}
  <2>1. Truthful(w, o, "Ok")
    BY <1>1, <1>12 DEF Truthful
  <2> QED BY <1>1, <1>2, <1>12, <2>1, CompleteReady, ReadyGoesOn
<1>13. CASE changes # {} /\ section[1] \notin ReadBack
  <2>1. plan = "accepted"
    BY <1>13
  <2>2. Backed(w, queued, q)
    BY <1>3, <1>7, <1>8 DEF Backed
  <2>3. Accepting(w, queued, q)
    BY <1>3, <1>4, <1>11, <1>13, <2>2 DEF Accepting, Setting
  <2>4. Fine(w, queued, q)
    BY <1>3, <1>8, <2>1, <2>3 DEF Fine
  <2>5. Ready(w, queued)
    BY <1>8, <1>9, <2>4 DEF Ready
  <2>6. StartApply(section, changes) = NextStep(queued)
    BY <1>2, <1>13, <2>1
  <2> QED BY <2>5, <2>6, ReadyGoesOn
<1>14. CASE changes # {} /\ section[1] \in ReadBack
  <2> DEFINE e == BeginRead(queued, section)
             n == Len(q)
  <2>1. plan = "apply"
    BY <1>14
  <2>2. /\ IsOperation(e) /\ e.plan = "apply" /\ e.sections = <<section>>
        /\ e.changes = changes /\ e.stage = "Main" /\ e.replies = <<>>
        /\ e.attempted = FALSE /\ e.outcome = "none"
    <3>1. IsOperation(queued) /\ IsSeq(queued.queue)
      BY <1>8, <1>9
    <3>2. /\ IsOperation(e) /\ e.plan = queued.plan /\ e.sections = queued.sections
          /\ e.changes = queued.changes /\ e.stage = queued.stage /\ e.replies = <<>>
          /\ e.attempted = queued.attempted /\ e.outcome = queued.outcome
      BY <3>1, BeginReadFields
    <3> HIDE DEF e, plan
    <3> QED BY <1>3, <2>1, <3>2
  <2>3. /\ IsSeq(e.queue) /\ e.queue # <<>> /\ n \in 0..Len(e.queue)
        /\ \A j \in 1..n : e.queue[j] = q[j]
        /\ ToRead(w, e, e.queue, n)
    <3>1. /\ IsOperation(queued) /\ IsSeq(queued.queue)
          /\ Section(queued) \in Sections /\ Section(queued)[1] \in ReadBack
      BY <1>4, <1>8, <1>9, <1>14
    <3> DEFINE f == BeginRead(queued, Section(queued))
    <3>2. /\ IsSeq(f.queue) /\ f.queue # <<>> /\ Len(queued.queue) \in 0..Len(f.queue)
          /\ \A j \in 1..Len(queued.queue) : f.queue[j] = queued.queue[j]
          /\ ToRead(w, f, f.queue, Len(queued.queue))
      BY <3>1, ReadBegins
    <3>3. f = e
      BY <1>4
    <3> HIDE DEF f, e
    <3> QED BY <1>9, <3>2, <3>3
  <2> HIDE DEF e, n, plan
  <2>4. Section(e) = section /\ Covered(e) = ToSet(Places(section))
    BY <2>2, SectionKept DEF Section, Covered
  <2>5. /\ changes \subseteq ToSet(Places(section))
        /\ section[1] = "keymap" => changes \cap Reserved = {}
    <3>1. CASE section[1] = "settings"
      <4>1. changes = {} \/ \E place \in ToSet(Places(section)) : changes = {place}
        BY <3>1 DEF Changes
      <4> QED BY <3>1, <4>1
    <3>2. CASE section[1] # "settings"
      <4>1. changes \in SUBSET (ToSet(Places(section)) \ Reserved)
        BY <3>2 DEF Changes
      <4> QED BY <4>1
    <3> QED BY <3>1, <3>2
  <2>6. Planned(e)
    BY <1>14, <2>2, <2>4, <2>5 DEF Planned
  <2>7. \A place : Image(e, "target", place) = Image(queued, "target", place)
    BY <1>3, <2>2 DEF Image
  <2>8. 1 \in 1..n /\ e.queue[1].kind = "backup"
    BY <1>7, <1>8, <2>3 DEF n
  <2>9. Backed(w, e, e.queue)
    BY <2>2, <2>3, <2>8 DEF Backed
  <2>10. Setting(e, e.queue, n)
    BY <1>11, <2>3, <2>7 DEF Setting, n
  <2>11. ASSUME Clean(w)
         PROVE  /\ FirstOnly(e) /\ Outside(w, e)
                /\ w.faults = 0 => \A place \in Covered(e) :
                     w.keyboard[place] = Image(e, "target", place) \/ Pending(e.queue, place)
    <3>1. FirstOnly(e)
      BY <2>2, EmptyIsSeq, SeqFacts DEF FirstOnly
    <3>2. \A place \in Covered(e) : Old(w, place)
      <4>1. Covered(e) \subseteq AllPlaces
        BY <2>6, CoveredFacts DEF Planned
      <4> QED BY <2>11, <4>1 DEF Untouched, Clean, Old
    <3>3. ASSUME NEW place \in changes PROVE Pending(e.queue, place)
      <4>1. Planned(o)
        BY <1>1, <1>4, <1>14, <2>5 DEF Planned, Covered
      <4>2. PICK k \in 1..Len(setters) : setters[k] = place
        BY <1>1, <1>5, <4>1, SettersFacts DEF setters, ToSet
      <4>3. k + 1 \in 1..n /\ q[k + 1] = writes[k]
        BY <1>6, <1>8 DEF n
      <4>4. e.queue[k + 1].kind = "write" /\ e.queue[k + 1].place = place
        BY <1>6, <2>3, <4>2, <4>3
      <4>5. k + 1 \in 1..Len(e.queue)
        BY <2>3, <4>3
      <4> QED BY <4>4, <4>5 DEF Pending
    <3>4. \A place \in Covered(e) :
            w.keyboard[place] = Image(e, "target", place) \/ Pending(e.queue, place)
      BY <2>2, <3>2, <3>3 DEF Image, Old
    <3> QED BY <3>1, <3>2, <3>4 DEF Outside
  <2>12. Main(w, e, e.queue)
    BY <2>2, <2>3, <2>10, <2>11 DEF Main
  <2>13. Applying(w, e, e.queue)
    BY <2>2, <2>6, <2>9, <2>12 DEF Applying, Restoring, Observing
  <2>14. Fine(w, e, e.queue)
    BY <2>2, <2>3, <2>13 DEF Fine
  <2>15. Ready(w, e)
    BY <2>2, <2>3, <2>14 DEF Ready
  <2>16. StartApply(section, changes) = NextStep(e)
    BY <1>2, <1>14, <2>1 DEF e
  <2> QED BY <2>15, <2>16, ReadyGoesOn
<1> QED BY <1>12, <1>13, <1>14

-----------------------------------------------------------------------------
(* The invariant of the planner. *)

\* The invariant holds at first.
LEMMA InitPlanner == Init => PlannerInvariant
BY DEF Init, PlannerInvariant, Untouched, World, None

\* An operation that runs is not the absence of one.
LEMMA RunningIsSome == ASSUME NEW w, NEW o, Running(w, o) PROVE o # None
BY DEF Running, Fine, None, Operation

\* Every step keeps the invariant.
LEMMA StepPlanner == PlannerInvariant /\ [Next]_vars => PlannerInvariant'
<1> SUFFICES ASSUME PlannerInvariant, [Next]_vars PROVE PlannerInvariant'
  OBVIOUS
<1> DEFINE w == World
           v == World'
<1>1. /\ w.keyboard = keyboard /\ w.profile = profile /\ w.saved = saved /\ w.stale = stale
      /\ w.faults = faults /\ w.switches = switches
      /\ v.keyboard = keyboard' /\ v.profile = profile' /\ v.saved = saved' /\ v.stale = stale'
      /\ v.faults = faults' /\ v.switches = switches'
  BY DEF World
<1>2. /\ DOMAIN keyboard = AllPlaces /\ faults \in 0..2 /\ switches \in Nat
      /\ op = None => Untouched(w) /\ ~saved
      /\ op # None => Running(w, op)
  BY DEF PlannerInvariant, Running
<1> SUFFICES /\ DOMAIN keyboard' = AllPlaces /\ faults' \in 0..2 /\ switches' \in Nat
             /\ op' = None => Untouched(v) /\ ~saved'
             /\ op' # None => Running(v, op')
  BY DEF PlannerInvariant, Running
<1> HIDE DEF w, v
<1>3. ASSUME AtFault
      PROVE  faults' \in 0..2 /\ (faults' < 2 => faults = 0 /\ faults' # 0)
  BY <1>2, <1>3 DEF AtFault
<1>4. ASSUME Running(v, op'),
             DOMAIN keyboard' = AllPlaces, faults' \in 0..2, switches' \in Nat
      PROVE  /\ DOMAIN keyboard' = AllPlaces /\ faults' \in 0..2 /\ switches' \in Nat
             /\ op' = None => Untouched(v) /\ ~saved'
             /\ op' # None => Running(v, op')
  BY <1>4, RunningIsSome
<1>5. CASE Start
  <2>1. /\ op = None /\ UNCHANGED <<keyboard, profile, saved, faults, stale, switches>>
    BY <1>5 DEF Start, environment
  <2>2. Untouched(v) /\ ~v.saved
    BY <1>1, <1>2, <2>1 DEF Untouched
  <2>3. \/ \E sections \in Reads : op' = StartRead(sections)
        \/ \E section \in Sections :
             \/ \E changes \in Changes(section) : op' = StartApply(section, changes)
             \/ op' = Refuse(section)
    BY <1>5 DEF Start
  <2>4. Running(v, op')
    <3>1. ASSUME NEW sections \in Reads, op' = StartRead(sections) PROVE Running(v, op')
      BY <2>2, <3>1, ReadStarts
    <3>2. ASSUME NEW section \in Sections, NEW changes \in Changes(section),
                 op' = StartApply(section, changes)
          PROVE  Running(v, op')
      BY <2>2, <3>2, SaveStarts
    <3>3. ASSUME NEW section \in Sections, op' = Refuse(section) PROVE Running(v, op')
      BY <2>2, <3>3, RefusalStarts
    <3> QED BY <2>3, <3>1, <3>2, <3>3
  <2> QED BY <1>2, <1>4, <2>1, <2>4
<1>6. ASSUME op.current.kind \in {"backup", "write", "exchange"}
      PROVE  /\ op # None /\ IsOperation(op) /\ IsSeq(op.queue)
             /\ Fine(w, op, <<op.current>> \o op.queue)
  <2>1. op # None
    BY <1>6, StepFields DEF None, Operation
  <2> QED BY <1>2, <2>1 DEF Running
<1>7. CASE BackupCommitted
  <2>1. /\ op.current.kind = "backup" /\ saved' = TRUE /\ op' = NextStep(op)
        /\ UNCHANGED <<keyboard, profile, faults, stale, switches>>
    BY <1>7 DEF BackupCommitted, environment
  <2>2. Clean(v) => Clean(w)
    BY <1>1, <2>1 DEF Clean
  <2>3. Fine(v, op, op.queue)
    BY <1>1, <1>6, <2>1, <2>2, BackupFine
  <2>4. Running(v, op')
    BY <1>6, <2>1, <2>3, NextFine
  <2> QED BY <1>2, <1>4, <2>1, <2>4
<1>8. CASE BackupFails \/ ExchangeFails
  <2>1. /\ op.current.kind \in {"backup", "exchange"} /\ op' = NextStep(FailStep(op)) /\ AtFault
        /\ UNCHANGED <<keyboard, profile, saved, stale, switches>>
    BY <1>8 DEF BackupFails, ExchangeFails, environment
  <2>2. Clean(v) => Clean(w) /\ w.faults = 0 /\ v.faults # 0
    BY <1>1, <1>3, <2>1 DEF Clean
  <2>3. Ready(v, FailStep(op))
    BY <1>1, <1>6, <2>1, <2>2, StepFailsReady
  <2>4. Running(v, op')
    BY <2>1, <2>3, ReadyGoesOn
  <2> QED BY <1>2, <1>3, <1>4, <2>1, <2>4
<1>9. CASE WriteAccepted
  <2> DEFINE c == op.current
             e == [op EXCEPT !.attempted = TRUE]
  <2>1. /\ c.kind = "write" /\ op' = NextStep(e)
        /\ \/ Taken /\ UNCHANGED faults
           \/ UNCHANGED keyboard /\ AtFault
        /\ UNCHANGED <<profile, saved, stale, switches>>
    BY <1>9 DEF WriteAccepted, environment
  <2>2. Wrote(w, v, c) /\ DOMAIN keyboard' = AllPlaces /\ faults' \in 0..2
    <3>1. CASE Taken /\ UNCHANGED faults
      <4>1. keyboard' = [keyboard EXCEPT ![c.place] = c.value]
        BY <3>1 DEF Taken
      <4>2. /\ DOMAIN keyboard' = AllPlaces
            /\ \A place \in AllPlaces :
                 keyboard'[place] = keyboard[place] \/ (place = c.place /\ keyboard'[place] = c.value)
            /\ c.place \in AllPlaces => keyboard'[c.place] = c.value
        BY <1>2, <4>1
      <4>3. Clean(v) => Clean(w)
        BY <1>1, <2>1, <3>1 DEF Clean
      <4> QED BY <1>1, <1>2, <2>1, <3>1, <4>2, <4>3 DEF Wrote
    <3>2. CASE UNCHANGED keyboard /\ AtFault
      <4>1. Clean(v) => Clean(w) /\ w.faults = 0 /\ v.faults # 0
        BY <1>1, <1>3, <2>1, <3>2 DEF Clean
      <4>2. DOMAIN keyboard' = AllPlaces /\ faults' \in 0..2
        BY <1>2, <1>3, <3>2
      <4> QED BY <1>1, <2>1, <3>2, <4>1, <4>2 DEF Wrote
    <3> QED BY <2>1, <3>1, <3>2
  <2>3. IsOperation(op) /\ IsSeq(op.queue) /\ Fine(w, op, <<c>> \o op.queue)
    BY <1>6, <2>1
  <2>4. Fine(v, e, op.queue)
    BY <2>1, <2>2, <2>3, WroteFine
  <2>5. IsOperation(e) /\ e.queue = op.queue
    BY <2>3 DEF IsOperation, Fields
  <2> HIDE DEF e
  <2>6. Running(v, op')
    BY <2>1, <2>3, <2>4, <2>5, NextFine
  <2> QED BY <1>2, <1>4, <2>1, <2>2, <2>6
<1>10. CASE WriteFails
  <2>1. PICK sent \in BOOLEAN :
          op' = NextStep(WriteError(op, sent)) /\ ((sent /\ Taken) \/ UNCHANGED keyboard)
    BY <1>10 DEF WriteFails
  <2>2. /\ op.current.kind = "write" /\ AtFault
        /\ UNCHANGED <<profile, saved, stale, switches>>
    BY <1>10 DEF WriteFails, environment
  <2>3. Clean(v) => Clean(w) /\ w.faults = 0 /\ v.faults # 0
    BY <1>1, <1>3, <2>2 DEF Clean
  <2>4. /\ DOMAIN keyboard' = AllPlaces
        /\ \A place \in AllPlaces :
             \/ keyboard'[place] = keyboard[place]
             \/ place = op.current.place /\ keyboard'[place] = op.current.value
    BY <1>2, <2>1 DEF Taken
  <2>5. Wrote(w, v, op.current)
    BY <1>1, <2>2, <2>3, <2>4 DEF Wrote
  <2>6. sent \/ v.keyboard = w.keyboard
    BY <1>1, <2>1
  <2>7. Ready(v, WriteError(op, sent))
    BY <1>6, <2>2, <2>3, <2>5, <2>6, WriteFailsReady
  <2>8. Running(v, op')
    BY <2>1, <2>7, ReadyGoesOn
  <2> QED BY <1>2, <1>3, <1>4, <2>2, <2>4, <2>8
<1>11. CASE ReplyArrives
  <2> DEFINE place == op.current.place
             value == IF place = Identity THEN profile ELSE keyboard[place]
  <2>1. /\ op.current.kind = "exchange" /\ op' = NextStep(AcceptReply(op, place, value))
        /\ UNCHANGED <<keyboard, profile, saved, faults, stale, switches>>
    BY <1>11 DEF ReplyArrives, environment
  <2>2. v = w
    BY <2>1 DEF v, w, World
  <2>3. (place = Identity => value = v.profile) /\ (place # Identity => value = v.keyboard[place])
    BY <1>1, <2>2
  <2>4. /\ IsOperation(op) /\ IsSeq(op.queue) /\ Fine(v, op, <<op.current>> \o op.queue)
    BY <1>6, <2>1, <2>2
  <2> HIDE DEF value
  <2>5. Running(v, op')
    BY <2>1, <2>3, <2>4, ReplyFine
  <2> QED BY <1>2, <1>4, <2>1, <2>5
<1>12. CASE SwitchProfile
  <2>1. /\ switches' = switches + 1 /\ UNCHANGED <<op, keyboard, saved, stale, faults>>
    BY <1>12 DEF SwitchProfile
  <2>2. switches' \in Nat /\ ~Clean(v)
    BY <1>1, <1>2, <2>1 DEF Clean
  <2>3. Untouched(v) = Untouched(w)
    BY <1>1, <2>1 DEF Untouched
  <2>4. op # None => Running(v, op)
    BY <1>1, <1>2, <2>1, <2>2, WorldFine DEF Running
  <2> QED BY <1>2, <2>1, <2>2, <2>3, <2>4
<1>13. CASE UNCHANGED vars
  <2>1. UNCHANGED <<op, keyboard, profile, saved, stale, faults, switches>>
    BY <1>13 DEF vars
  <2>2. v = w
    BY <2>1 DEF v, w, World
  <2> QED BY <1>2, <2>1, <2>2
<1> QED BY <1>5, <1>7, <1>8, <1>9, <1>10, <1>11, <1>12, <1>13 DEF Next, Answers

\* Of every operation that runs: its effects are those its plan and stage
\* call for, its replies are what the keyboard held when they came, what is
\* read back covers what is saved, and a recovery's remaining setters are for
\* the places not yet back.
THEOREM PlannerIsInvariant == Spec => []PlannerInvariant
BY InitPlanner, StepPlanner, PTL DEF Spec

\* What the planner reports of the keyboard is so, for any matrix of keys, any
\* number of pages and macro slots, and any number of effects that go wrong,
\* while profiles may be switched and the baseline be stale.
THEOREM ReportsAreTrue == Spec => []OutcomeIsTrue
<1>1. PlannerInvariant => OutcomeIsTrue
  <2> SUFFICES ASSUME PlannerInvariant PROVE OutcomeIsTrue
    OBVIOUS
  <2> DEFINE w == World
  <2>1. w.keyboard = keyboard /\ w.saved = saved /\ w.stale = stale
    BY DEF World
  <2> HIDE DEF w
  <2>2. CASE op = None
    <3>1. op.outcome = "none" /\ op.sections = <<>>
      BY <2>2 DEF None, Operation
    <3>2. Untouched(w)
      BY <2>2 DEF PlannerInvariant, w
    <3> QED BY <2>1, <3>1, <3>2 DEF OutcomeIsTrue, Untouched, ReadsBack, Saving
  <2>3. CASE op # None
    <3> DEFINE steps == <<op.current>> \o op.queue
    <3>1. Fine(w, op, steps)
      BY <2>3 DEF PlannerInvariant, w
    <3> HIDE DEF steps
    <3>2. CASE op.plan # "terminal"
      <4>1. op.outcome = "none" /\ (~saved => Untouched(w))
        BY <2>1, <3>1, <3>2 DEF Fine, Reading, Accepting, Applying, Planned, Backed
      <4> QED BY <2>1, <4>1 DEF OutcomeIsTrue, Untouched
    <3>3. CASE op.plan = "terminal"
      <4>1. Truthful(w, op, op.outcome)
        BY <3>1, <3>3 DEF Fine, Answered
      <4>2. ReadsBack => op.sections # <<>> /\ op.changes # {} /\ Section(op)[1] \in ReadBack
        BY DEF ReadsBack, Saving, Section
      <4>3. \A image : Stored(w, op, image) => Held(image)
        BY <2>1 DEF Stored, Held, Covered, Section
      <4>4. op.outcome = "NotAttempted" \/ ~saved => Untouched(w)
        BY <2>1, <4>1 DEF Truthful
      <4>5. op.outcome = "Read" => \A i \in DOMAIN op.capture : Honest(w, op.capture[i])
        BY <4>1 DEF Truthful
      <4>6. ReadsBack /\ op.outcome = "Ok" => Held("target")
        BY <4>1, <4>2, <4>3 DEF Truthful
      <4>7. ReadsBack /\ op.outcome = "Verified" => Held("before")
        BY <4>1, <4>2, <4>3 DEF Truthful
      <4> QED BY <2>1, <4>4, <4>5, <4>6, <4>7 DEF OutcomeIsTrue, Untouched, Honest
    <3> QED BY <3>2, <3>3
  <2> QED BY <2>2, <2>3
<1> QED BY <1>1, PlannerIsInvariant, PTL

\* One effect that goes wrong never costs the original of a save that is read
\* back: a recovery that failed or cannot be verified had a second fault, a
\* profile switched under it or a keyboard that never held the baseline.
THEOREM OneFaultUndone == Spec => []OneFaultIsUndone
<1>1. PlannerInvariant => OneFaultIsUndone
  <2> SUFFICES ASSUME PlannerInvariant, ReadsBack, op.outcome \in {"Failed", "Unverified"}
               PROVE  faults = 2 \/ profile # "first" \/ switches > 0 \/ stale # {}
    BY DEF OneFaultIsUndone
  <2> DEFINE w == World
             steps == <<op.current>> \o op.queue
  <2>1. /\ w.profile = profile /\ w.stale = stale /\ w.faults = faults /\ w.switches = switches
    BY DEF World
  <2>2. op # None
    BY DEF None, Operation
  <2>3. Fine(w, op, steps) /\ faults \in 0..2 /\ switches \in Nat
    BY <2>2 DEF PlannerInvariant
  <2> HIDE DEF w, steps
  <2>4. op.plan = "terminal"
    BY <2>3 DEF Fine, Reading, Accepting, Applying, Planned
  <2>5. op.sections # <<>> /\ op.changes # {} /\ Section(op)[1] \in ReadBack
    BY DEF ReadsBack, Saving, Section
  <2>6. ~Clean(w)
    BY <2>3, <2>4, <2>5 DEF Fine, Answered, Truthful
  <2> QED BY <2>1, <2>3, <2>6 DEF Clean
<1> QED BY <1>1, PlannerIsInvariant, PTL
=============================================================================
