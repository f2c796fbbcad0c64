------------------------- MODULE ObservationProofs -------------------------
(***************************************************************************)
(* No change of the keyboard is forgotten, whatever its features hold and  *)
(* however many changes, edits, saves, readings and reconnections there    *)
(* are.                                                                    *)
(*                                                                         *)
(* The invariant is about what is cached rather than about the notices:    *)
(* a verified value is current or something says that it is not, and a     *)
(* snapshot in flight is the keyboard's or comes before a notice.  The     *)
(* picture is displayed by the lighting, so that its value and its context *)
(* are followed apart.                                                     *)
(***************************************************************************)
EXTENDS ObservationSafety, WellFoundedInduction, TLAPS

\* A set of numbers has a least one.
LEMMA LeastNumber ==
  ASSUME NEW T \in SUBSET Nat, T # {}
  PROVE  \E x \in T : \A y \in T : x <= y
<1> DEFINE R == {pair \in Nat \X Nat : pair[1] < pair[2]}
<1>1. IsWellFoundedOn(R, Nat)
  BY NatLessThanWellFounded, Zenon DEF OpToRel
<1>2. \E x \in T : \A y \in T : ~(<<y, x>> \in R)
  <2> HIDE DEF R
  <2> QED BY <1>1, WFMin
<1>3. \A x, y \in Nat : y < x => <<y, x>> \in R
  OBVIOUS
<1> HIDE DEF R
<1>4. \A x, y \in T : ~(<<y, x>> \in R) => x <= y
  BY <1>3
<1> QED BY <1>2, <1>4

\* Induction up to k, for membership of a set: what holds of 0 and of a successor
\* below k holds of all of them.
LEMMA InductionUpTo ==
  ASSUME NEW k \in Nat, NEW T, 0 \in T,
         \A n \in Nat : n < k /\ n \in T => n + 1 \in T
  PROVE  \A n \in 0 .. k : n \in T
<1> DEFINE Bad == {n \in 0 .. k : n \notin T}
<1> SUFFICES ASSUME Bad # {} PROVE FALSE
  OBVIOUS
<1>1. PICK n \in Bad : \A y \in Bad : n <= y
  <2>1. Bad \in SUBSET Nat
    OBVIOUS
  <2> HIDE DEF Bad
  <2> QED BY <2>1, LeastNumber
<1>2. n # 0 /\ n - 1 \in Nat /\ n - 1 < k /\ n - 1 \notin Bad
  BY <1>1
<1>3. (n - 1) + 1 = n
  BY <1>1
<1> QED BY <1>1, <1>2, <1>3

Filtering(s, S, k, F) ==
  F = [n \in 0 .. k |-> IF n = 0 THEN <<>>
                        ELSE IF s[n] \in S THEN Append(F[n - 1], s[n]) ELSE F[n - 1]]

\* The recursive function of Keep exists, by the least length for which it would not.
LEMMA FilteringExists ==
  ASSUME NEW s, NEW S, NEW k \in Nat
  PROVE  \E F : Filtering(s, S, k, F)
<1> DEFINE T == {j \in Nat : ~\E F : Filtering(s, S, j, F)}
<1> SUFFICES ASSUME T # {} PROVE FALSE
  OBVIOUS
<1>1. PICK j \in T : \A y \in T : j <= y
  BY LeastNumber
<1>2. CASE j = 0
  <2>1. Filtering(s, S, 0, [n \in 0 .. 0 |-> <<>>])
    BY DEF Filtering
  <2> QED BY <1>2, <2>1
<1>3. CASE j # 0
  <2>1. j - 1 \in Nat /\ j - 1 \notin T
    BY <1>1, <1>3
  <2>2. PICK F : Filtering(s, S, j - 1, F)
    BY <2>1
  <2> DEFINE G == [n \in 0 .. j |-> IF n < j THEN F[n]
                     ELSE IF s[j] \in S THEN Append(F[j - 1], s[j]) ELSE F[j - 1]]
  <2>3. \A n \in 0 .. j : n < j => G[n] = F[n]
    OBVIOUS
  <2>3a. G[j] = IF s[j] \in S THEN Append(F[j - 1], s[j]) ELSE F[j - 1]
    BY <1>1
  <2>3b. \A n \in 0 .. (j - 1) : F[n] = IF n = 0 THEN <<>>
                        ELSE IF s[n] \in S THEN Append(F[n - 1], s[n]) ELSE F[n - 1]
    BY <2>2 DEF Filtering
  <2>4. \A n \in 0 .. j : G[n] = IF n = 0 THEN <<>>
                        ELSE IF s[n] \in S THEN Append(G[n - 1], s[n]) ELSE G[n - 1]
    <3> TAKE n \in 0 .. j
    <3> HIDE DEF G
    <3>1. CASE n = j
      <4>1. n # 0 /\ n - 1 \in 0 .. j /\ n - 1 < j
        BY <3>1, <1>3, <1>1
      <4> QED BY <4>1, <3>1, <2>3, <2>3a
    <3>2. CASE n # j
      <4>1. n < j /\ n \in 0 .. (j - 1)
        BY <3>2, <1>1
      <4>2. n # 0 => n - 1 \in 0 .. j /\ n - 1 < j
        BY <4>1, <1>1
      <4> QED BY <4>1, <4>2, <2>3, <2>3b
    <3> QED BY <3>1, <3>2
  <2>5. G = [n \in 0 .. j |-> G[n]]
    OBVIOUS
  <2>6. Filtering(s, S, j, G)
    <3> HIDE DEF G
    <3> QED BY <2>4, <2>5 DEF Filtering
  <2> QED BY <2>6
<1> QED BY <1>2, <1>3

\* Keep is the last value of that function.
LEMMA KeepUnfolds ==
  ASSUME NEW s, NEW S, Len(s) \in Nat
  PROVE  \E F : Filtering(s, S, Len(s), F) /\ Keep(s, S) = F[Len(s)]
<1> DEFINE F == CHOOSE F : Filtering(s, S, Len(s), F)
<1>1. Filtering(s, S, Len(s), F)
  BY FilteringExists
<1>2. Keep(s, S) = F[Len(s)]
  BY DEF Keep, Filtering
<1> QED BY <1>1, <1>2
\* What is kept of a queue (SelectSeq): the members that are wanted, no other.
LEMMA KeepMembers ==
  ASSUME NEW T, NEW s \in Seq(T), NEW S
  PROVE  Keep(s, S) \in Seq(T) /\ ToSet(Keep(s, S)) = ToSet(s) \cap S
<1>1. Len(s) \in Nat /\ \A n \in 1 .. Len(s) : s[n] \in T
  OBVIOUS
<1>2. PICK F : Filtering(s, S, Len(s), F) /\ Keep(s, S) = F[Len(s)]
  BY <1>1, KeepUnfolds
<1>3. \A n \in 0 .. Len(s) :
        F[n] = IF n = 0 THEN <<>>
               ELSE IF s[n] \in S THEN Append(F[n - 1], s[n]) ELSE F[n - 1]
  BY <1>2, <1>1 DEF Filtering
<1> DEFINE Part(n) == {s[i] : i \in 1 .. n}
           Good == {n \in 0 .. Len(s) : F[n] \in Seq(T) /\ ToSet(F[n]) = Part(n) \cap S}
<1>4. 0 \in Good
  <2>1. F[0] = <<>>
    BY <1>3, <1>1
  <2>2. Part(0) = {} /\ <<>> \in Seq(T) /\ ToSet(<<>>) = {}
    BY DEF ToSet
  <2> HIDE DEF Part
  <2>3. F[0] \in Seq(T) /\ ToSet(F[0]) = Part(0) \cap S
    BY <2>1, <2>2
  <2> QED BY <2>3, <1>1
<1>5. ASSUME NEW n \in Nat, n < Len(s), n \in Good PROVE n + 1 \in Good
  <2>1. F[n + 1] = IF s[n + 1] \in S THEN Append(F[n], s[n + 1]) ELSE F[n]
    <3>1. n + 1 \in 0 .. Len(s) /\ n + 1 # 0 /\ (n + 1) - 1 = n
      BY <1>5, <1>1
    <3> QED BY <3>1, <1>3
  <2>2. s[n + 1] \in T
    BY <1>1, <1>5
  <2>3. Part(n + 1) = Part(n) \cup {s[n + 1]}
    OBVIOUS
  <2>4. F[n] \in Seq(T) /\ ToSet(F[n]) = Part(n) \cap S
    BY <1>5
  <2> HIDE DEF Part
  <2>5. F[n + 1] \in Seq(T) /\ ToSet(F[n + 1]) = Part(n + 1) \cap S
    <3>1. CASE s[n + 1] \in S
      <4>1. ToSet(Append(F[n], s[n + 1])) = ToSet(F[n]) \cup {s[n + 1]}
        <5> DEFINE r == F[n]
        <5>1. r \in Seq(T) /\ Len(r) \in Nat
          BY <2>4
        <5>2. \A e \in T : /\ DOMAIN Append(r, e) = DOMAIN r \cup {Len(r) + 1}
                            /\ \A i \in DOMAIN r : Append(r, e)[i] = r[i]
                            /\ Append(r, e)[Len(r) + 1] = e
          BY <5>1
        <5> HIDE DEF r
        <5>3. ToSet(Append(r, s[n + 1])) = ToSet(r) \cup {s[n + 1]}
          BY <5>2, <2>2 DEF ToSet
        <5> QED BY <5>3 DEF r
      <4> QED BY <4>1, <3>1, <2>1, <2>2, <2>3, <2>4
    <3>2. CASE s[n + 1] \notin S
      BY <3>2, <2>1, <2>3, <2>4
    <3> QED BY <3>1, <3>2
  <2> QED BY <2>5, <1>5, <1>1
<1>6. Len(s) \in Good
  <2> HIDE DEF Good
  <2>1. \A n \in Nat : n < Len(s) /\ n \in Good => n + 1 \in Good
    BY <1>5
  <2>2. \A n \in 0 .. Len(s) : n \in Good
    BY <1>4, <2>1, <1>1, InductionUpTo
  <2> QED BY <2>2, <1>1
<1>7. Part(Len(s)) = ToSet(s)
  BY DEF ToSet
<1> HIDE DEF Part
<1> QED BY <1>2, <1>6, <1>7

\* The last element is still the last, if it is kept.
LEMMA KeepLast ==
  ASSUME NEW T, NEW s \in Seq(T), s # <<>>, NEW S, s[Len(s)] \in S
  PROVE  Keep(s, S) # <<>> /\ Keep(s, S)[Len(Keep(s, S))] = s[Len(s)]
<1>1. Len(s) \in Nat /\ Len(s) # 0
  OBVIOUS
<1>2. PICK F : Filtering(s, S, Len(s), F) /\ Keep(s, S) = F[Len(s)]
  BY <1>1, KeepUnfolds
<1>3. Keep(s, S) = Append(F[Len(s) - 1], s[Len(s)])
  <2>1. \A n \in 0 .. Len(s) :
        F[n] = IF n = 0 THEN <<>>
               ELSE IF s[n] \in S THEN Append(F[n - 1], s[n]) ELSE F[n - 1]
    BY <1>2, <1>1 DEF Filtering
  <2>2. Len(s) \in 0 .. Len(s)
    BY <1>1
  <2>3. F[Len(s)] = Append(F[Len(s) - 1], s[Len(s)])
    BY <2>1, <2>2, <1>1
  <2> QED BY <2>3, <1>2
<1>4. Keep(s, S) \in Seq(T)
  BY KeepMembers
<1> DEFINE r == F[Len(s) - 1]
<1> QED BY <1>3, <1>4

-----------------------------------------------------------------------------
(* What the invariant says. *)

\* An editor that has been read has a baseline and a draft.
EditorOK(e) ==
  /\ e \in EditorOf(Snapshots, Contents)
  /\ e.baseline # None => e.draft # None
  /\ e.status = "Ready" => e.baseline # None
  /\ e.status = "Unloaded" => e.baseline = None

\* A queued lighting has the picture behind it.
PictureBehind(queue) ==
  \A m \in DOMAIN queue : queue[m] = "Lighting" =>
     \E n \in DOMAIN queue : m < n /\ queue[n] = "Picture"

Observations ==
  [remaining : Seq(ToSet(Order)), due : BOOLEAN, pictureRequired : BOOLEAN,
   unavailable : BOOLEAN]

Apps ==
  [connection : Nat, generations : Nat, ed : [Loaded -> EditorOf(Snapshots, Contents)],
   pending : Requests \cup {None}, refresh : BOOLEAN, activity : BOOLEAN,
   observation : Observations]

\* A save in flight has something to write.
AppOK(a) ==
  /\ a \in Apps
  /\ \A f \in Loaded : EditorOK(a.ed[f])
  /\ PictureBehind(a.observation.remaining)
  /\ a.pending # None /\ a.pending.result # None /\ a.pending.result.kind = "ok"
       => a.pending.result.snapshot # None
  /\ a.pending # None /\ a.pending.background => a.pending.direction = "Read"
  /\ a.pending # None /\ a.pending.direction = "Save"
       => a.ed[a.pending.feature].submitted # None /\ a.ed[a.pending.feature].draft # None

TypeOK ==
  /\ AppOK(app)
  /\ device \in [Loaded -> Contents]
  /\ plugged \in BOOLEAN
  /\ reports \in Seq(Changes)
  /\ listener \in {"Off", "Open", "Broken", "Ended"}
  /\ reader \in Events \cup {None}
  /\ mailbox \in Seq(Events) /\ messages \in Seq(Events)

\* The listener is open on the keyboard that is connected and plugged in.
Listening ==
  /\ listener = "Open" => plugged /\ app.connection # 0
  /\ reader # None => reader.generation = app.connection

\* The changes whose notices are under way.
News == {change \in Changes : UnderWay(change)}

\* What reading feature f of a keyboard that holds d gives.
Held(d, f) ==
  [value |-> d[f], context |-> IF f = "Picture" THEN d["Lighting"] ELSE None]

Told(news, f) == \E change \in news : f \in ToSet(Features(change))

Queued(a, f) == f \in ToSet(a.observation.remaining)

\* A reading or a save of f is in flight.
Pending(a, f) == a.pending # None /\ a.pending.feature = f

\* ... and has come back with a snapshot.
Answered(a, f) ==
  Pending(a, f) /\ a.pending.result # None /\ a.pending.result.kind = "ok"

\* Another change of the picture than that of its lighting is under way, or
\* queued so that lighting comes first.
PictureTold(a, news) ==
  \/ "Configuration" \in news
  \/ a.observation.pictureRequired /\ Queued(a, "Lighting")

\* A snapshot in flight is current, or a notice says that it is not.
AnswerKept(a, d, news, f) ==
  Answered(a, f) => a.pending.result.snapshot = Held(d, f) \/ Told(news, f) \/ Queued(a, f)

PictureAnswerKept(a, d, news) ==
  Answered(a, "Picture") =>
    /\ a.pending.result.snapshot.value = d["Picture"] \/ PictureTold(a, news)
    /\ \/ a.pending.result.snapshot.context = d["Lighting"]
       \/ Told(news, "Lighting") \/ Queued(a, "Lighting")

\* What is cached of a feature is current, or will be looked after.
Kept(a, gone, d, news, f) ==
  \/ a.ed[f].status # "Ready"
  \/ a.ed[f].baseline = Held(d, f)
  \/ Told(news, f) \/ Queued(a, f) \/ Pending(a, f) \/ f \in gone

\* The cached picture is displayed by the lighting that is cached.
Matching(a) == a.ed["Picture"].baseline.context = a.ed["Lighting"].baseline.value

\* Lighting comes before a queued picture, has come, or keeps it out of sight.
LightingFirst(a) ==
  \/ Queued(a, "Lighting") \/ Pending(a, "Lighting")
  \/ a.ed["Lighting"].baseline = None
  \/ a.ed["Lighting"].status \notin {"Ready", "ReadRequired"}
  \/ a.ed["Lighting"].status = "Ready" /\ Matching(a)

\* The picture is not displayed by any lighting that is cached.
OutOfSight(a) ==
  /\ a.ed["Picture"].baseline.context # PictureEffect
  /\ a.ed["Lighting"].status = "Ready" => Matching(a)

\* What is cached of the picture itself.
ContentKept(a, gone, d, news) ==
  \/ a.ed["Picture"].status # "Ready"
  \/ a.ed["Picture"].baseline.value = d["Picture"]
  \/ "Configuration" \in news
  \/ Queued(a, "Picture") /\ a.observation.pictureRequired /\ LightingFirst(a)
  \/ Pending(a, "Picture") \/ "Picture" \in gone \/ OutOfSight(a)

\* What is cached of the lighting the picture is displayed by.
ContextKept(a, gone, d, news) ==
  \/ a.ed["Picture"].status # "Ready"
  \/ a.ed["Picture"].baseline.context = d["Lighting"]
  \/ Told(news, "Lighting") \/ Queued(a, "Lighting") \/ Pending(a, "Lighting")
  \/ a.ed["Lighting"].status # "Ready"
  \/ Pending(a, "Picture") \/ "Picture" \in gone

AnswersKept(a, d, news) ==
  /\ \A f \in Loaded \ {"Picture"} : AnswerKept(a, d, news, f)
  /\ "Picture" \in Loaded => PictureAnswerKept(a, d, news)

CacheKept(a, gone, d, news) ==
  /\ \A f \in Loaded \ {"Picture"} : Kept(a, gone, d, news, f)
  /\ "Picture" \in Loaded => ContentKept(a, gone, d, news) /\ ContextKept(a, gone, d, news)

Remembered ==
  listener = "Open" => AnswersKept(app, device, News) /\ CacheKept(app, dropped, device, News)

IInv == TypeOK /\ Listening /\ Remembered

\* The head and the tail of a queue have its members.
LEMMA FirstAndRest ==
  ASSUME NEW T, NEW s \in Seq(T), s # <<>>
  PROVE  Head(s) \in T /\ Tail(s) \in Seq(T) /\ ToSet(s) = {Head(s)} \cup ToSet(Tail(s))
<1>1. Len(s) \in Nat /\ Len(s) # 0
  OBVIOUS
<1>2. /\ Head(s) = s[1] /\ Len(Tail(s)) = Len(s) - 1
      /\ \A i \in 1 .. (Len(s) - 1) : Tail(s)[i] = s[i + 1]
  OBVIOUS
<1>3. DOMAIN s = 1 .. Len(s) /\ DOMAIN Tail(s) = 1 .. (Len(s) - 1)
  OBVIOUS
<1>4. ToSet(s) \subseteq {Head(s)} \cup ToSet(Tail(s))
  <2> SUFFICES ASSUME NEW i \in 1 .. Len(s) PROVE s[i] \in {Head(s)} \cup ToSet(Tail(s))
    BY <1>3 DEF ToSet
  <2>1. CASE i = 1
    BY <2>1, <1>2
  <2>2. CASE i # 1
    <3>1. i - 1 \in 1 .. (Len(s) - 1) /\ Tail(s)[i - 1] = s[i]
      BY <2>2, <1>1, <1>2
    <3> QED BY <3>1, <1>3 DEF ToSet
  <2> QED BY <2>1, <2>2
<1>5. {Head(s)} \cup ToSet(Tail(s)) \subseteq ToSet(s)
  BY <1>1, <1>2, <1>3 DEF ToSet
<1> QED BY <1>4, <1>5

\* The members of a queue with one more element.
LEMMA AppendMembers ==
  ASSUME NEW T, NEW s \in Seq(T), NEW e \in T
  PROVE  Append(s, e) \in Seq(T) /\ ToSet(Append(s, e)) = ToSet(s) \cup {e}
<1>1. /\ DOMAIN Append(s, e) = DOMAIN s \cup {Len(s) + 1}
      /\ \A i \in DOMAIN s : Append(s, e)[i] = s[i]
      /\ Append(s, e)[Len(s) + 1] = e
  OBVIOUS
<1>2. ToSet(Append(s, e)) = ToSet(s) \cup {e}
  BY <1>1 DEF ToSet
<1> QED BY <1>2

\* The members of two queues joined.
LEMMA ConcatMembers ==
  ASSUME NEW T, NEW s \in Seq(T), NEW t \in Seq(T)
  PROVE  s \o t \in Seq(T) /\ ToSet(s \o t) = ToSet(s) \cup ToSet(t)
<1>1. /\ DOMAIN s = 1 .. Len(s) /\ DOMAIN t = 1 .. Len(t)
      /\ DOMAIN (s \o t) = 1 .. (Len(s) + Len(t))
      /\ Len(s) \in Nat /\ Len(t) \in Nat
  OBVIOUS
<1>2. \A i \in DOMAIN s : (s \o t)[i] = s[i]
  OBVIOUS
<1>3. \A i \in DOMAIN t : (s \o t)[Len(s) + i] = t[i]
  OBVIOUS
<1>4. ToSet(s \o t) \subseteq ToSet(s) \cup ToSet(t)
  <2> SUFFICES ASSUME NEW i \in DOMAIN (s \o t) PROVE (s \o t)[i] \in ToSet(s) \cup ToSet(t)
    BY DEF ToSet
  <2>1. CASE i \in DOMAIN s
    BY <2>1, <1>2 DEF ToSet
  <2>2. CASE i \notin DOMAIN s
    <3>1. i - Len(s) \in DOMAIN t /\ Len(s) + (i - Len(s)) = i
      BY <2>2, <1>1
    <3> QED BY <3>1, <1>3 DEF ToSet
  <2> QED BY <2>1, <2>2
<1>5. ToSet(s) \subseteq ToSet(s \o t)
  BY <1>1, <1>2 DEF ToSet
<1>6. ToSet(t) \subseteq ToSet(s \o t)
  <2> SUFFICES ASSUME NEW i \in DOMAIN t PROVE t[i] \in ToSet(s \o t)
    BY DEF ToSet
  <2>1. Len(s) + i \in DOMAIN (s \o t) /\ (s \o t)[Len(s) + i] = t[i]
    BY <1>1, <1>3
  <2> QED BY <2>1 DEF ToSet
<1>7. s \o t \in Seq(T)
  OBVIOUS
<1> QED BY <1>4, <1>5, <1>6, <1>7

\* What is left of a queue after its element i.
LEMMA AfterElement ==
  ASSUME NEW T, NEW s \in Seq(T), NEW i \in DOMAIN s
  PROVE  LET r == SubSeq(s, i + 1, Len(s))
         IN  /\ r \in Seq(T) /\ ToSet(r) \subseteq ToSet(s)
             /\ DOMAIN r = 1 .. (Len(s) - i)
             /\ \A n \in DOMAIN r : i + n \in DOMAIN s /\ r[n] = s[i + n]
             /\ \A n \in DOMAIN s : n > i => n - i \in DOMAIN r /\ r[n - i] = s[n]
<1> DEFINE r == SubSeq(s, i + 1, Len(s))
<1>1. Len(s) \in Nat /\ i \in 1 .. Len(s) /\ DOMAIN s = 1 .. Len(s)
  OBVIOUS
<1>2. r \in Seq(T) /\ Len(r) = Len(s) - i
  BY <1>1
<1>3. \A n \in 1 .. (Len(s) - i) : r[n] = s[i + n]
  BY <1>1
<1>4. DOMAIN r = 1 .. (Len(s) - i)
  BY <1>2
<1> HIDE DEF r
<1>5. \A n \in DOMAIN r : i + n \in DOMAIN s /\ r[n] = s[i + n]
  BY <1>1, <1>3, <1>4
<1>6. \A n \in DOMAIN s : n > i => n - i \in DOMAIN r /\ r[n - i] = s[n]
  <2> TAKE n \in DOMAIN s
  <2> HAVE n > i
  <2>1. n - i \in 1 .. (Len(s) - i) /\ i + (n - i) = n
    BY <1>1
  <2> QED BY <2>1, <1>3, <1>4
<1>7. ToSet(r) \subseteq ToSet(s)
  BY <1>5 DEF ToSet
<1> QED BY <1>2, <1>4, <1>5, <1>6, <1>7 DEF r

\* The reading order holds every feature and ends with the picture.
LEMMA OrderMembers ==
  /\ Order \in Seq(ToSet(Order)) /\ Order # <<>> /\ Order[Len(Order)] = "Picture"
  /\ ToSet(Order) = {"Keymap", "Lighting", "Settings", "Macro", "Picture"}
<1>1. /\ Len(Order) = 5 /\ DOMAIN Order = {1, 2, 3, 4, 5}
      /\ Order[1] = "Keymap" /\ Order[2] = "Lighting" /\ Order[3] = "Settings"
      /\ Order[4] = "Macro" /\ Order[5] = "Picture"
  BY DEF Order
<1>2. ToSet(Order) = {"Keymap", "Lighting", "Settings", "Macro", "Picture"}
  BY <1>1 DEF ToSet
<1>3. Order \in Seq(ToSet(Order))
  BY <1>2 DEF Order
<1>4. Order # <<>>
  BY DEF Order
<1>5. Order[Len(Order)] = "Picture"
  BY <1>1
<1> QED BY <1>2, <1>3, <1>4, <1>5

\* A change concerns features of the reading order.
LEMMA FeaturesType ==
  ASSUME NEW c \in Changes
  PROVE  Features(c) \in Seq(ToSet(Order))
<1>1. CASE c = "Configuration"
  BY <1>1, OrderMembers, KeepMembers DEF Features
<1>2. CASE c = "Lighting"
  BY <1>2, OrderMembers DEF Features
<1>3. CASE c = "Settings"
  BY <1>3, OrderMembers DEF Features
<1> QED BY <1>1, <1>2, <1>3 DEF Changes

\* Lighting comes with the picture, and the picture last.
LEMMA FeaturesOrdered ==
  ASSUME NEW c \in {"Lighting", "Configuration"}
  PROVE  /\ "Lighting" \in ToSet(Features(c)) /\ "Picture" \in ToSet(Features(c))
         /\ Features(c) # <<>> /\ Features(c)[Len(Features(c))] = "Picture"
<1>1. CASE c = "Lighting"
  <2> DEFINE s == <<"Lighting", "Picture">>
  <2>1. /\ Len(s) = 2 /\ DOMAIN s = {1, 2} /\ s[1] = "Lighting" /\ s[2] = "Picture" /\ s # <<>>
    OBVIOUS
  <2>2. Features(c) = s
    BY <1>1 DEF Features
  <2> HIDE DEF s
  <2> QED BY <2>1, <2>2 DEF ToSet
<1>2. CASE c = "Configuration"
  <2> DEFINE S == ToSet(Order) \ ({"Macro"} \ Loaded)
  <2>1. Features(c) = Keep(Order, S)
    BY <1>2 DEF Features
  <2>2. "Lighting" \in ToSet(Order) \cap S /\ "Picture" \in ToSet(Order) \cap S
    BY OrderMembers
  <2> HIDE DEF S
  <2>3. ToSet(Keep(Order, S)) = ToSet(Order) \cap S
    BY OrderMembers, KeepMembers
  <2>4. Keep(Order, S) # <<>> /\ Keep(Order, S)[Len(Keep(Order, S))] = Order[Len(Order)]
    BY <2>2, OrderMembers, KeepLast
  <2> QED BY <2>1, <2>2, <2>3, <2>4, OrderMembers
<1> QED BY <1>1, <1>2

\* A change of the settings concerns the settings only.
LEMMA SettingsAlone ==
  ToSet(Features("Settings")) = {"Settings"}
<1>1. Features("Settings") = <<"Settings">>
  BY DEF Features
<1>2. DOMAIN <<"Settings">> = {1} /\ <<"Settings">>[1] = "Settings"
  OBVIOUS
<1> QED BY <1>1, <1>2 DEF ToSet

\* A change is noticed for every feature it may have touched, and one of the
\* lighting for the picture.
LEMMA TouchedIsRead ==
  ASSUME ObservationAssumption, NEW c \in Changes, NEW f \in Touched(c)
  PROVE  f \in ToSet(Features(c))
<1>1. CASE c = "Configuration"
  <2>1. ToSet(Features(c)) = ToSet(Order) \cap (ToSet(Order) \ ({"Macro"} \ Loaded))
    BY <1>1, OrderMembers, KeepMembers DEF Features
  <2> QED BY <1>1, <2>1 DEF Touched, ObservationAssumption
<1>2. CASE c = "Lighting"
  <2>1. f = "Lighting"
    BY <1>2 DEF Touched
  <2> QED BY <1>2, <2>1, FeaturesOrdered
<1>3. CASE c = "Settings"
  BY <1>3, SettingsAlone DEF Touched
<1> QED BY <1>1, <1>2, <1>3 DEF Changes

\* A queue whose last element is the picture has the picture behind its lighting.
LEMMA PictureLast ==
  ASSUME NEW T, NEW s \in Seq(T), s # <<>>, s[Len(s)] = "Picture"
  PROVE  PictureBehind(s)
<1>1. Len(s) \in DOMAIN s /\ \A m \in DOMAIN s : m <= Len(s) /\ m \in Nat
  OBVIOUS
<1>2. \A m \in DOMAIN s : s[m] = "Lighting" => m < Len(s)
  <2> TAKE m \in DOMAIN s
  <2>1. s[m] = "Lighting" => m # Len(s)
    OBVIOUS
  <2> QED BY <2>1, <1>1
<1> QED BY <1>1, <1>2 DEF PictureBehind

\* ... and still has when features are queued that are not lighting, and when
\* features are taken from its head.
LEMMA BehindWithMore ==
  ASSUME NEW T, NEW s \in Seq(T), NEW t \in Seq(T), PictureBehind(s), "Lighting" \notin ToSet(t)
  PROVE  PictureBehind(s \o t)
<1>1. /\ DOMAIN s = 1 .. Len(s) /\ DOMAIN t = 1 .. Len(t)
      /\ DOMAIN (s \o t) = 1 .. (Len(s) + Len(t))
      /\ Len(s) \in Nat /\ Len(t) \in Nat
  OBVIOUS
<1>2. \A i \in DOMAIN s : i \in DOMAIN (s \o t) /\ (s \o t)[i] = s[i]
  OBVIOUS
<1>3. \A i \in DOMAIN (s \o t) : i \notin DOMAIN s => (s \o t)[i] \in ToSet(t)
  <2> TAKE i \in DOMAIN (s \o t)
  <2> HAVE i \notin DOMAIN s
  <2>1. i - Len(s) \in DOMAIN t /\ (s \o t)[i] = t[i - Len(s)]
    BY <1>1
  <2> QED BY <2>1 DEF ToSet
<1> QED BY <1>2, <1>3 DEF PictureBehind

\* The picture stays behind lighting when the front of the queue is taken off.
LEMMA BehindAfter ==
  ASSUME NEW T, NEW s \in Seq(T), NEW i \in DOMAIN s, PictureBehind(s)
  PROVE  PictureBehind(SubSeq(s, i + 1, Len(s)))
<1> DEFINE r == SubSeq(s, i + 1, Len(s))
<1>1. /\ DOMAIN r = 1 .. (Len(s) - i)
      /\ \A n \in DOMAIN r : i + n \in DOMAIN s /\ r[n] = s[i + n]
      /\ \A n \in DOMAIN s : n > i => n - i \in DOMAIN r /\ r[n - i] = s[n]
  BY AfterElement
<1>2. DOMAIN s = 1 .. Len(s) /\ Len(s) \in Nat
  OBVIOUS
<1> HIDE DEF r
<1>3. ASSUME NEW m \in DOMAIN r, r[m] = "Lighting"
      PROVE  \E n \in DOMAIN r : m < n /\ r[n] = "Picture"
  <2>1. i + m \in DOMAIN s /\ s[i + m] = "Lighting"
    BY <1>1, <1>3
  <2>2. PICK n \in DOMAIN s : i + m < n /\ s[n] = "Picture"
    BY <2>1 DEF PictureBehind
  <2>3. n > i /\ m < n - i
    BY <2>2, <1>1, <1>2
  <2>4. n - i \in DOMAIN r /\ r[n - i] = "Picture"
    BY <2>2, <2>3, <1>1
  <2> QED BY <2>3, <2>4
<1> QED BY <1>3 DEF PictureBehind, r

\* With lighting queued so is the picture.
LEMMA BehindMembers ==
  ASSUME NEW queue, PictureBehind(queue), "Lighting" \in ToSet(queue)
  PROVE  "Picture" \in ToSet(queue)
BY DEF PictureBehind, ToSet

Fields == {"baseline", "draft", "submitted", "status"}

\* A result that has come back: a snapshot comes with "ok".
ResultOK(result) == result \in Results /\ (result.kind = "ok" => result.snapshot # None)

\* The fields of an editor that has gone through the handlers.
LEMMA EditorFields ==
  ASSUME NEW e, EditorOK(e)
  PROVE  /\ Fields \subseteq DOMAIN e
         /\ e.baseline \in Snapshots \cup {None} /\ e.draft \in Contents \cup {None}
         /\ e.submitted \in Contents \cup {None} /\ e.status \in Status
BY DEF EditorOK, EditorOf, Fields

\* A snapshot is its value and its context.
LEMMA SnapshotFields ==
  ASSUME NEW s \in Snapshots, ObservationAssumption
  PROVE  /\ s.value \in Contents /\ s.context \in Contents \cup {None} /\ s # None
         /\ s.value # None
         /\ s = [value |-> s.value, context |-> s.context]
BY DEF Snapshots, ObservationAssumption

\* Invalidating leaves no editor verified and loses no conflict.
LEMMA InvalidateOK ==
  ASSUME NEW e, EditorOK(e)
  PROVE  LET y == Invalidate(e)
         IN  /\ EditorOK(y) /\ y.status # "Ready"
             /\ y.baseline = e.baseline /\ y.draft = e.draft /\ y.submitted = e.submitted
             /\ e.status \notin {"Ready", "Unloaded"} => y = e
<1> DEFINE y == Invalidate(e)
<1>1. e \in EditorOf(Snapshots, Contents)
  BY DEF EditorOK
<1>2. CASE e.status \in {"Ready", "Unloaded"}
  <2>1. y = [e EXCEPT !.status = "ReadRequired"]
    BY <1>2 DEF Invalidate
  <2>2. /\ y \in EditorOf(Snapshots, Contents) /\ y.status = "ReadRequired"
        /\ y.baseline = e.baseline /\ y.draft = e.draft /\ y.submitted = e.submitted
    BY <2>1, <1>1 DEF EditorOf, Status, Unverified
  <2> HIDE DEF y
  <2> QED BY <2>2, <1>2 DEF EditorOK, y
<1>3. CASE e.status \notin {"Ready", "Unloaded"}
  BY <1>3 DEF Invalidate
<1> QED BY <1>2, <1>3

\* An edit changes the draft alone.
LEMMA StageOK ==
  ASSUME NEW e, EditorOK(e), NEW v \in Contents, ObservationAssumption
  PROVE  LET y == Stage(e, v)
         IN  /\ EditorOK(y) /\ y.status = e.status /\ y.baseline = e.baseline
             /\ y.submitted = e.submitted /\ y.draft = v
<1> DEFINE y == Stage(e, v)
<1>1. e \in EditorOf(Snapshots, Contents) /\ v # None
  BY DEF EditorOK, ObservationAssumption
<1>2. y = [e EXCEPT !.draft = v]
  BY DEF Stage
<1>3. /\ y \in EditorOf(Snapshots, Contents) /\ y.status = e.status
      /\ y.baseline = e.baseline /\ y.draft = v /\ y.submitted = e.submitted
  BY <1>1, <1>2 DEF EditorOf
<1> HIDE DEF y
<1> QED BY <1>1, <1>3 DEF EditorOK, y

\* A revert changes the draft alone.
LEMMA RevertOK ==
  ASSUME NEW e, EditorOK(e), CanRevert(e), ObservationAssumption
  PROVE  LET y == Revert(e)
         IN  /\ EditorOK(y) /\ y.status = e.status /\ y.baseline = e.baseline
             /\ y.submitted = e.submitted
<1> DEFINE y == Revert(e)
<1>1. e \in EditorOf(Snapshots, Contents) /\ e.baseline \in Snapshots
  BY DEF EditorOK, EditorOf, CanRevert
<1>2. e.baseline.value \in Contents /\ e.baseline.value # None
  BY <1>1, SnapshotFields
<1>3. y = [e EXCEPT !.draft = e.baseline.value]
  BY DEF Revert
<1>4. /\ y \in EditorOf(Snapshots, Contents) /\ y.status = e.status
      /\ y.baseline = e.baseline /\ y.draft = e.baseline.value /\ y.submitted = e.submitted
  BY <1>1, <1>2, <1>3 DEF EditorOf
<1> HIDE DEF y
<1> QED BY <1>2, <1>4 DEF EditorOK, y

\* A submitted value is the draft.
LEMMA RequestApplyOK ==
  ASSUME NEW e, EditorOK(e), CanRequestApply(e)
  PROVE  LET y == RequestApply(e)
         IN  /\ EditorOK(y) /\ y.status = e.status /\ y.baseline = e.baseline
             /\ y.submitted # None /\ y.draft # None
<1> DEFINE y == RequestApply(e)
<1>1. e \in EditorOf(Snapshots, Contents) /\ e.draft \in Contents \cup {None} /\ e.draft # None
  BY DEF EditorOK, EditorOf, CanRequestApply, Dirty
<1>2. y = [e EXCEPT !.submitted = e.draft]
  BY DEF RequestApply
<1>3. /\ y \in EditorOf(Snapshots, Contents) /\ y.status = e.status
      /\ y.baseline = e.baseline /\ y.draft = e.draft /\ y.submitted = e.draft
  BY <1>1, <1>2 DEF EditorOf
<1> HIDE DEF y
<1> QED BY <1>1, <1>3 DEF EditorOK, y

\* A reading verifies the cache with its snapshot, or leaves it and says so.
LEMMA ReadResultOK ==
  ASSUME NEW e, EditorOK(e), NEW result, ResultOK(result), ObservationAssumption
  PROVE  LET y == ReadResult(e, result)
         IN  /\ EditorOK(y) /\ y.submitted = e.submitted
             /\ y.status = "Ready" => /\ result.kind = "ok" /\ y.baseline = result.snapshot
                                      /\ Dirty(y) => Dirty(e)
             /\ y.status # "Ready" => y.baseline = e.baseline /\ y.status \in {"Read", "Conflict"}
             /\ y.status = "Conflict" => result.kind = "ok"
             /\ e.draft # None => y.draft # None
<1> DEFINE y == ReadResult(e, result)
<1>1. e \in EditorOf(Snapshots, Contents) /\ Fields \subseteq DOMAIN e
  BY EditorFields DEF EditorOK
<1>2. CASE result.kind # "ok"
  <2>1. y = [e EXCEPT !.status = "Read"]
    BY <1>2 DEF ReadResult
  <2>2. /\ y \in EditorOf(Snapshots, Contents) /\ y.status = "Read"
        /\ y.baseline = e.baseline /\ y.draft = e.draft /\ y.submitted = e.submitted
    BY <2>1, <1>1 DEF EditorOf, Status, Unverified
  <2> HIDE DEF y
  <2>3. EditorOK(y)
    BY <2>2 DEF EditorOK
  <2> QED BY <2>2, <2>3 DEF y
<1>3. CASE result.kind = "ok" /\ Dirty(e) /\ e.baseline # result.snapshot
  <2>1. y = [e EXCEPT !.status = "Conflict"]
    BY <1>3 DEF ReadResult
  <2>2. /\ y \in EditorOf(Snapshots, Contents) /\ y.status = "Conflict"
        /\ y.baseline = e.baseline /\ y.draft = e.draft /\ y.submitted = e.submitted
    BY <2>1, <1>1 DEF EditorOf, Status, Unverified
  <2> HIDE DEF y
  <2>3. EditorOK(y)
    BY <2>2 DEF EditorOK
  <2> QED BY <2>2, <2>3, <1>3 DEF y
<1>4. CASE result.kind = "ok" /\ ~(Dirty(e) /\ e.baseline # result.snapshot)
  <2>1. result.snapshot \in Snapshots /\ result.snapshot.value \in Contents
        /\ result.snapshot.value # None /\ result.snapshot # None
    BY <1>4, SnapshotFields DEF ResultOK, Results
  <2> DEFINE v == IF Dirty(e) THEN e.draft ELSE result.snapshot.value
  <2>2. v \in Contents /\ v # None
    BY <2>1, EditorFields DEF Dirty
  <2>3. y = [e EXCEPT !.draft = v, !.baseline = result.snapshot, !.status = "Ready"]
    BY <1>4, <1>1 DEF ReadResult, Fields
  <2> HIDE DEF v
  <2>4. /\ y \in EditorOf(Snapshots, Contents) /\ y.status = "Ready"
        /\ y.baseline = result.snapshot /\ y.draft = v /\ y.submitted = e.submitted
    BY <2>1, <2>2, <2>3, <1>1 DEF EditorOf, Status
  <2> HIDE DEF y
  <2>5. EditorOK(y)
    BY <2>1, <2>2, <2>4 DEF EditorOK
  <2>6. Dirty(y) => Dirty(e)
    BY <2>4 DEF Dirty, v
  <2> QED BY <2>2, <2>4, <2>5, <2>6, <1>4 DEF y
<1> QED BY <1>2, <1>3, <1>4

\* A save verifies the cache with its snapshot, or leaves it and says so.
LEMMA ApplyResultOK ==
  ASSUME NEW e, EditorOK(e), e.draft # None, NEW result, ResultOK(result), ObservationAssumption
  PROVE  LET y == ApplyResult(e, result)
         IN  /\ EditorOK(y) /\ y.draft = e.draft
             /\ y.status = "Ready" => result.kind = "ok" /\ y.baseline = result.snapshot
             /\ y.status # "Ready" => y.baseline = e.baseline /\ y.status \in WriteProblems
<1> DEFINE y == ApplyResult(e, result)
           status == ApplyStatus(e, result)
<1>1. e \in EditorOf(Snapshots, Contents)
  BY DEF EditorOK
<1>2. status \in {"Ready"} \cup WriteProblems
  BY DEF ApplyStatus, WriteProblems
<1>3. status = "Ready" => result.kind = "ok"
  BY DEF ApplyStatus, ResultOK, Results
<1>4. CASE status = "Ready"
  <2>1. result.snapshot \in Snapshots /\ result.snapshot # None
    BY <1>3, <1>4 DEF ResultOK, Results
  <2>2. y = [e EXCEPT !.submitted = None, !.status = "Ready", !.baseline = result.snapshot]
    BY <1>4, <1>1 DEF ApplyResult, EditorOf
  <2>3. /\ y \in EditorOf(Snapshots, Contents) /\ y.status = "Ready"
        /\ y.baseline = result.snapshot /\ y.draft = e.draft
    BY <2>1, <2>2, <1>1 DEF EditorOf, Status
  <2> HIDE DEF y, status
  <2>4. EditorOK(y)
    BY <2>3, <2>1 DEF EditorOK
  <2> QED BY <2>3, <2>4, <1>3, <1>4 DEF y
<1>5. CASE status # "Ready"
  <2>1. y = [e EXCEPT !.submitted = None, !.status = status]
    BY <1>5, <1>1 DEF ApplyResult, EditorOf
  <2> HIDE DEF status
  <2>2. /\ y \in EditorOf(Snapshots, Contents) /\ y.status = status
        /\ y.baseline = e.baseline /\ y.draft = e.draft
    BY <2>1, <1>1, <1>2 DEF EditorOf, Status, Unverified
  <2> HIDE DEF y
  <2>3. status # "Unloaded"
    BY <1>2 DEF WriteProblems
  <2>4. EditorOK(y)
    BY <2>2, <2>3, <1>5 DEF EditorOK
  <2> QED BY <2>2, <2>4, <1>5, <1>2 DEF y
<1> QED BY <1>4, <1>5

\* a and b differ in their requests at most.
SameButPending(b, a) ==
  /\ b.connection = a.connection /\ b.generations = a.generations /\ b.ed = a.ed
  /\ b.activity = a.activity /\ b.observation = a.observation

\* The fields of the command in flight.
LEMMA PendingFields ==
  ASSUME NEW a, AppOK(a), a.pending # None
  PROVE  /\ a.pending \in Requests /\ a.pending.feature \in Loaded
         /\ a.pending.direction \in {"Read", "Save"} /\ a.pending.background \in BOOLEAN
         /\ a.pending.result \in Results \cup {None}
         /\ a.pending.result # None => ResultOK(a.pending.result)
BY DEF AppOK, Apps, Requests, ResultOK

\* A request adds a command in flight and changes nothing else.
LEMMA SubmitOK ==
  ASSUME ObservationAssumption, NEW a, AppOK(a), NEW f \in Loaded,
         NEW direction \in {"Read", "Save"}, NEW background \in BOOLEAN,
         background => direction = "Read",
         direction = "Save" => a.ed[f].submitted # None /\ a.ed[f].draft # None
  PROVE  LET y == Submit(a, f, direction, background)
         IN  /\ AppOK(y) /\ SameButPending(y, a) /\ y.refresh = a.refresh
             /\ y.pending # None /\ y.pending.feature = f /\ y.pending.result = None
<1> DEFINE r == [feature |-> f, direction |-> direction,
                 background |-> background, result |-> None]
           y == Submit(a, f, direction, background)
<1>1. r \in Requests /\ r # None
  BY DEF Requests, ObservationAssumption
<1>2. y = [a EXCEPT !.pending = r]
  BY DEF Submit
<1>3. r.feature = f /\ r.result = None /\ r.direction = direction /\ r.background = background
  OBVIOUS
<1> HIDE DEF r
<1>4. y \in Apps /\ SameButPending(y, a) /\ y.refresh = a.refresh /\ y.pending = r
  BY <1>1, <1>2 DEF AppOK, Apps, SameButPending
<1> HIDE DEF y
<1>5. AppOK(y)
  BY <1>1, <1>3, <1>4 DEF AppOK, SameButPending
<1> QED BY <1>1, <1>3, <1>4, <1>5 DEF y

\* A disconnect leaves no editor verified and no command in flight.
LEMMA DisconnectedOK ==
  ASSUME ObservationAssumption, NEW a, AppOK(a)
  PROVE  LET y == Disconnected(a)
         IN  /\ AppOK(y) /\ y.connection = 0 /\ y.generations = a.generations
             /\ y.pending = None /\ y.refresh = FALSE /\ y.observation = a.observation
             /\ y.ed = [f \in Loaded |-> Invalidate(a.ed[f])]
             /\ \A f \in Loaded : y.ed[f].status # "Ready"
<1> DEFINE y == Disconnected(a)
           ed == [f \in Loaded |-> Invalidate(a.ed[f])]
<1>1. \A f \in Loaded : EditorOK(ed[f]) /\ ed[f].status # "Ready"
  <2> TAKE f \in Loaded
  <2>1. EditorOK(a.ed[f])
    BY DEF AppOK
  <2> QED BY <2>1, InvalidateOK
<1>2. ed \in [Loaded -> EditorOf(Snapshots, Contents)]
  BY <1>1 DEF EditorOK
<1>3. a \in Apps
  BY DEF AppOK
<1>4. y = [a EXCEPT !.connection = 0, !.pending = None, !.refresh = FALSE, !.ed = ed]
  BY <1>3 DEF Disconnected, Apps
<1> HIDE DEF ed
<1>5. /\ y \in Apps /\ y.connection = 0 /\ y.generations = a.generations /\ y.pending = None
      /\ y.refresh = FALSE /\ y.observation = a.observation /\ y.ed = ed
  <2> DEFINE b == [a EXCEPT !.connection = 0, !.pending = None, !.refresh = FALSE]
  <2>1. /\ b \in Apps /\ b.connection = 0 /\ b.generations = a.generations /\ b.pending = None
        /\ b.refresh = FALSE /\ b.observation = a.observation
    BY <1>3 DEF Apps
  <2>2. y = [b EXCEPT !.ed = ed]
    BY <1>3, <1>4 DEF Apps
  <2> HIDE DEF b, y
  <2> QED BY <1>2, <2>1, <2>2 DEF Apps
<1> HIDE DEF y
<1>6. AppOK(y)
  BY <1>1, <1>5 DEF AppOK
<1> QED BY <1>1, <1>5, <1>6 DEF y, ed

\* The refresh asks for one more feature or is over.
LEMMA RefreshNextOK ==
  ASSUME ObservationAssumption, NEW a, AppOK(a)
  PROVE  LET y == RefreshNext(a)
         IN  /\ AppOK(y) /\ SameButPending(y, a)
             /\ y.pending # None => y.pending = a.pending \/ y.pending.result = None
             /\ y.pending = None => a.pending = None
             /\ y.pending = a.pending \/ a.pending # None \/ y.pending.result = None
<1> DEFINE T == {f \in Loaded : /\ a.ed[f].status # "Ready"
                                /\ f = "Macro" => a.ed[f].baseline # None}
           s == <<"Keymap", "Lighting", "Settings", "Picture", "Macro">>
           unready == Keep(s, T)
           y == RefreshNext(a)
<1>1. s \in Seq({"Keymap", "Lighting", "Settings", "Picture", "Macro"})
  OBVIOUS
<1>2. T \subseteq Loaded
  OBVIOUS
<1> HIDE DEF s, T
<1>3. unready \in Seq({"Keymap", "Lighting", "Settings", "Picture", "Macro"})
      /\ ToSet(unready) \subseteq T
  BY <1>1, KeepMembers
<1>4. y = IF unready = <<>> THEN [a EXCEPT !.refresh = FALSE]
          ELSE Submit([a EXCEPT !.refresh = TRUE], Head(unready), "Read", FALSE)
  BY DEF RefreshNext, s, T
<1> HIDE DEF unready
<1>5. unready # <<>> => Head(unready) \in T
  BY <1>3, FirstAndRest
<1> DEFINE set(refresh) == [a EXCEPT !.refresh = refresh]
<1>6. \A refresh \in BOOLEAN : AppOK(set(refresh)) /\ SameButPending(set(refresh), a)
        /\ set(refresh).pending = a.pending
  <2> TAKE refresh \in BOOLEAN
  <2>1. set(refresh) \in Apps /\ SameButPending(set(refresh), a) /\ set(refresh).pending = a.pending
    BY DEF AppOK, Apps, SameButPending
  <2> HIDE DEF set
  <2> QED BY <2>1 DEF AppOK, SameButPending
<1>7. CASE unready = <<>>
  <2>1. y = set(FALSE)
    BY <1>4, <1>7
  <2> HIDE DEF set, y
  <2> QED BY <2>1, <1>6 DEF y
<1>8. CASE unready # <<>>
  <2> DEFINE f == Head(unready)
  <2>1. y = Submit(set(TRUE), f, "Read", FALSE) /\ f \in Loaded
    BY <1>2, <1>4, <1>5, <1>8
  <2> HIDE DEF set, f
  <2>2. AppOK(set(TRUE)) /\ SameButPending(set(TRUE), a)
    BY <1>6
  <2> DEFINE z == Submit(set(TRUE), f, "Read", FALSE)
  <2>3. /\ AppOK(z) /\ SameButPending(z, set(TRUE)) /\ z.pending # None /\ z.pending.result = None
    BY <2>1, <2>2, SubmitOK
  <2> HIDE DEF z, y
  <2>4. y = z
    BY <2>1 DEF z
  <2> QED BY <2>2, <2>3, <2>4 DEF SameButPending, y
<1> QED BY <1>7, <1>8

\* What is no longer ready is read again, under a new generation.
LEMMA AttachedOK ==
  ASSUME ObservationAssumption, NEW a, AppOK(a)
  PROVE  LET y == Attached(a)
         IN  /\ AppOK(y) /\ y.connection # 0
             /\ y.pending # None => y.pending.result = None
             /\ \A f \in Loaded : y.ed[f].status # "Ready"
<1> DEFINE d == Disconnected(a)
           e == [d EXCEPT !.generations = @ + 1]
           g == [e EXCEPT !.connection = e.generations, !.observation = Quiet]
           y == Attached(a)
<1>1. /\ AppOK(d) /\ d.pending = None /\ \A f \in Loaded : d.ed[f].status # "Ready"
  BY DisconnectedOK
<1>2. y = RefreshNext(g)
  BY DEF Attached
<1> HIDE DEF d
<1>3. d \in Apps /\ d.generations \in Nat
  BY <1>1 DEF AppOK, Apps
<1>4. e \in Apps /\ e.generations = d.generations + 1 /\ e.ed = d.ed /\ e.pending = d.pending
  BY <1>3 DEF Apps
<1> HIDE DEF e
<1>5. Quiet \in Observations /\ PictureBehind(Quiet.remaining)
  BY DEF Quiet, Observations, PictureBehind
<1>6. /\ g \in Apps /\ g.connection = d.generations + 1 /\ g.ed = d.ed /\ g.pending = d.pending
      /\ g.observation = Quiet
  BY <1>4, <1>5 DEF Apps
<1> HIDE DEF g
<1>7. AppOK(g) /\ g.connection # 0
  BY <1>1, <1>3, <1>5, <1>6 DEF AppOK
<1> DEFINE z == RefreshNext(g)
<1>8. /\ AppOK(z) /\ SameButPending(z, g)
      /\ z.pending # None => z.pending = g.pending \/ z.pending.result = None
  BY <1>7, RefreshNextOK
<1> HIDE DEF z, y
<1>9. y = z
  BY <1>2 DEF z
<1> QED BY <1>1, <1>6, <1>7, <1>8, <1>9 DEF SameButPending, y

\* What completing a command makes of the editors.
Completed(y, a) ==
  LET f == a.pending.feature
  IN  /\ AppOK(y) /\ y.pending = None /\ y.observation = a.observation
      /\ y.connection = a.connection /\ y.generations = a.generations
      /\ y.activity = a.activity
      /\ \A g \in Loaded \ {f, "Picture"} : y.ed[g] = a.ed[g]
      /\ y.ed[f].status = "Ready" => /\ a.pending.result.kind = "ok"
                                     /\ y.ed[f].baseline = a.pending.result.snapshot
      /\ y.ed[f].status # "Ready" => /\ y.ed[f].baseline = a.ed[f].baseline
                                     /\ y.ed[f].status \in {"Read"} \cup ManualRead
      /\ a.pending.direction = "Read" /\ Dirty(y.ed[f]) /\ y.ed[f].status = "Ready"
           => Dirty(a.ed[f])
      /\ f # "Picture" /\ "Picture" \in Loaded
           => /\ y.ed["Picture"].baseline = a.ed["Picture"].baseline
              /\ y.ed["Picture"].status = "Ready" => y.ed["Picture"] = a.ed["Picture"]
      /\ f = "Lighting" /\ "Picture" \in Loaded
           /\ y.ed["Picture"].status = "Ready" /\ y.ed[f].status = "Ready"
           => Matching(y)

\* Accepting a result changes its own editor, and the picture's when lighting
\* has moved away from it.
LEMMA AcceptedOK ==
  ASSUME ObservationAssumption, NEW a, AppOK(a), a.pending # None, a.pending.result # None
  PROVE  Completed(Accepted(a), a)
<1> DEFINE f == a.pending.feature
           result == a.pending.result
           e == IF a.pending.direction = "Read" THEN ReadResult(a.ed[f], result)
                                                ELSE ApplyResult(a.ed[f], result)
           moved == /\ f = "Lighting" /\ "Picture" \in Loaded
                    /\ e.status \in {"Ready", "Conflict"}
                    /\ a.ed["Picture"].baseline # None
                    /\ a.ed["Picture"].baseline.context # result.snapshot.value
           ed == [g \in Loaded |-> IF g = f THEN e
                                   ELSE IF g = "Picture" /\ moved THEN Invalidate(a.ed[g])
                                   ELSE a.ed[g]]
           y == Accepted(a)
<1>1. /\ f \in Loaded /\ ResultOK(result) /\ a.pending.direction \in {"Read", "Save"}
  BY PendingFields
<1>2. EditorOK(a.ed[f]) /\ (a.pending.direction = "Save" => a.ed[f].draft # None)
  BY <1>1 DEF AppOK
<1>3. /\ EditorOK(e)
      /\ e.status = "Ready" => result.kind = "ok" /\ e.baseline = result.snapshot
      /\ e.status # "Ready" => e.baseline = a.ed[f].baseline /\ e.status \in {"Read"} \cup ManualRead
      /\ a.pending.direction = "Read" /\ Dirty(e) /\ e.status = "Ready" => Dirty(a.ed[f])
  <2>1. CASE a.pending.direction = "Read"
    <3> DEFINE r == ReadResult(a.ed[f], result)
    <3>1. /\ EditorOK(r)
          /\ r.status = "Ready" => /\ result.kind = "ok" /\ r.baseline = result.snapshot
                                   /\ Dirty(r) => Dirty(a.ed[f])
          /\ r.status # "Ready" => r.baseline = a.ed[f].baseline /\ r.status \in {"Read", "Conflict"}
      BY <1>1, <1>2, ReadResultOK
    <3>2. e = r
      BY <2>1
    <3> HIDE DEF r, e
    <3> QED BY <3>1, <3>2, <2>1 DEF ManualRead
  <2>2. CASE a.pending.direction = "Save"
    <3> DEFINE r == ApplyResult(a.ed[f], result)
    <3>1. /\ EditorOK(r)
          /\ r.status = "Ready" => result.kind = "ok" /\ r.baseline = result.snapshot
          /\ r.status # "Ready" => r.baseline = a.ed[f].baseline /\ r.status \in WriteProblems
      BY <1>1, <1>2, <2>2, ApplyResultOK
    <3>2. e = r
      BY <2>2
    <3> HIDE DEF r, e
    <3> QED BY <3>1, <3>2, <2>2 DEF ManualRead
  <2> QED BY <1>1, <2>1, <2>2
<1>4. y = [a EXCEPT !.pending = None, !.ed = ed]
  <2>1. a \in Apps
    BY DEF AppOK
  <2> QED BY <2>1 DEF Accepted, Apps
<1> HIDE DEF e
<1>5. ed[f] = e /\ \A g \in Loaded \ {f, "Picture"} : ed[g] = a.ed[g]
  BY <1>1
<1>6. "Picture" \in Loaded /\ f # "Picture" =>
         ed["Picture"] = IF moved THEN Invalidate(a.ed["Picture"]) ELSE a.ed["Picture"]
  OBVIOUS
<1> HIDE DEF moved
<1>7. \A g \in Loaded : EditorOK(ed[g])
  <2> TAKE g \in Loaded
  <2>1. EditorOK(a.ed[g])
    BY DEF AppOK
  <2>2. EditorOK(Invalidate(a.ed[g]))
    BY <2>1, InvalidateOK
  <2> QED BY <2>1, <2>2, <1>3
<1>8. ed \in [Loaded -> EditorOf(Snapshots, Contents)]
  BY <1>7 DEF EditorOK
<1> HIDE DEF ed
<1>9. /\ y \in Apps /\ y.pending = None /\ y.observation = a.observation /\ y.ed = ed
      /\ y.connection = a.connection /\ y.generations = a.generations /\ y.activity = a.activity
  BY <1>4, <1>8 DEF AppOK, Apps
<1> HIDE DEF y
<1>10. AppOK(y)
  BY <1>7, <1>9 DEF AppOK
<1>11. "Picture" \in Loaded /\ f # "Picture" =>
         /\ ed["Picture"].baseline = a.ed["Picture"].baseline
         /\ ed["Picture"].status = "Ready" => ~moved /\ ed["Picture"] = a.ed["Picture"]
  <2> SUFFICES ASSUME "Picture" \in Loaded, f # "Picture"
               PROVE  /\ ed["Picture"].baseline = a.ed["Picture"].baseline
                      /\ ed["Picture"].status = "Ready" => ~moved /\ ed["Picture"] = a.ed["Picture"]
    OBVIOUS
  <2>1. EditorOK(a.ed["Picture"])
    BY DEF AppOK
  <2> DEFINE i == Invalidate(a.ed["Picture"])
  <2>2. i.baseline = a.ed["Picture"].baseline /\ i.status # "Ready"
    BY <2>1, InvalidateOK
  <2>3. ed["Picture"] = IF moved THEN i ELSE a.ed["Picture"]
    BY <1>6
  <2> HIDE DEF i
  <2> QED BY <2>2, <2>3
<1>12. f = "Lighting" /\ "Picture" \in Loaded /\ ed["Picture"].status = "Ready" /\ e.status = "Ready"
         => ed["Picture"].baseline.context = e.baseline.value
  <2> SUFFICES ASSUME f = "Lighting", "Picture" \in Loaded, ed["Picture"].status = "Ready",
                      e.status = "Ready"
               PROVE  ed["Picture"].baseline.context = e.baseline.value
    OBVIOUS
  <2>1. ~moved /\ ed["Picture"] = a.ed["Picture"]
    BY <1>11
  <2>2. a.ed["Picture"].baseline # None
    BY <2>1, <1>7 DEF EditorOK
  <2>3. a.ed["Picture"].baseline.context = result.snapshot.value
    BY <2>1, <2>2 DEF moved
  <2> QED BY <2>1, <2>3, <1>3
<1>13. Completed(y, a)
  <2>1. y.ed[f] = e
    BY <1>5, <1>9
  <2>2. \A g \in Loaded \ {f, "Picture"} : y.ed[g] = a.ed[g]
    BY <1>5, <1>9
  <2>3. f # "Picture" /\ "Picture" \in Loaded
          => /\ y.ed["Picture"].baseline = a.ed["Picture"].baseline
             /\ y.ed["Picture"].status = "Ready" => y.ed["Picture"] = a.ed["Picture"]
    BY <1>9, <1>11
  <2>4. f = "Lighting" /\ "Picture" \in Loaded /\ y.ed["Picture"].status = "Ready"
          /\ y.ed[f].status = "Ready" => Matching(y)
    BY <2>1, <1>9, <1>12 DEF Matching
  <2> QED BY <1>3, <1>9, <1>10, <2>1, <2>2, <2>3, <2>4 DEF Completed
<1> QED BY <1>13 DEF y

\* A keyboard with a picture has lighting.
LEMMA LightingLoaded ==
  ASSUME ObservationAssumption, "Picture" \in Loaded
  PROVE  "Lighting" \in Loaded /\ "Lighting" \in Loaded \ {"Picture"}
BY DEF ObservationAssumption

\* A reading that is accepted makes up for the notices of its feature.
LEMMA CompletedKept ==
  ASSUME ObservationAssumption, NEW a, AppOK(a), a.pending # None, a.pending.result # None,
         NEW y, Completed(y, a), NEW d, NEW news, NEW gone,
         AnswersKept(a, d, news), CacheKept(a, gone, d, news)
  PROVE  CacheKept(y, gone \ {a.pending.feature}, d, news)
<1> DEFINE f == a.pending.feature
           left == gone \ {f}
<1>1. f \in Loaded /\ y.pending = None /\ y.observation = a.observation
  BY PendingFields DEF Completed
<1>2. \A g : Pending(a, g) <=> g = f
  BY DEF Pending
<1>3. \A g : Queued(y, g) <=> Queued(a, g)
  BY <1>1 DEF Queued
<1>4. y.ed[f].status = "Ready" => Answered(a, f) /\ y.ed[f].baseline = a.pending.result.snapshot
  BY <1>1 DEF Completed, Answered, Pending
<1>5. y.ed[f].status # "Ready" => y.ed[f].status \in {"Read"} \cup ManualRead
  BY DEF Completed
<1>6. \A g \in Loaded \ {f, "Picture"} : y.ed[g] = a.ed[g]
  BY DEF Completed
<1>7. ASSUME NEW g \in Loaded \ {"Picture"} PROVE Kept(y, left, d, news, g)
  <2>1. CASE g = f
    <3>1. AnswerKept(a, d, news, f)
      BY <2>1 DEF AnswersKept
    <3> QED BY <2>1, <3>1, <1>3, <1>4 DEF Kept, AnswerKept
  <2>2. CASE g # f
    <3>1. Kept(a, gone, d, news, g)
      BY DEF CacheKept
    <3>2. y.ed[g] = a.ed[g] /\ ~Pending(a, g) /\ (g \in gone => g \in left)
      BY <2>2, <1>2, <1>6
    <3> QED BY <3>1, <3>2, <1>3 DEF Kept
  <2> QED BY <2>1, <2>2
<1>8. ASSUME "Picture" \in Loaded
      PROVE  ContentKept(y, left, d, news) /\ ContextKept(y, left, d, news)
  <2>1. "Lighting" \in Loaded /\ "Lighting" \in Loaded \ {"Picture"}
    BY <1>8, LightingLoaded
  <2>2. CASE f = "Picture"
    <3>1. PictureAnswerKept(a, d, news)
      BY <1>8 DEF AnswersKept
    <3>2. PictureBehind(a.observation.remaining)
      BY DEF AppOK
    <3>3. Queued(a, "Lighting") => Queued(a, "Picture")
      BY <3>2, BehindMembers DEF Queued
    <3>4. ContentKept(y, left, d, news)
      BY <2>2, <3>1, <3>3, <1>1, <1>3, <1>4
      DEF PictureAnswerKept, PictureTold, ContentKept, LightingFirst
    <3>5. ContextKept(y, left, d, news)
      BY <2>2, <3>1, <1>3, <1>4 DEF PictureAnswerKept, ContextKept
    <3> QED BY <3>4, <3>5
  <2>3. CASE f # "Picture"
    <3>1. /\ y.ed["Picture"].baseline = a.ed["Picture"].baseline
          /\ y.ed["Picture"].status = "Ready" => y.ed["Picture"] = a.ed["Picture"]
      BY <2>3, <1>8 DEF Completed
    <3>2. ContentKept(a, gone, d, news) /\ ContextKept(a, gone, d, news)
      BY <1>8 DEF CacheKept
    <3>3. ~Pending(a, "Picture") /\ ("Picture" \in gone => "Picture" \in left)
      BY <2>3, <1>2
    <3> SUFFICES ASSUME y.ed["Picture"].status = "Ready"
                 PROVE  ContentKept(y, left, d, news) /\ ContextKept(y, left, d, news)
      BY DEF ContentKept, ContextKept
    <3>4. y.ed["Picture"] = a.ed["Picture"]
      BY <3>1
    <3>5. CASE f = "Lighting"
      <4>1. y.ed["Lighting"].status = "Ready" => Matching(y)
        BY <3>5, <1>8 DEF Completed
      <4>2. y.ed["Lighting"].status # "Ready" => y.ed["Lighting"].status # "ReadRequired"
        BY <3>5, <1>5 DEF ManualRead, WriteProblems
      <4>3. LightingFirst(y)
        BY <4>1, <4>2 DEF LightingFirst
      <4>4. OutOfSight(a) => OutOfSight(y)
        BY <4>1, <3>4 DEF OutOfSight
      <4>5. ContentKept(y, left, d, news)
        BY <4>3, <4>4, <3>2, <3>3, <3>4, <1>1, <1>3 DEF ContentKept
      <4>6. AnswerKept(a, d, news, "Lighting")
        BY <2>1 DEF AnswersKept
      <4>7. Held(d, "Lighting").value = d["Lighting"]
        BY DEF Held
      <4>8. ContextKept(y, left, d, news)
        BY <4>1, <4>6, <4>7, <1>3, <1>4, <3>5 DEF AnswerKept, ContextKept, Matching
      <4> QED BY <4>5, <4>8
    <3>6. CASE f # "Lighting"
      <4>1. y.ed["Lighting"] = a.ed["Lighting"] /\ ~Pending(a, "Lighting")
        BY <3>6, <2>1, <1>2, <1>6
      <4>2. LightingFirst(a) => LightingFirst(y)
        BY <4>1, <3>4, <1>3 DEF LightingFirst, Matching
      <4>3. OutOfSight(a) => OutOfSight(y)
        BY <4>1, <3>4 DEF OutOfSight, Matching
      <4>4. ContentKept(y, left, d, news)
        BY <4>2, <4>3, <3>2, <3>3, <3>4, <1>1, <1>3 DEF ContentKept
      <4>5. ContextKept(y, left, d, news)
        BY <4>1, <3>2, <3>3, <3>4, <1>3 DEF ContextKept
      <4> QED BY <4>4, <4>5
    <3> QED BY <3>5, <3>6
  <2> QED BY <2>2, <2>3
<1> QED BY <1>7, <1>8 DEF CacheKept

\* A request that is new changes nothing of what is cached.
LEMMA RequestKept ==
  ASSUME NEW a, NEW y, NEW d, NEW news, NEW gone,
         y.ed = a.ed, y.observation.remaining = a.observation.remaining,
         y.observation.pictureRequired = a.observation.pictureRequired,
         a.pending = None \/ y.pending = a.pending,
         CacheKept(a, gone, d, news)
  PROVE  CacheKept(y, gone, d, news)
<1>1. \A g : (Queued(y, g) <=> Queued(a, g)) /\ (Pending(a, g) => Pending(y, g))
  BY DEF Queued, Pending
<1>2. \A g \in Loaded \ {"Picture"} : Kept(y, gone, d, news, g)
  BY <1>1 DEF CacheKept, Kept
<1>3. ASSUME "Picture" \in Loaded
      PROVE  ContentKept(y, gone, d, news) /\ ContextKept(y, gone, d, news)
  <2>1. ContentKept(a, gone, d, news) /\ ContextKept(a, gone, d, news)
    BY <1>3 DEF CacheKept
  <2>2. LightingFirst(a) => LightingFirst(y)
    BY <1>1 DEF LightingFirst, Matching
  <2>3. OutOfSight(a) => OutOfSight(y)
    BY DEF OutOfSight, Matching
  <2> QED BY <1>1, <2>1, <2>2, <2>3 DEF ContentKept, ContextKept
<1> QED BY <1>2, <1>3 DEF CacheKept

\* With no result in flight there is no answer to keep.
LEMMA NoAnswer ==
  ASSUME NEW y, NEW d, NEW news, y.pending = None \/ y.pending.result = None
  PROVE  AnswersKept(y, d, news)
BY DEF AnswersKept, AnswerKept, PictureAnswerKept, Answered, Pending

-----------------------------------------------------------------------------
(* A notice is queued. *)

Received(y, a, c) ==
  /\ AppOK(y)
  /\ y.connection = a.connection /\ y.generations = a.generations /\ y.ed = a.ed
  /\ y.pending = a.pending /\ y.activity = a.activity /\ y.refresh = a.refresh
  /\ ToSet(y.observation.remaining) = ToSet(a.observation.remaining) \cup ToSet(Features(c))
  /\ a.observation.pictureRequired \/ c = "Configuration" => y.observation.pictureRequired

\* Receiving a notice queues every feature it concerns, lighting before the picture.
LEMMA ReceiveOK ==
  ASSUME NEW a, AppOK(a), NEW c \in Changes
  PROVE  Received(Receive(a, c), a, c)
<1> DEFINE queue == a.observation.remaining
           features == Features(c)
           kept == Retained(queue, features)
           new == Keep(features, ToSet(features) \ ToSet(kept))
           required == a.observation.pictureRequired \/ c = "Configuration"
           y == Receive(a, c)
           T == ToSet(Order)
<1>1. a \in Apps /\ a.observation \in Observations /\ queue \in Seq(T) /\ PictureBehind(queue)
  BY DEF AppOK, Apps, Observations
<1>2. features \in Seq(T)
  BY FeaturesType
<1>3. y = [a EXCEPT !.observation.remaining = kept \o new, !.observation.due = TRUE,
                    !.observation.pictureRequired = required]
  BY <1>1 DEF Receive, Apps, Observations
<1>4. required \in BOOLEAN
  BY <1>1 DEF Observations
<1> HIDE DEF features, required, T
<1>5. /\ kept \in Seq(T)
      /\ "Lighting" \in ToSet(features) => ToSet(kept) = ToSet(queue) \ {"Picture"}
      /\ "Lighting" \notin ToSet(features) => kept = queue
  <2>1. /\ Keep(queue, ToSet(queue) \ {"Picture"}) \in Seq(T)
        /\ ToSet(Keep(queue, ToSet(queue) \ {"Picture"})) = ToSet(queue) \cap (ToSet(queue) \ {"Picture"})
    BY <1>1, KeepMembers
  <2> QED BY <1>1, <2>1 DEF Retained
<1> HIDE DEF kept, queue
<1>6. new \in Seq(T) /\ ToSet(new) = ToSet(features) \cap (ToSet(features) \ ToSet(kept))
  BY <1>2, KeepMembers
<1> HIDE DEF new
<1>7. kept \o new \in Seq(T) /\ ToSet(kept \o new) = ToSet(kept) \cup ToSet(new)
  BY <1>5, <1>6, ConcatMembers
<1>8. ASSUME c \in {"Lighting", "Configuration"}
      PROVE  PictureBehind(kept \o new) /\ ToSet(kept \o new) = ToSet(queue) \cup ToSet(features)
  <2>1. /\ "Lighting" \in ToSet(features) /\ "Picture" \in ToSet(features)
        /\ features # <<>> /\ features[Len(features)] = "Picture"
    BY <1>8, FeaturesOrdered DEF features
  <2>2. features[Len(features)] \in ToSet(features) \ ToSet(kept)
    BY <2>1, <1>5
  <2>3. new # <<>> /\ new[Len(new)] = "Picture"
    <3> DEFINE S == ToSet(features) \ ToSet(kept)
    <3>1. features[Len(features)] \in S
      BY <2>2
    <3>2. new = Keep(features, S)
      BY DEF new
    <3> HIDE DEF S
    <3>3. Keep(features, S) # <<>> /\ Keep(features, S)[Len(Keep(features, S))] = features[Len(features)]
      BY <1>2, <2>1, <3>1, KeepLast
    <3> QED BY <2>1, <3>2, <3>3
  <2>4. /\ Len(new) \in Nat /\ Len(new) # 0 /\ Len(kept) \in Nat
        /\ Len(kept \o new) = Len(kept) + Len(new)
        /\ (kept \o new)[Len(kept) + Len(new)] = new[Len(new)]
    BY <1>5, <1>6, <2>3
  <2>5. kept \o new # <<>> /\ (kept \o new)[Len(kept \o new)] = "Picture"
    BY <2>3, <2>4
  <2>6. PictureBehind(kept \o new)
    BY <1>7, <2>5, PictureLast
  <2>7. ToSet(kept \o new) = ToSet(queue) \cup ToSet(features)
    BY <1>5, <1>6, <1>7, <2>1
  <2> QED BY <2>6, <2>7
<1>9. ASSUME c \notin {"Lighting", "Configuration"}
      PROVE  PictureBehind(kept \o new) /\ ToSet(kept \o new) = ToSet(queue) \cup ToSet(features)
  <2>1. ToSet(features) = {"Settings"}
    BY <1>9, SettingsAlone DEF features, Changes
  <2>2. kept = queue
    BY <2>1, <1>5
  <2>3. "Lighting" \notin ToSet(new)
    BY <2>1, <1>6
  <2>4. PictureBehind(queue \o new)
    BY <1>1, <1>5, <1>6, <2>2, <2>3, BehindWithMore
  <2>5. ToSet(kept \o new) = ToSet(queue) \cup ToSet(features)
    BY <2>2, <1>6, <1>7
  <2> QED BY <2>2, <2>4, <2>5
<1>10. PictureBehind(kept \o new) /\ ToSet(kept \o new) = ToSet(queue) \cup ToSet(features)
  BY <1>8, <1>9
<1> DEFINE r == kept \o new
<1>11. r \in Seq(T)
  BY <1>7
<1>12. y = [a EXCEPT !.observation.remaining = r, !.observation.due = TRUE,
                     !.observation.pictureRequired = required]
  BY <1>3
<1>13. PictureBehind(r) /\ ToSet(r) = ToSet(queue) \cup ToSet(features)
  BY <1>10
<1> HIDE DEF r, y
<1> DEFINE o == [a.observation EXCEPT !.remaining = r, !.due = TRUE, !.pictureRequired = required]
<1>14. o \in Observations /\ o.remaining = r /\ o.pictureRequired = required
  BY <1>1, <1>4, <1>11 DEF Observations, T
<1>15. y = [a EXCEPT !.observation = o]
  BY <1>1, <1>12 DEF Apps, Observations
<1> HIDE DEF o
<1>16. /\ y \in Apps /\ y.observation = o
       /\ y.connection = a.connection /\ y.generations = a.generations /\ y.ed = a.ed
       /\ y.pending = a.pending /\ y.activity = a.activity /\ y.refresh = a.refresh
  BY <1>1, <1>14, <1>15 DEF Apps
<1>17. AppOK(y)
  BY <1>13, <1>14, <1>16 DEF AppOK
<1> QED BY <1>13, <1>14, <1>16, <1>17 DEF Received, required, queue, features, y

\* A notice that is queued is as good as one under way.
LEMMA ReceiveKept ==
  ASSUME ObservationAssumption, NEW a, NEW y, NEW c \in Changes, Received(y, a, c),
         NEW d, NEW news, NEW later, news \subseteq later \cup {c}, NEW gone,
         AnswersKept(a, d, news), CacheKept(a, gone, d, news)
  PROVE  AnswersKept(y, d, later) /\ CacheKept(y, gone, d, later)
<1>1. \A g : Queued(a, g) => Queued(y, g)
  BY DEF Received, Queued
<1>2. \A g : Told(news, g) => Told(later, g) \/ Queued(y, g)
  BY DEF Received, Queued, Told
<1>3. "Configuration" \in news =>
        \/ "Configuration" \in later
        \/ y.observation.pictureRequired /\ Queued(y, "Lighting") /\ Queued(y, "Picture")
  <2> SUFFICES ASSUME c = "Configuration"
               PROVE  y.observation.pictureRequired /\ Queued(y, "Lighting") /\ Queued(y, "Picture")
    OBVIOUS
  <2>1. "Lighting" \in ToSet(Features(c)) /\ "Picture" \in ToSet(Features(c))
    BY FeaturesOrdered
  <2> QED BY <2>1 DEF Received, Queued
<1>4. PictureTold(a, news) => PictureTold(y, later)
  BY <1>1, <1>3 DEF PictureTold, Received
<1>5. y.pending = a.pending /\ y.ed = a.ed
  BY DEF Received
<1>6. \A g : (Answered(y, g) <=> Answered(a, g)) /\ (Pending(y, g) <=> Pending(a, g))
  BY <1>5 DEF Answered, Pending
<1>7. AnswersKept(y, d, later)
  <2>1. ASSUME NEW g \in Loaded \ {"Picture"} PROVE AnswerKept(y, d, later, g)
    BY <1>1, <1>2, <1>5, <1>6 DEF AnswersKept, AnswerKept
  <2>2. ASSUME "Picture" \in Loaded PROVE PictureAnswerKept(y, d, later)
    <3>1. PictureAnswerKept(a, d, news)
      BY <2>2 DEF AnswersKept
    <3> QED BY <3>1, <1>1, <1>2, <1>4, <1>5, <1>6 DEF PictureAnswerKept
  <2> QED BY <2>1, <2>2 DEF AnswersKept
<1>8. CacheKept(y, gone, d, later)
  <2>1. ASSUME NEW g \in Loaded \ {"Picture"} PROVE Kept(y, gone, d, later, g)
    <3>1. Kept(a, gone, d, news, g)
      BY DEF CacheKept
    <3> QED BY <3>1, <1>1, <1>2, <1>5, <1>6 DEF Kept
  <2>2. ASSUME "Picture" \in Loaded
        PROVE  ContentKept(y, gone, d, later) /\ ContextKept(y, gone, d, later)
    <3>1. ContentKept(a, gone, d, news) /\ ContextKept(a, gone, d, news)
      BY <2>2 DEF CacheKept
    <3>2. LightingFirst(a) => LightingFirst(y)
      BY <1>1, <1>5, <1>6 DEF LightingFirst, Matching
    <3>3. OutOfSight(a) => OutOfSight(y)
      BY <1>5 DEF OutOfSight, Matching
    <3>4. Queued(y, "Lighting") => LightingFirst(y)
      BY DEF LightingFirst
    <3>5. a.observation.pictureRequired => y.observation.pictureRequired
      BY DEF Received
    <3>6. ContentKept(y, gone, d, later)
      BY <3>1, <3>2, <3>3, <3>4, <3>5, <1>1, <1>3, <1>5, <1>6 DEF ContentKept
    <3>7. ContextKept(y, gone, d, later)
      BY <3>1, <1>1, <1>2, <1>5, <1>6 DEF ContextKept
    <3> QED BY <3>6, <3>7
  <2> QED BY <2>1, <2>2 DEF CacheKept
<1> QED BY <1>7, <1>8

\* What taking the next feature to observe makes of the queue.
Observed(y, a) ==
  /\ AppOK(y)
  /\ y.connection = a.connection /\ y.generations = a.generations /\ y.ed = a.ed
  /\ y.activity = a.activity
  /\ y.pending # None => y.pending.result = None
  /\ \A g : Queued(y, g) => Queued(a, g)
  /\ \A g : Queued(a, g) => Queued(y, g) \/ Pending(y, g) \/ ~Readable(a, g)
  /\ a.observation.pictureRequired /\ Queued(y, "Picture") =>
       y.observation.pictureRequired \/ Pending(y, "Picture")
  /\ Queued(a, "Lighting") =>
       Queued(y, "Picture") \/ Pending(y, "Picture") \/ ~Readable(a, "Lighting")

\* The queue is at rest.
LEMMA QuietOK ==
  ASSUME NEW a, AppOK(a), NEW y, NEW u \in BOOLEAN,
         y = [a EXCEPT !.observation = [Quiet EXCEPT !.unavailable = u]]
  PROVE  /\ AppOK(y) /\ y.observation.remaining = <<>>
         /\ y.connection = a.connection /\ y.generations = a.generations /\ y.ed = a.ed
         /\ y.pending = a.pending /\ y.activity = a.activity /\ y.refresh = a.refresh
<1> DEFINE o == [Quiet EXCEPT !.unavailable = u]
           T == ToSet(Order)
<1>1. /\ DOMAIN Quiet = {"remaining", "due", "pictureRequired", "unavailable"}
      /\ Quiet.remaining = <<>> /\ Quiet.due = FALSE /\ Quiet.pictureRequired = FALSE
      /\ Quiet.unavailable = FALSE
  BY DEF Quiet
<1>2. o \in Observations /\ o.remaining = <<>>
  <2>1. Quiet \in Observations
    <3> HIDE DEF T
    <3>1. <<>> \in Seq(T)
      OBVIOUS
    <3>2. Quiet = [remaining |-> <<>>, due |-> FALSE, pictureRequired |-> FALSE, unavailable |-> FALSE]
      BY DEF Quiet
    <3> QED BY <3>1, <3>2 DEF Observations, T
  <2> QED BY <2>1, <1>1 DEF Observations
<1>3. y = [a EXCEPT !.observation = o]
  OBVIOUS
<1> HIDE DEF o
<1>4. a \in Apps
  BY DEF AppOK
<1>5. /\ y \in Apps /\ y.observation = o
      /\ y.connection = a.connection /\ y.generations = a.generations /\ y.ed = a.ed
      /\ y.pending = a.pending /\ y.activity = a.activity /\ y.refresh = a.refresh
  BY <1>2, <1>3, <1>4 DEF Apps
<1>6. PictureBehind(y.observation.remaining)
  BY <1>2, <1>5 DEF PictureBehind
<1>7. AppOK(y)
  BY <1>5, <1>6 DEF AppOK
<1> QED BY <1>2, <1>5, <1>7

\* Taking the next feature to observe passes over what cannot be read only.
LEMMA ObserveNextOK ==
  ASSUME ObservationAssumption, NEW a, AppOK(a), a.pending = None
  PROVE  Observed(ObserveNext(a), a)
<1> DEFINE queue == a.observation.remaining
           found == {i \in DOMAIN queue : Readable(a, queue[i])}
           i == CHOOSE i \in found : \A j \in found : i <= j
           rest == [a EXCEPT !.observation.remaining = SubSeq(@, i + 1, Len(@)),
                             !.observation.pictureRequired = @ /\ queue[i] # "Picture"]
           y == ObserveNext(a)
           T == ToSet(Order)
<1>1. a \in Apps /\ a.observation \in Observations /\ queue \in Seq(T) /\ PictureBehind(queue)
  BY DEF AppOK, Apps, Observations
<1>2. CASE found = {}
  <2>1. y = [a EXCEPT !.observation = [Quiet EXCEPT !.unavailable = a.observation.unavailable]]
    BY <1>2 DEF ObserveNext
  <2>2. a.observation.unavailable \in BOOLEAN
    BY <1>1 DEF Observations
  <2>3. \A g : Queued(a, g) => ~Readable(a, g)
    BY <1>2 DEF Queued, ToSet
  <2> HIDE DEF y
  <2>4. /\ AppOK(y) /\ y.observation.remaining = <<>>
        /\ y.connection = a.connection /\ y.generations = a.generations /\ y.ed = a.ed
        /\ y.pending = a.pending /\ y.activity = a.activity
    BY <2>1, <2>2, QuietOK
  <2>5. \A g : ~Queued(y, g)
    BY <2>4 DEF Queued, ToSet
  <2>6. Observed(y, a)
    BY <2>3, <2>4, <2>5 DEF Observed
  <2> QED BY <2>6 DEF y
<1>3. CASE found # {}
  <2>1. i \in found /\ \A j \in found : i <= j
    <3>1. DOMAIN queue \in SUBSET Nat
      BY <1>1
    <3>2. found \in SUBSET Nat
      BY <3>1
    <3> HIDE DEF found
    <3>3. \E k \in found : \A j \in found : k <= j
      BY <1>3, <3>2, LeastNumber
    <3> QED BY <3>3
  <2>2. y = Submit(rest, queue[i], "Read", TRUE)
    BY <1>3 DEF ObserveNext
  <2> DEFINE r == SubSeq(queue, i + 1, Len(queue))
             required == a.observation.pictureRequired /\ queue[i] # "Picture"
  <2>3. rest = [a EXCEPT !.observation.remaining = r, !.observation.pictureRequired = required]
    BY <1>1 DEF Apps, Observations
  <2> HIDE DEF i, y
  <2>4. i \in DOMAIN queue /\ Readable(a, queue[i])
    BY <2>1
  <2>5. \A j \in DOMAIN queue : j < i => ~Readable(a, queue[j])
    <3> TAKE j \in DOMAIN queue
    <3>1. j \in Nat /\ i \in Nat
      BY <1>1, <2>4
    <3> QED BY <3>1, <2>1
  <2> HIDE DEF found
  <2>6. queue[i] \in Loaded
    BY <2>4 DEF Readable
  <2> HIDE DEF queue
  <2>7. /\ r \in Seq(T) /\ ToSet(r) \subseteq ToSet(queue)
        /\ DOMAIN r = 1 .. (Len(queue) - i)
        /\ \A n \in DOMAIN queue : n > i => n - i \in DOMAIN r /\ r[n - i] = queue[n]
    BY <1>1, <2>4, AfterElement
  <2>8. PictureBehind(r)
    BY <1>1, <2>4, BehindAfter
  <2>9. \A n \in DOMAIN queue : n > i => queue[n] \in ToSet(r)
    BY <2>7 DEF ToSet
  <2> HIDE DEF r, rest
  <2>10. required \in BOOLEAN
    BY <1>1 DEF Observations
  <2> DEFINE o == [a.observation EXCEPT !.remaining = r, !.pictureRequired = required]
  <2>11. o \in Observations /\ o.remaining = r /\ o.pictureRequired = required
    <3> HIDE DEF required
    <3> QED BY <1>1, <2>7, <2>10 DEF Observations
  <2>12. rest = [a EXCEPT !.observation = o]
    <3> HIDE DEF required
    <3> QED BY <1>1, <2>3 DEF Apps, Observations
  <2> HIDE DEF o
  <2>13. /\ rest \in Apps /\ rest.observation = o
         /\ rest.connection = a.connection /\ rest.generations = a.generations /\ rest.ed = a.ed
         /\ rest.pending = a.pending /\ rest.activity = a.activity /\ rest.refresh = a.refresh
    BY <1>1, <2>11, <2>12 DEF Apps
  <2>14. AppOK(rest)
    BY <2>8, <2>11, <2>13 DEF AppOK
  <2> DEFINE z == Submit(rest, queue[i], "Read", TRUE)
  <2>15. /\ AppOK(z) /\ SameButPending(z, rest)
         /\ z.pending # None /\ z.pending.feature = queue[i] /\ z.pending.result = None
    BY <2>6, <2>14, SubmitOK
  <2>16. y = z
    BY <2>2
  <2> HIDE DEF z
  <2>17. /\ AppOK(y) /\ y.observation = o /\ y.ed = a.ed /\ y.activity = a.activity
         /\ y.connection = a.connection /\ y.generations = a.generations
         /\ y.pending # None /\ y.pending.feature = queue[i] /\ y.pending.result = None
    BY <2>13, <2>15, <2>16 DEF SameButPending
  <2>18. \A g : (Queued(y, g) <=> g \in ToSet(r)) /\ (Queued(a, g) <=> g \in ToSet(queue))
    BY <2>11, <2>17 DEF Queued, queue
  <2>19. \A g : Pending(y, g) <=> g = queue[i]
    BY <2>17 DEF Pending
  <2>20. ASSUME NEW n \in DOMAIN queue
         PROVE  queue[n] \in ToSet(r) \/ queue[n] = queue[i] \/ (n < i /\ ~Readable(a, queue[n]))
    <3>1. n \in Nat /\ i \in Nat
      BY <1>1, <2>4
    <3>2. n > i \/ n = i \/ n < i
      BY <3>1
    <3> QED BY <3>2, <2>5, <2>9
  <2>21. \A g : Queued(a, g) => Queued(y, g) \/ Pending(y, g) \/ ~Readable(a, g)
    <3> TAKE g
    <3> SUFFICES ASSUME Queued(a, g) PROVE Queued(y, g) \/ Pending(y, g) \/ ~Readable(a, g)
      OBVIOUS
    <3>1. PICK n \in DOMAIN queue : queue[n] = g
      BY <2>18 DEF ToSet
    <3> QED BY <3>1, <2>18, <2>19, <2>20
  <2>22. Queued(a, "Lighting") =>
           Queued(y, "Picture") \/ Pending(y, "Picture") \/ ~Readable(a, "Lighting")
    <3> SUFFICES ASSUME Queued(a, "Lighting")
                 PROVE  Queued(y, "Picture") \/ Pending(y, "Picture") \/ ~Readable(a, "Lighting")
      OBVIOUS
    <3>1. PICK m \in DOMAIN queue : queue[m] = "Lighting"
      BY <2>18 DEF ToSet
    <3>2. PICK n \in DOMAIN queue : m < n /\ queue[n] = "Picture"
      BY <1>1, <3>1 DEF PictureBehind
    <3>3. n < i => m < i
      BY <3>2, <1>1, <2>4
    <3> QED BY <3>1, <3>2, <3>3, <2>5, <2>18, <2>19, <2>20
  <2>23. a.observation.pictureRequired =>
           y.observation.pictureRequired \/ Pending(y, "Picture")
    BY <2>11, <2>17, <2>19 DEF required
  <2>24. \A g : Queued(y, g) => Queued(a, g)
    BY <2>7, <2>18
  <2>25. Observed(y, a)
    BY <2>17, <2>21, <2>22, <2>23, <2>24 DEF Observed
  <2> QED BY <2>25 DEF y
<1> QED BY <1>2, <1>3

\* More may be given up.
LEMMA KeptByMore ==
  ASSUME NEW a, NEW d, NEW news, NEW gone, NEW more, gone \subseteq more,
         CacheKept(a, gone, d, news)
  PROVE  CacheKept(a, more, d, news)
BY DEF CacheKept, Kept, ContentKept, ContextKept

\* The notices of a queue that is emptied are given up.
LEMMA EmptiedKept ==
  ASSUME NEW a, AppOK(a), NEW y, y.ed = a.ed, y.pending = a.pending,
         NEW d, NEW news, NEW gone, CacheKept(a, gone, d, news),
         NEW more, gone \cup ToSet(a.observation.remaining) \subseteq more
  PROVE  CacheKept(y, more, d, news)
<1>1. \A g : (Queued(a, g) => g \in more) /\ (Pending(y, g) <=> Pending(a, g))
  BY DEF Queued, Pending
<1>2. \A g : g \in gone => g \in more
  OBVIOUS
<1>3. Queued(a, "Lighting") => "Picture" \in more
  <2>1. PictureBehind(a.observation.remaining)
    BY DEF AppOK
  <2> QED BY <2>1, <1>1, BehindMembers DEF Queued
<1>4. ASSUME NEW g \in Loaded \ {"Picture"} PROVE Kept(y, more, d, news, g)
  <2>1. Kept(a, gone, d, news, g)
    BY DEF CacheKept
  <2> QED BY <2>1, <1>1, <1>2 DEF Kept
<1>5. ASSUME "Picture" \in Loaded
      PROVE  ContentKept(y, more, d, news) /\ ContextKept(y, more, d, news)
  <2>1. ContentKept(a, gone, d, news) /\ ContextKept(a, gone, d, news)
    BY <1>5 DEF CacheKept
  <2>2. OutOfSight(a) => OutOfSight(y)
    BY DEF OutOfSight, Matching
  <2> QED BY <2>1, <2>2, <1>1, <1>2, <1>3 DEF ContentKept, ContextKept
<1> QED BY <1>4, <1>5 DEF CacheKept

\* What can be observed at all has no conflict and no failure.
LEMMA ObservableStatus ==
  ASSUME NEW a, CanObserve(a), AppOK(a), NEW g \in Loaded,
         a.ed[g].status \notin {"Ready", "ReadRequired"}
  PROVE  a.ed[g].baseline = None
<1>1. a.ed[g].status \in Status /\ EditorOK(a.ed[g])
  BY EditorFields DEF AppOK
<1>2. a.ed[g].status \notin ManualRead /\ a.ed[g].status # "Read"
  BY DEF CanObserve, ManuallyRead, ReadFailed
<1>3. a.ed[g].status = "Unloaded"
  BY <1>1, <1>2 DEF Status, Unverified, ManualRead
<1> QED BY <1>1, <1>3 DEF EditorOK

\* Taking the next feature to observe gives up a picture that is hidden.
LEMMA ObservedKept ==
  ASSUME ObservationAssumption, NEW a, AppOK(a), CanObserve(a), NEW y, Observed(y, a),
         NEW d, NEW news, NEW gone, CacheKept(a, gone, d, news),
         NEW more, gone \subseteq more,
         \A g \in Hidden(a) : Queued(a, g) => Queued(y, g) \/ g \in more
  PROVE  CacheKept(y, more, d, news)
<1>1. y.ed = a.ed /\ a.pending = None
  BY DEF Observed, CanObserve
<1>2. \A g : ~Pending(a, g)
  BY <1>1 DEF Pending
<1>3. \A g : Queued(a, g) => Queued(y, g) \/ Pending(y, g) \/ ~Readable(a, g)
  BY DEF Observed
<1>4. \A g : g \in gone => g \in more
  OBVIOUS
<1>5. \A g \in Loaded \ {"Picture"} : Queued(a, g) =>
        Queued(y, g) \/ Pending(y, g) \/ a.ed[g].status # "Ready"
  <2> TAKE g \in Loaded \ {"Picture"}
  <2>1. EditorOK(a.ed[g])
    BY DEF AppOK
  <2>2. a.ed[g].status = "Ready" => Readable(a, g)
    BY <2>1 DEF EditorOK, Readable
  <2> QED BY <2>2, <1>3
<1>6. ASSUME NEW g \in Loaded \ {"Picture"} PROVE Kept(y, more, d, news, g)
  <2>1. Kept(a, gone, d, news, g)
    BY DEF CacheKept
  <2> QED BY <2>1, <1>1, <1>2, <1>4, <1>5 DEF Kept
<1>7. ASSUME "Picture" \in Loaded
      PROVE  ContentKept(y, more, d, news) /\ ContextKept(y, more, d, news)
  <2>1. ContentKept(a, gone, d, news) /\ ContextKept(a, gone, d, news)
    BY <1>7 DEF CacheKept
  <2>2. "Lighting" \in Loaded /\ "Lighting" \in Loaded \ {"Picture"}
    BY <1>7, LightingLoaded
  <2>3. ContextKept(y, more, d, news)
    BY <2>1, <2>2, <1>1, <1>2, <1>4, <1>5 DEF ContextKept
  <2>4. OutOfSight(a) => OutOfSight(y)
    BY <1>1 DEF OutOfSight, Matching
  <2> DEFINE l == a.ed["Lighting"]
             p == a.ed["Picture"]
  <2>5. EditorOK(l) /\ EditorOK(p)
    BY <1>7, <2>2 DEF AppOK
  <2>6. l.status \notin {"Ready", "ReadRequired"} => l.baseline = None
    BY <2>2, ObservableStatus
  <2>7. Queued(a, "Lighting") =>
          Queued(y, "Lighting") \/ Pending(y, "Lighting") \/ l.baseline = None
    <3>1. l.baseline # None => Readable(a, "Lighting")
      BY <2>2, <2>6 DEF Readable
    <3> QED BY <3>1, <1>3
  <2>8. LightingFirst(a) => LightingFirst(y)
    BY <2>7, <1>1, <1>2 DEF LightingFirst, Matching
  <2>9. ASSUME Queued(a, "Picture"), a.observation.pictureRequired, LightingFirst(a),
               p.status = "Ready", ~Queued(y, "Picture"), ~Pending(y, "Picture"),
               "Picture" \notin more
        PROVE  OutOfSight(a)
    <3>1. "Picture" \notin Hidden(a)
      BY <2>9
    <3>2. ~Dirty(l) /\ l.baseline # None
      BY <3>1, <2>2 DEF Hidden
    <3>3. ~PictureActive(a)
      <4>1. ~Readable(a, "Picture")
        BY <2>9, <1>3
      <4> QED BY <4>1, <2>5, <2>9, <1>7 DEF Readable, EditorOK
    <3>4. ~Queued(a, "Lighting")
      <4> SUFFICES ASSUME Queued(a, "Lighting") PROVE FALSE
        OBVIOUS
      <4>1. ~Readable(a, "Lighting")
        BY <2>9 DEF Observed
      <4> QED BY <4>1, <2>2, <2>6, <3>2 DEF Readable
    <3>5. l.status = "Ready" /\ Matching(a)
      BY <2>9, <3>2, <3>4, <2>6, <1>2 DEF LightingFirst
    <3>6. l.draft = l.baseline.value
      BY <3>2, <2>5 DEF Dirty, EditorOK
    <3>7. l.baseline.value # PictureEffect
      BY <3>2, <3>3, <3>5, <3>6 DEF PictureActive
    <3> QED BY <3>5, <3>7 DEF OutOfSight, Matching
  <2>10. Queued(y, "Picture") /\ a.observation.pictureRequired =>
            y.observation.pictureRequired \/ Pending(y, "Picture")
    BY DEF Observed
  <2>11. ContentKept(y, more, d, news)
    BY <2>1, <2>4, <2>8, <2>9, <2>10, <1>1, <1>2, <1>4 DEF ContentKept
  <2> QED BY <2>3, <2>11
<1> QED BY <1>6, <1>7 DEF CacheKept

\* What a handler keeps that may begin a reading.
Begun(y, a) ==
  /\ AppOK(y)
  /\ y.connection = a.connection /\ y.generations = a.generations /\ y.ed = a.ed
  /\ y.activity = a.activity
  /\ y.pending = a.pending \/ a.pending = None
  /\ y.pending # None /\ a.pending = None => y.pending.result = None

\* A page that is shown may ask for a reading; nothing else changes.
LEMMA LoadPageOK ==
  ASSUME ObservationAssumption, NEW a, AppOK(a), NEW page
  PROVE  LET y == LoadPage(a, page)
         IN  Begun(y, a) /\ y.observation = a.observation
<1> DEFINE y == LoadPage(a, page)
           z == Submit(a, page, "Read", FALSE)
<1>1. CASE a.pending # None \/ a.activity \/ a.connection = 0 \/ ~NeedsRead(a, page)
  <2>1. y = a
    BY <1>1 DEF LoadPage
  <2> HIDE DEF y
  <2> QED BY <2>1 DEF Begun, y
<1>2. CASE ~(a.pending # None \/ a.activity \/ a.connection = 0 \/ ~NeedsRead(a, page))
  <2>1. y = z /\ a.pending = None
    BY <1>2 DEF LoadPage
  <2>2. page \in Loaded
    BY <1>2 DEF NeedsRead
  <2>3. AppOK(z) /\ SameButPending(z, a) /\ z.pending.result = None
    BY <2>2, SubmitOK
  <2> HIDE DEF y, z
  <2>4. Begun(y, a) /\ y.observation = a.observation
    BY <2>1, <2>3 DEF Begun, SameButPending
  <2> QED BY <2>4 DEF y
<1> QED BY <1>1, <1>2

\* The timer of the observation goes on with the queue.
LEMMA ContinueKept ==
  ASSUME ObservationAssumption, NEW a, AppOK(a), a.pending = None, NEW past, NEW page,
         NEW y, y = Continue(a, past, page),
         NEW d, NEW news, NEW gone, CacheKept(a, gone, d, news),
         NEW more, gone \subseteq more,
         \A g \in Hidden(a) : Queued(a, g) => Queued(y, g) \/ g \in more
  PROVE  Begun(y, a) /\ CacheKept(y, more, d, news)
<1> DEFINE b == [a EXCEPT !.observation.due = FALSE]
           next == ObserveNext(b)
           z == LoadPage(next, page)
<1>1. CASE ~CanObserve(a) \/ (a.observation.due /\ ~past)
  <2>1. y = a
    BY <1>1 DEF Continue
  <2>2. CacheKept(a, more, d, news)
    BY KeptByMore
  <2> QED BY <2>1, <2>2 DEF Begun
<1>2. CASE ~(~CanObserve(a) \/ (a.observation.due /\ ~past))
  <2>1. y = IF next.pending = None THEN z ELSE next
    BY <1>2 DEF Continue
  <2> DEFINE o == [a.observation EXCEPT !.due = FALSE]
  <2>2. a \in Apps /\ a.observation \in Observations
    BY DEF AppOK, Apps
  <2>3. /\ o \in Observations /\ o.remaining = a.observation.remaining
        /\ o.pictureRequired = a.observation.pictureRequired
    BY <2>2 DEF Observations
  <2>4. b = [a EXCEPT !.observation = o]
    BY <2>2 DEF Apps, Observations
  <2> HIDE DEF o, b
  <2>5. /\ b \in Apps /\ b.observation = o
        /\ b.connection = a.connection /\ b.generations = a.generations /\ b.ed = a.ed
        /\ b.pending = a.pending /\ b.activity = a.activity
    BY <2>2, <2>3, <2>4 DEF Apps
  <2>6. AppOK(b)
    BY <2>3, <2>5 DEF AppOK
  <2>7. CanObserve(b)
    BY <1>2, <2>5 DEF CanObserve, ManuallyRead, ReadFailed
  <2>8. CacheKept(b, gone, d, news)
    BY <2>3, <2>5, RequestKept
  <2>9. b.pending = None
    BY <2>5
  <2>10. Observed(next, b)
    BY <2>6, <2>9, ObserveNextOK
  <2> HIDE DEF next
  <2>11. AppOK(next)
    BY <2>10 DEF Observed
  <2>12. Begun(z, next) /\ z.observation = next.observation
    BY <2>11, LoadPageOK
  <2> HIDE DEF z
  <2>13. y.observation = next.observation
    BY <2>1, <2>12
  <2>14. Hidden(b) = Hidden(a)
    BY <2>5 DEF Hidden
  <2>15. \A g \in Hidden(b) : Queued(b, g) => Queued(next, g) \/ g \in more
    BY <2>3, <2>5, <2>13, <2>14 DEF Queued
  <2>16. CacheKept(next, more, d, news)
    BY <2>6, <2>7, <2>8, <2>10, <2>15, ObservedKept
  <2>17. Begun(next, a)
    BY <2>5, <2>9, <2>10 DEF Observed, Begun
  <2>18. CASE next.pending # None
    BY <2>1, <2>16, <2>17, <2>18
  <2>19. CASE next.pending = None
    <3>1. y = z
      BY <2>1, <2>19
    <3>2. Begun(z, a)
      BY <2>9, <2>12, <2>17, <2>19 DEF Begun
    <3>3. CacheKept(z, more, d, news)
      BY <2>12, <2>16, <2>19, RequestKept DEF Begun
    <3> QED BY <3>1, <3>2, <3>3
  <2> QED BY <2>18, <2>19
<1> QED BY <1>1, <1>2

-----------------------------------------------------------------------------
(* What the application gives up, and what a command that completes leaves. *)

\* A handler leaves in the queue what it does not read or give up.
LEMMA GivenUp ==
  ASSUME NEW a, NEW y, NEW g, Queued(a, g)
  PROVE  /\ g \in Hidden(a) => Queued(y, g) \/ g \in Given(a, y)
         /\ ManuallyRead(y) \/ ReadFailed(y) => Queued(y, g) \/ g \in Given(a, y)
BY DEF Queued, Given

\* Completing a command, with everything that follows from it in the same handler,
\* keeps what is remembered.
LEMMA CompleteOK ==
  ASSUME ObservationAssumption, NEW a, AppOK(a), a.pending # None, a.pending.result # None,
         NEW past, NEW page, NEW d, NEW news,
         AnswersKept(a, d, news), CacheKept(a, dropped, d, news)
  PROVE  LET y == Complete(a, past, page)
         IN  /\ AppOK(y) /\ y.connection = a.connection
             /\ y.pending # None => y.pending.result = None
             /\ CacheKept(y, Given(a, y), d, news)
<1> DEFINE f == a.pending.feature
           e == Accepted(a)
           ok == e.ed[f].status = "Ready"
           left == dropped \ {f}
           stopped == IF a.pending.background THEN [e EXCEPT !.observation = Quiet] ELSE e
           y == Complete(a, past, page)
           more == Given(a, y)
<1>1. Completed(e, a)
  BY AcceptedOK
<1>2. f \in Loaded /\ a.pending.direction \in {"Read", "Save"} /\ a.pending.background \in BOOLEAN
  BY PendingFields
<1>3. y = IF a.pending.background /\ ok THEN Continue(e, past, page)
          ELSE IF ~ok THEN [stopped EXCEPT !.refresh = FALSE]
          ELSE IF a.refresh /\ a.pending.direction = "Read" THEN RefreshNext(e)
          ELSE LoadPage(e, page)
  BY DEF Complete
<1> HIDE DEF e
<1>4. CacheKept(e, left, d, news)
  BY <1>1, CompletedKept
<1>5. /\ AppOK(e) /\ e.pending = None /\ e.observation = a.observation
      /\ e.connection = a.connection
  BY <1>1 DEF Completed
<1>6. \A g : Queued(e, g) <=> Queued(a, g)
  BY <1>5 DEF Queued
<1> HIDE DEF y
<1>7. left \subseteq more \/ y.pending = a.pending
  BY DEF Given
<1> HIDE DEF more
<1>8. CASE a.pending.background /\ ok
  <2>1. y = Continue(e, past, page)
    BY <1>3, <1>8
  <2>2. Hidden(e) \subseteq Hidden(a)
    <3> SUFFICES ASSUME "Lighting" \in Loaded,
                        Dirty(e.ed["Lighting"]) \/ e.ed["Lighting"].baseline = None
                 PROVE  Dirty(a.ed["Lighting"]) \/ a.ed["Lighting"].baseline = None
      BY DEF Hidden
    <3>1. CASE f = "Lighting"
      <4>1. a.pending.direction = "Read"
        BY <1>8 DEF AppOK
      <4>2. EditorOK(e.ed[f])
        BY <1>2, <1>5 DEF AppOK
      <4>3. e.ed[f].baseline # None
        BY <4>2, <1>8 DEF EditorOK
      <4> QED BY <3>1, <4>1, <4>3, <1>1, <1>8 DEF Completed
    <3>2. CASE f # "Lighting"
      BY <3>2, <1>1 DEF Completed
    <3> QED BY <3>1, <3>2
  <2>3. \A g \in Hidden(e) : Queued(e, g) => Queued(y, g) \/ g \in more
    <3> TAKE g \in Hidden(e)
    <3>1. Queued(a, g) /\ g \in Hidden(a) => Queued(y, g) \/ g \in Given(a, y)
      BY GivenUp
    <3> QED BY <3>1, <1>6, <2>2 DEF more
  <2> DEFINE wide == left \cup more
  <2>4. /\ left \subseteq wide
        /\ \A g \in Hidden(e) : Queued(e, g) => Queued(y, g) \/ g \in wide
    BY <2>3
  <2> HIDE DEF wide, left
  <2>5. Begun(y, e) /\ CacheKept(y, wide, d, news)
    BY <1>4, <1>5, <2>1, <2>4, ContinueKept
  <2>6. y.pending # None => y.pending.result = None
    BY <2>5, <1>5 DEF Begun
  <2>7. wide = more
    BY <2>6, <1>7 DEF wide
  <2> QED BY <2>5, <2>6, <2>7, <1>5 DEF Begun, more, y
<1>9. CASE ~ok
  <2>1. y = [stopped EXCEPT !.refresh = FALSE]
    BY <1>3, <1>9
  <2>2. e.ed[f].status \in {"Read"} \cup ManualRead
    BY <1>1, <1>9 DEF Completed
  <2>3. e \in Apps /\ e.observation \in Observations
    BY <1>5 DEF AppOK, Apps
  <2>4. CASE a.pending.background
    <3> DEFINE q == [e EXCEPT !.observation = Quiet]
    <3>1. q = [e EXCEPT !.observation = [Quiet EXCEPT !.unavailable = FALSE]]
      BY DEF Quiet
    <3>2. y = [q EXCEPT !.refresh = FALSE]
      BY <2>1, <2>4
    <3>3. /\ AppOK(q) /\ q.connection = e.connection /\ q.ed = e.ed
          /\ q.pending = e.pending /\ q.observation.remaining = <<>>
      <4> HIDE DEF q
      <4> QED BY <3>1, <1>5, QuietOK
    <3> HIDE DEF q
    <3>4. /\ y \in Apps /\ y.connection = e.connection /\ y.ed = e.ed
          /\ y.pending = None /\ y.observation = q.observation
      BY <3>2, <3>3, <1>5 DEF AppOK, Apps
    <3>5. AppOK(y)
      BY <3>3, <3>4, <1>5 DEF AppOK
    <3>6. \A g : ~Queued(y, g)
      BY <3>3, <3>4 DEF Queued, ToSet
    <3>7. ManuallyRead(y) \/ ReadFailed(y)
      BY <2>2, <3>4, <1>2 DEF ManuallyRead, ReadFailed
    <3>8. \A g : Queued(a, g) => g \in more
      BY <3>6, <3>7, GivenUp DEF more
    <3>9. left \cup ToSet(e.observation.remaining) \subseteq more
      BY <3>4, <3>8, <1>5, <1>7 DEF Queued
    <3> HIDE DEF left
    <3>10. CacheKept(y, more, d, news)
      BY <3>4, <3>9, <1>4, <1>5, EmptiedKept
    <3> QED BY <3>4, <3>5, <3>10, <1>5 DEF more, y
  <2>5. CASE ~a.pending.background
    <3>1. y = [e EXCEPT !.refresh = FALSE]
      BY <2>1, <2>5
    <3>2. /\ y \in Apps /\ y.connection = e.connection /\ y.ed = e.ed
          /\ y.pending = None /\ y.observation = e.observation
      BY <3>1, <2>3, <1>5 DEF Apps
    <3>3. AppOK(y)
      BY <3>2, <1>5 DEF AppOK
    <3>4. CacheKept(y, left, d, news)
      BY <3>2, <1>4, <1>5, RequestKept
    <3>5. left \subseteq more
      BY <3>2, <1>7
    <3>6. CacheKept(y, more, d, news)
      BY <3>4, <3>5, KeptByMore
    <3> QED BY <3>2, <3>3, <3>6, <1>5 DEF more, y
  <2> QED BY <1>2, <2>4, <2>5
<1>10. CASE ok /\ ~a.pending.background
  <2> DEFINE r == RefreshNext(e)
             l == LoadPage(e, page)
  <2>1. y = r \/ y = l
    BY <1>3, <1>10
  <2>2. AppOK(r) /\ SameButPending(r, e) /\ (r.pending # None => r.pending.result = None)
    BY <1>5, RefreshNextOK
  <2>3. Begun(l, e) /\ l.observation = e.observation
    BY <1>5, LoadPageOK
  <2> HIDE DEF r, l
  <2>4. /\ AppOK(y) /\ y.ed = e.ed /\ y.observation = e.observation
        /\ y.connection = e.connection
        /\ y.pending # None => y.pending.result = None
    BY <1>5, <2>1, <2>2, <2>3 DEF SameButPending, Begun
  <2>5. CacheKept(y, left, d, news)
    BY <2>4, <1>4, <1>5, RequestKept
  <2>6. left \subseteq more
    BY <2>4, <1>7
  <2>7. CacheKept(y, more, d, news)
    BY <2>5, <2>6, KeptByMore
  <2> QED BY <2>4, <2>7, <1>5 DEF more, y
<1> QED BY <1>8, <1>9, <1>10

\* More notices under way, none forgotten.
LEMMA KeptByNews ==
  ASSUME NEW a, NEW d, NEW news, NEW later, news \subseteq later, NEW gone,
         AnswersKept(a, d, news), CacheKept(a, gone, d, news)
  PROVE  AnswersKept(a, d, later) /\ CacheKept(a, gone, d, later)
<1>1. \A g : Told(news, g) => Told(later, g)
  BY DEF Told
<1>2. PictureTold(a, news) => PictureTold(a, later)
  BY DEF PictureTold
<1>3. AnswersKept(a, d, later)
  BY <1>1, <1>2 DEF AnswersKept, AnswerKept, PictureAnswerKept
<1>4. CacheKept(a, gone, d, later)
  BY <1>1 DEF CacheKept, Kept, ContentKept, ContextKept
<1> QED BY <1>3, <1>4

\* What an unchanged application remembers as its notices move on.
LEMMA StillRemembered ==
  ASSUME Remembered, UNCHANGED <<app, device, dropped>>, listener' = "Open" => listener = "Open",
         News \subseteq News'
  PROVE  Remembered'
<1> SUFFICES ASSUME listener' = "Open"
             PROVE  AnswersKept(app', device', News') /\ CacheKept(app', dropped', device', News')
  BY DEF Remembered
<1>1. AnswersKept(app, device, News) /\ CacheKept(app, dropped, device, News)
  BY DEF Remembered
<1> DEFINE later == News'
<1>2. News \subseteq later
  OBVIOUS
<1> HIDE DEF later
<1>3. AnswersKept(app, device, later) /\ CacheKept(app, dropped, device, later)
  BY <1>1, <1>2, KeptByNews
<1> QED BY <1>3 DEF later

\* The notices on their way to the application.
OnTheirWay == ToSet(mailbox) \cup ToSet(messages) \cup ({reader} \ {None})

\* A change has a notice under way when a report or an event of this connection
\* tells of it.
LEMMA NewsAre ==
  \A c : c \in News <=>
    /\ c \in Changes
    /\ \/ c \in ToSet(reports)
       \/ \E event \in OnTheirWay : event.generation = app.connection /\ event.result = c
BY DEF News, UnderWay, OnTheirWay

\* The observer turns a report into an event of the connection there is.
LEMMA ReadReportStep ==
  ASSUME ObservationAssumption, IInv, ReadReport
  PROVE  IInv'
<1> USE DEF Observer
<1>1. reports \in Seq(Changes) /\ app.connection \in Nat
  BY DEF IInv, TypeOK, AppOK, Apps, ReadReport
<1>2. None \notin Events
  BY DEF ObservationAssumption
<1>3. UNCHANGED <<app, device, plugged, messages, mailbox, listener, dropped>> /\ reader = None
  BY DEF ReadReport
<1>4. /\ reports' \in Seq(Changes) /\ reader' \in Events /\ reader'.generation = app.connection
      /\ News \subseteq News'
  <2>1. CASE /\ reports # <<>>
             /\ reader' = [generation |-> app.connection, result |-> Head(reports)]
             /\ reports' = Tail(reports)
    <3>1. Head(reports) \in Changes /\ reports' \in Seq(Changes)
          /\ ToSet(reports) = {Head(reports)} \cup ToSet(reports')
      BY <1>1, <2>1, FirstAndRest
    <3>2. reader' \in Events /\ reader'.generation = app.connection /\ reader'.result = Head(reports)
      BY <1>1, <2>1, <3>1 DEF Events
    <3>3. reader' \in OnTheirWay' /\ OnTheirWay \subseteq OnTheirWay'
      BY <3>2, <1>2, <1>3 DEF OnTheirWay
    <3>4. ASSUME NEW c \in News PROVE c \in News'
      <4>1. /\ c \in Changes
            /\ \/ c = Head(reports) \/ c \in ToSet(reports')
               \/ \E event \in OnTheirWay : event.generation = app.connection /\ event.result = c
        BY <3>1, NewsAre
      <4>2. \/ c \in ToSet(reports')
            \/ \E event \in OnTheirWay' : event.generation = app'.connection /\ event.result = c
        BY <4>1, <3>2, <3>3, <1>3
      <4> QED BY <4>1, <4>2 DEF News, UnderWay, OnTheirWay
    <3> QED BY <3>1, <3>2, <3>4
  <2>2. CASE UNCHANGED reports /\ reader' = [generation |-> app.connection, result |-> "Error"]
    <3>1. reader' \in Events /\ reader'.generation = app.connection
      BY <1>1, <2>2 DEF Events
    <3>2. News \subseteq News'
      BY <1>3, <2>2 DEF News, UnderWay
    <3> QED BY <3>1, <3>2, <1>1, <2>2
  <2> QED BY <2>1, <2>2 DEF ReadReport
<1>5. TypeOK'
  BY <1>3, <1>4 DEF IInv, TypeOK
<1>6. Listening'
  BY <1>3, <1>4 DEF IInv, Listening
<1>7. Remembered'
  BY <1>3, <1>4, StillRemembered DEF IInv
<1> QED BY <1>5, <1>6, <1>7 DEF IInv

\* Pushing into the mailbox drops notices of other connections only.
LEMMA PushStep ==
  ASSUME ObservationAssumption, IInv, Push
  PROVE  IInv'
<1> DEFINE current == Keep(mailbox, {event \in ToSet(mailbox) : event.generation = reader.generation})
           same == {event \in ToSet(mailbox) : event.generation = reader.generation}
<1>1. mailbox \in Seq(Events) /\ reader \in Events /\ reader.generation = app.connection
  BY DEF IInv, TypeOK, Listening, Push
<1>2. /\ UNCHANGED <<app, device, plugged, messages, reports, dropped>> /\ reader' = None
      /\ mailbox' = IF reader \in ToSet(current) THEN current ELSE Append(current, reader)
      /\ listener' = IF reader.result = "Error" THEN "Ended" ELSE listener
  BY DEF Push, Observer
<1>3. current = Keep(mailbox, same)
  OBVIOUS
<1> HIDE DEF current
<1>4. same \subseteq ToSet(mailbox) /\ \A event \in ToSet(mailbox) :
         event.generation = app.connection => event \in same
  BY <1>1
<1> HIDE DEF same
<1>5. current \in Seq(Events) /\ ToSet(current) = ToSet(mailbox) \cap same
  BY <1>1, <1>3, KeepMembers
<1>6. Append(current, reader) \in Seq(Events)
      /\ ToSet(Append(current, reader)) = ToSet(current) \cup {reader}
  BY <1>1, <1>5, AppendMembers
<1>7. mailbox' \in Seq(Events) /\ reader \in ToSet(mailbox') /\ ToSet(current) \subseteq ToSet(mailbox')
  BY <1>2, <1>5, <1>6
<1>8. ASSUME NEW c \in News PROVE c \in News'
  <2>1. /\ c \in Changes
        /\ \/ c \in ToSet(reports)
           \/ \E event \in OnTheirWay : event.generation = app.connection /\ event.result = c
    BY NewsAre
  <2>2. ASSUME NEW event \in OnTheirWay, event.generation = app.connection
        PROVE  event \in ToSet(mailbox') \cup ToSet(messages')
    BY <2>2, <1>2, <1>4, <1>5, <1>7 DEF OnTheirWay
  <2>3. \/ c \in ToSet(reports')
        \/ \E event \in OnTheirWay' : event.generation = app'.connection /\ event.result = c
    BY <2>1, <2>2, <1>2 DEF OnTheirWay
  <2> QED BY <2>1, <2>3 DEF News, UnderWay, OnTheirWay
<1>9. listener' \in {"Off", "Open", "Broken", "Ended"} /\ (listener' = "Open" => listener = "Open")
  BY <1>2 DEF IInv, TypeOK
<1>10. TypeOK'
  BY <1>2, <1>7, <1>9 DEF IInv, TypeOK
<1>11. Listening'
  BY <1>2, <1>9 DEF IInv, Listening
<1>12. News \subseteq News'
  BY <1>8
<1>13. Remembered'
  BY <1>2, <1>9, <1>12, StillRemembered DEF IInv
<1> QED BY <1>10, <1>11, <1>13 DEF IInv

\* A notice is not lost between the mailbox and the application.
LEMMA DeliverStep ==
  ASSUME ObservationAssumption, IInv, Deliver
  PROVE  IInv'
<1>1. mailbox \in Seq(Events) /\ messages \in Seq(Events) /\ mailbox # <<>>
  BY DEF IInv, TypeOK, Deliver
<1>2. /\ UNCHANGED <<app, device, plugged, reports, listener, reader, dropped>>
      /\ messages' = Append(messages, Head(mailbox)) /\ mailbox' = Tail(mailbox)
  BY DEF Deliver
<1>3. Head(mailbox) \in Events /\ mailbox' \in Seq(Events)
      /\ ToSet(mailbox) = {Head(mailbox)} \cup ToSet(mailbox')
  BY <1>1, <1>2, FirstAndRest
<1>4. messages' \in Seq(Events) /\ ToSet(messages') = ToSet(messages) \cup {Head(mailbox)}
  BY <1>1, <1>2, <1>3, AppendMembers
<1>5. OnTheirWay' = OnTheirWay
  BY <1>2, <1>3, <1>4 DEF OnTheirWay
<1>6. ASSUME NEW c \in News PROVE c \in News'
  <2>1. /\ c \in Changes
        /\ \/ c \in ToSet(reports)
           \/ \E event \in OnTheirWay : event.generation = app.connection /\ event.result = c
    BY NewsAre
  <2>2. \/ c \in ToSet(reports')
        \/ \E event \in OnTheirWay' : event.generation = app'.connection /\ event.result = c
    BY <2>1, <1>2, <1>5
  <2> QED BY <2>1, <2>2 DEF News, UnderWay, OnTheirWay
<1>7. TypeOK'
  BY <1>2, <1>3, <1>4 DEF IInv, TypeOK
<1>8. Listening'
  BY <1>2 DEF IInv, Listening
<1>9. News \subseteq News'
  BY <1>6
<1>10. Remembered'
  BY <1>2, <1>9, StillRemembered DEF IInv
<1> QED BY <1>7, <1>8, <1>10 DEF IInv

\* When the keyboard goes the listener is open no more.
LEMMA UnplugStep ==
  ASSUME ObservationAssumption, IInv, Unplug
  PROVE  IInv'
<1>1. /\ UNCHANGED <<app, device, reader, mailbox, messages, dropped>>
      /\ plugged' = FALSE /\ reports' = <<>>
      /\ listener' = IF listener = "Open" THEN "Broken" ELSE listener
  BY DEF Unplug
<1>2. listener' # "Open" /\ listener' \in {"Off", "Open", "Broken", "Ended"}
  BY <1>1 DEF IInv, TypeOK
<1>3. reports' \in Seq(Changes) /\ plugged' \in BOOLEAN
  <2> HIDE DEF Changes
  <2>1. reports' \in Seq(Changes)
    BY <1>1
  <2>2. plugged' \in BOOLEAN
    BY <1>1
  <2> QED BY <2>1, <2>2
<1>4. TypeOK'
  BY <1>1, <1>2, <1>3 DEF IInv, TypeOK
<1>5. Listening'
  BY <1>1, <1>2 DEF IInv, Listening
<1>6. Remembered'
  BY <1>2 DEF Remembered
<1> QED BY <1>4, <1>5, <1>6 DEF IInv

\* A keyboard that is plugged in is not listened to yet.
LEMMA PlugStep ==
  ASSUME ObservationAssumption, IInv, Plug
  PROVE  IInv'
<1>1. UNCHANGED <<app, device, reports, listener, reader, mailbox, messages, dropped>> /\ plugged' = TRUE
  BY DEF Plug, thread
<1>2. News' = News
  BY <1>1 DEF News, UnderWay
<1>3. TypeOK'
  BY <1>1 DEF IInv, TypeOK
<1>4. Listening'
  BY <1>1 DEF IInv, Listening
<1>5. Remembered'
  BY <1>1, <1>2, StillRemembered DEF IInv
<1> QED BY <1>3, <1>4, <1>5 DEF IInv

\* A change of the keyboard is noticed for every feature it may have touched.
LEMMA ChangedKept ==
  ASSUME ObservationAssumption, NEW a, AppOK(a), NEW d, NEW news, NEW gone,
         AnswersKept(a, d, news), CacheKept(a, gone, d, news),
         NEW c \in Changes, NEW f \in Touched(c), NEW now, \A g \in Loaded \ {f} : now[g] = d[g],
         NEW later, news \cup {c} \subseteq later
  PROVE  AnswersKept(a, now, later) /\ CacheKept(a, gone, now, later)
<1>1. AnswersKept(a, d, later) /\ CacheKept(a, gone, d, later)
  <2>1. news \subseteq later
    OBVIOUS
  <2> QED BY <2>1, KeptByNews
<1>2. Told(later, f)
  BY TouchedIsRead DEF Told
<1>3. \A g \in Loaded \ {f, "Picture"} : Held(now, g) = Held(d, g)
  BY DEF Held
<1>4. f \in Loaded
  BY DEF Touched
<1>5. f = "Picture" => "Configuration" \in later
  <2>1. f = "Picture" => c = "Configuration"
    BY DEF Touched, Changes
  <2> QED BY <2>1
<1>6. AnswersKept(a, now, later)
  <2>1. ASSUME NEW g \in Loaded \ {"Picture"} PROVE AnswerKept(a, now, later, g)
    BY <1>1, <1>2, <1>3 DEF AnswersKept, AnswerKept
  <2>2. ASSUME "Picture" \in Loaded PROVE PictureAnswerKept(a, now, later)
    <3>1. PictureAnswerKept(a, d, later) /\ "Lighting" \in Loaded
      BY <1>1, <2>2, LightingLoaded DEF AnswersKept
    <3> QED BY <3>1, <2>2, <1>2, <1>5 DEF PictureAnswerKept, PictureTold
  <2> QED BY <2>1, <2>2 DEF AnswersKept
<1>7. CacheKept(a, gone, now, later)
  <2>1. ASSUME NEW g \in Loaded \ {"Picture"} PROVE Kept(a, gone, now, later, g)
    BY <1>1, <1>2, <1>3 DEF CacheKept, Kept
  <2>2. ASSUME "Picture" \in Loaded
        PROVE  ContentKept(a, gone, now, later) /\ ContextKept(a, gone, now, later)
    <3>1. ContentKept(a, gone, d, later) /\ ContextKept(a, gone, d, later) /\ "Lighting" \in Loaded
      BY <1>1, <2>2, LightingLoaded DEF CacheKept
    <3> QED BY <3>1, <2>2, <1>2, <1>5 DEF ContentKept, ContextKept
  <2> QED BY <2>1, <2>2 DEF CacheKept
<1> QED BY <1>6, <1>7

\* A change of the keyboard is reported while the listener is open.
LEMMA ChangeStep ==
  ASSUME ObservationAssumption, IInv, NEW c \in Changes, NEW f \in Loaded,
         NEW value \in Values[f], Change(c, f, value)
  PROVE  IInv'
<1>1. /\ UNCHANGED <<app, plugged, listener, reader, mailbox, messages, dropped>>
      /\ f \in Touched(c) /\ device' = [device EXCEPT ![f] = value]
      /\ reports' = IF listener = "Open" THEN Append(reports, c) ELSE reports
  BY DEF Change
<1>2. AppOK(app) /\ reports \in Seq(Changes) /\ device \in [Loaded -> Contents]
  BY DEF IInv, TypeOK
<1>3. device' \in [Loaded -> Contents] /\ \A g \in Loaded \ {f} : device'[g] = device[g]
  <2>1. value \in Contents
    BY DEF Contents
  <2> QED BY <2>1, <1>1, <1>2
<1>4. Append(reports, c) \in Seq(Changes) /\ ToSet(Append(reports, c)) = ToSet(reports) \cup {c}
  BY <1>2, AppendMembers
<1>5. reports' \in Seq(Changes)
  BY <1>1, <1>2, <1>4
<1>6. TypeOK'
  BY <1>1, <1>3, <1>5 DEF IInv, TypeOK
<1>7. Listening'
  BY <1>1 DEF IInv, Listening
<1>8. Remembered'
  <2> SUFFICES ASSUME listener' = "Open"
               PROVE  AnswersKept(app', device', News') /\ CacheKept(app', dropped', device', News')
    BY DEF Remembered
  <2>1. AnswersKept(app, device, News) /\ CacheKept(app, dropped, device, News)
    BY <1>1 DEF IInv, Remembered
  <2>2. News \cup {c} \subseteq News'
    BY <1>1, <1>4 DEF News, UnderWay
  <2> DEFINE later == News'
             now == device'
  <2>3. News \cup {c} \subseteq later /\ \A g \in Loaded \ {f} : now[g] = device[g]
    BY <2>2, <1>3
  <2> HIDE DEF later, now
  <2>4. AnswersKept(app, now, later) /\ CacheKept(app, dropped, now, later)
    BY <2>1, <2>3, <1>1, <1>2, ChangedKept
  <2> QED BY <2>4, <1>1 DEF later, now
<1> QED BY <1>6, <1>7, <1>8 DEF IInv

-----------------------------------------------------------------------------
(* The command in flight is served. *)

\* What the served command returns is what it leaves on the keyboard.
LEMMA ServedKept ==
  ASSUME ObservationAssumption, NEW a, AppOK(a), a.pending # None, NEW y, y.ed = a.ed,
         y.observation = a.observation, y.pending # None, y.pending.feature = a.pending.feature,
         NEW d, NEW now, \A g \in Loaded \ {a.pending.feature} : now[g] = d[g],
         y.pending.result.kind = "ok" => y.pending.result.snapshot = Held(now, a.pending.feature),
         NEW news, NEW gone, CacheKept(a, gone, d, news)
  PROVE  AnswersKept(y, now, news) /\ CacheKept(y, gone, now, news)
<1> DEFINE f == a.pending.feature
<1>1. \A g : (Queued(y, g) <=> Queued(a, g)) /\ (Pending(y, g) <=> g = f) /\ (Pending(a, g) <=> g = f)
  BY DEF Queued, Pending
<1>2. f \in Loaded
  BY PendingFields
<1>3. AnswersKept(y, now, news)
  <2>1. Answered(y, f) => y.pending.result.snapshot = Held(now, f)
    BY DEF Answered
  <2>2. \A g : Answered(y, g) => g = f
    BY <1>1 DEF Answered
  <2>3. Held(now, "Picture").value = now["Picture"] /\ Held(now, "Picture").context = now["Lighting"]
    BY DEF Held
  <2> HIDE DEF f
  <2> QED BY <2>1, <2>2, <2>3 DEF AnswersKept, AnswerKept, PictureAnswerKept
<1>4. ASSUME NEW g \in Loaded \ {"Picture"} PROVE Kept(y, gone, now, news, g)
  <2>1. Kept(a, gone, d, news, g)
    BY DEF CacheKept
  <2>2. g # f => Held(now, g) = Held(d, g)
    BY DEF Held
  <2> QED BY <2>1, <2>2, <1>1 DEF Kept
<1>5. ASSUME "Picture" \in Loaded
      PROVE  ContentKept(y, gone, now, news) /\ ContextKept(y, gone, now, news)
  <2>1. ContentKept(a, gone, d, news) /\ ContextKept(a, gone, d, news) /\ "Lighting" \in Loaded
    BY <1>5, LightingLoaded DEF CacheKept
  <2>2. OutOfSight(a) => OutOfSight(y)
    BY DEF OutOfSight, Matching
  <2>3. LightingFirst(a) => LightingFirst(y)
    BY <1>1 DEF LightingFirst, Matching
  <2> QED BY <2>1, <2>2, <2>3, <1>1, <1>5 DEF ContentKept, ContextKept
<1> QED BY <1>3, <1>4, <1>5 DEF CacheKept

\* What reading the keyboard gives is a snapshot.
LEMMA HeldType ==
  ASSUME ObservationAssumption, NEW d \in [Loaded -> Contents], NEW f \in Loaded
  PROVE  Held(d, f) \in Snapshots
<1>1. f = "Picture" => "Lighting" \in Loaded
  BY LightingLoaded
<1> QED BY <1>1 DEF Held, Snapshots

\* Serving a command, a save with its write to the keyboard included.
LEMMA ServeStep ==
  ASSUME ObservationAssumption, IInv, Serve
  PROVE  IInv'
<1> DEFINE p == app.pending
           f == p.feature
           result == Served(p)
           saved == p.direction = "Save" /\ result.kind = "ok"
<1>1. /\ p # None /\ p.result = None
      /\ app' = [app EXCEPT !.pending.result = result]
      /\ device' = IF saved THEN [device EXCEPT ![f] = result.snapshot.value] ELSE device
      /\ UNCHANGED <<plugged, reports, listener, reader, mailbox, messages, dropped>>
  BY DEF Serve, thread
<1>2. AppOK(app) /\ app \in Apps /\ device \in [Loaded -> Contents] /\ plugged \in BOOLEAN
  BY DEF IInv, TypeOK, AppOK
<1>3. /\ p \in Requests /\ f \in Loaded /\ p.direction \in {"Read", "Save"}
      /\ p.background \in BOOLEAN
  BY <1>1, <1>2, PendingFields
<1>4. /\ Held(device, f) \in Snapshots /\ Snapshot(f) = Held(device, f)
  BY <1>2, <1>3, HeldType DEF Snapshot, Held
<1> DEFINE editor == app.ed[f]
           written == [value |-> editor.submitted,
                       context |-> IF f = "Picture" THEN device["Lighting"] ELSE None]
<1>5. p.direction = "Save" => written \in Snapshots
  <2> SUFFICES ASSUME p.direction = "Save" PROVE written \in Snapshots
    OBVIOUS
  <2>1. editor.submitted # None /\ EditorOK(editor)
    BY <1>1, <1>2, <1>3 DEF AppOK
  <2>2. editor.submitted \in Contents
    BY <2>1, EditorFields
  <2>3. (IF f = "Picture" THEN device["Lighting"] ELSE None) \in Contents \cup {None}
    BY <1>2, <1>3, LightingLoaded
  <2> QED BY <2>2, <2>3 DEF Snapshots
<1>6. \/ result = [kind |-> "error", snapshot |-> None]
      \/ p.direction = "Read" /\ result = [kind |-> "ok", snapshot |-> Held(device, f)]
      \/ p.direction = "Save" /\ result = [kind |-> "ok", snapshot |-> written]
  <2>1. CASE ~plugged
    BY <2>1 DEF Served
  <2>2. CASE plugged /\ p.direction = "Read"
    BY <2>2, <1>4 DEF Served
  <2>3. CASE plugged /\ p.direction = "Save" /\ editor.baseline = Snapshot(f)
    BY <2>3 DEF Served
  <2>4. CASE plugged /\ p.direction = "Save" /\ editor.baseline # Snapshot(f)
    BY <2>4 DEF Served
  <2> QED BY <2>1, <2>2, <2>3, <2>4, <1>2, <1>3
<1> HIDE DEF result, written, p
<1>7. result \in Results /\ result # None
      /\ (result.kind = "ok" => result.snapshot \in Snapshots /\ result.snapshot # None)
  <2>1. None \notin Snapshots /\ None \notin Results
    BY DEF ObservationAssumption
  <2> QED BY <2>1, <1>4, <1>5, <1>6 DEF Results
<1>8. /\ device' \in [Loaded -> Contents]
      /\ \A g \in Loaded \ {f} : device'[g] = device[g]
      /\ result.kind = "ok" => result.snapshot = Held(device', f)
  <2>1. CASE saved
    <3>1. device' = [device EXCEPT ![f] = result.snapshot.value]
      BY <2>1, <1>1
    <3>2. result.snapshot.value \in Contents
      BY <2>1, <1>7 DEF Snapshots
    <3>3. device' \in [Loaded -> Contents] /\ device'[f] = result.snapshot.value
          /\ \A g \in Loaded \ {f} : device'[g] = device[g]
      BY <3>1, <3>2, <1>2, <1>3
    <3>4. result.snapshot = written
      BY <2>1, <1>6
    <3>5. f = "Picture" => device'["Lighting"] = device["Lighting"]
      BY <3>3, LightingLoaded, <1>3
    <3>6. written = Held(device', f)
      BY <3>3, <3>4, <3>5 DEF written, Held
    <3> QED BY <3>3, <3>4, <3>6
  <2>2. CASE ~saved
    <3>1. device' = device
      BY <2>2, <1>1
    <3> QED BY <2>2, <3>1, <1>2, <1>6
  <2> QED BY <2>1, <2>2
<1> DEFINE q == [p EXCEPT !.result = result]
<1>9. /\ q \in Requests /\ q.feature = f /\ q.result = result
      /\ q.direction = p.direction /\ q.background = p.background
  BY <1>3, <1>7 DEF Requests
<1>10. app' = [app EXCEPT !.pending = q]
  BY <1>1, <1>2 DEF Apps, p
<1> HIDE DEF q
<1>11. /\ app' \in Apps /\ app'.pending = q /\ app'.ed = app.ed
       /\ app'.observation = app.observation /\ app'.connection = app.connection
  BY <1>2, <1>9, <1>10 DEF Apps
<1>12. q # None
  BY <1>9 DEF ObservationAssumption
<1>13. AppOK(app')
  <2>1. p.background => p.direction = "Read"
    BY <1>1, <1>2 DEF AppOK, p
  <2>2. p.direction = "Save" => app.ed[f].submitted # None /\ app.ed[f].draft # None
    BY <1>1, <1>2 DEF AppOK, p
  <2>3. \A g \in Loaded : EditorOK(app.ed[g])
    BY <1>2 DEF AppOK
  <2>4. PictureBehind(app.observation.remaining)
    BY <1>2 DEF AppOK
  <2> QED BY <2>1, <2>2, <2>3, <2>4, <1>7, <1>9, <1>11, <1>12 DEF AppOK
<1>14. TypeOK'
  BY <1>1, <1>8, <1>13 DEF IInv, TypeOK
<1>15. Listening'
  BY <1>1, <1>11 DEF IInv, Listening
<1>16. Remembered'
  <2> SUFFICES ASSUME listener' = "Open"
               PROVE  AnswersKept(app', device', News') /\ CacheKept(app', dropped', device', News')
    BY DEF Remembered
  <2>1. CacheKept(app, dropped, device, News)
    BY <1>1 DEF IInv, Remembered
  <2>2. News' = News
    BY <1>1, <1>11 DEF News, UnderWay
  <2> DEFINE y == app'
             now == device'
  <2>3. /\ y.ed = app.ed /\ y.observation = app.observation /\ y.pending # None
        /\ y.pending.feature = app.pending.feature
        /\ y.pending.result.kind = "ok" => y.pending.result.snapshot = Held(now, app.pending.feature)
        /\ \A g \in Loaded \ {app.pending.feature} : now[g] = device[g]
    BY <1>8, <1>9, <1>11, <1>12 DEF p
  <2>4. app.pending # None
    BY <1>1 DEF p
  <2> HIDE DEF y, now
  <2>5. AnswersKept(y, now, News) /\ CacheKept(y, dropped, now, News)
    BY <2>1, <2>3, <2>4, <1>2, ServedKept
  <2> QED BY <2>2, <2>5, <1>1 DEF y, now
<1> QED BY <1>14, <1>15, <1>16 DEF IInv

\* A handler that keeps what is remembered keeps the invariant.
LEMMA HandlerStep ==
  ASSUME IInv, UNCHANGED <<device, plugged, reports, listener, reader, mailbox, messages>>,
         AppOK(app'), app'.connection = app.connection,
         listener = "Open" =>
           AnswersKept(app', device, News) /\ CacheKept(app', dropped', device, News)
  PROVE  IInv'
<1>1. TypeOK'
  BY DEF IInv, TypeOK
<1>2. Listening'
  BY DEF IInv, Listening
<1>3. News' = News
  BY DEF News, UnderWay
<1>4. Remembered'
  BY <1>3 DEF Remembered
<1> QED BY <1>1, <1>2, <1>4 DEF IInv

\* A handler that queues nothing and passes over nothing leaves the notices.
LEMMA NothingGiven ==
  ASSUME NEW a, NEW y, a.pending = None \/ y.pending = a.pending
  PROVE  dropped \subseteq Given(a, y)
<1>1. a.pending = None \/ y.pending = a.pending
  OBVIOUS
<1> QED BY <1>1 DEF Given

\* The user's edits and requests.
UserKept(y, a) ==
  /\ AppOK(y) /\ y.connection = a.connection
  /\ y.observation = a.observation
  /\ y.pending = a.pending \/ (a.pending = None /\ y.pending.result = None)
  /\ \A g \in Loaded : y.ed[g].status = a.ed[g].status /\ y.ed[g].baseline = a.ed[g].baseline

\* What the user does to an editor leaves caches and notices as they are.
LEMMA UserStep ==
  ASSUME ObservationAssumption, IInv, NEW y, UserKept(y, app), UI(y)
  PROVE  IInv'
<1>1. app' = y /\ dropped' = Given(app, app')
      /\ UNCHANGED <<device, plugged, reports, listener, reader, mailbox, messages>>
  BY DEF UI, Handler, thread
<1>2. dropped \subseteq Given(app, y)
  BY NothingGiven DEF UserKept
<1>3. dropped \subseteq dropped'
  BY <1>1, <1>2
<1>4. ASSUME AnswersKept(app, device, News), CacheKept(app, dropped, device, News)
      PROVE  AnswersKept(y, device, News) /\ CacheKept(y, dropped, device, News)
  <2>1. \A g : (Queued(y, g) <=> Queued(app, g)) /\ (Pending(app, g) => Pending(y, g))
    BY DEF UserKept, Queued, Pending
  <2>2. AnswersKept(y, device, News)
    <3>1. CASE y.pending = app.pending
      <4>1. \A g : Answered(y, g) <=> Answered(app, g)
        BY <3>1 DEF Answered, Pending
      <4>2. PictureTold(app, News) => PictureTold(y, News)
        BY <2>1 DEF PictureTold, UserKept
      <4> QED BY <4>1, <4>2, <3>1, <2>1, <1>4 DEF AnswersKept, AnswerKept, PictureAnswerKept
    <3>2. CASE y.pending.result = None
      BY <3>2, NoAnswer
    <3> QED BY <3>1, <3>2 DEF UserKept
  <2>3. ASSUME NEW g \in Loaded \ {"Picture"} PROVE Kept(y, dropped, device, News, g)
    BY <1>4, <2>1 DEF CacheKept, Kept, UserKept
  <2>4. ASSUME "Picture" \in Loaded
        PROVE  ContentKept(y, dropped, device, News) /\ ContextKept(y, dropped, device, News)
    <3>1. ContentKept(app, dropped, device, News) /\ ContextKept(app, dropped, device, News)
      BY <1>4, <2>4 DEF CacheKept
    <3>2. /\ y.ed["Lighting"].status = app.ed["Lighting"].status
          /\ y.ed["Lighting"].baseline = app.ed["Lighting"].baseline
          /\ y.ed["Picture"].status = app.ed["Picture"].status
          /\ y.ed["Picture"].baseline = app.ed["Picture"].baseline
          /\ y.observation = app.observation
      BY <2>4, LightingLoaded DEF UserKept
    <3>3. Matching(y) <=> Matching(app)
      BY <3>2 DEF Matching
    <3>4. LightingFirst(app) => LightingFirst(y)
      BY <3>2, <3>3, <2>1 DEF LightingFirst
    <3>5. OutOfSight(app) => OutOfSight(y)
      BY <3>2, <3>3 DEF OutOfSight
    <3>6. ContentKept(y, dropped, device, News)
      BY <3>1, <3>2, <3>4, <3>5, <2>1 DEF ContentKept
    <3>7. ContextKept(y, dropped, device, News)
      BY <3>1, <3>2, <2>1 DEF ContextKept
    <3> QED BY <3>6, <3>7
  <2> QED BY <2>2, <2>3, <2>4 DEF CacheKept
<1> DEFINE more == dropped'
<1>5. dropped \subseteq more
  BY <1>3
<1> HIDE DEF more
<1>6. listener = "Open" => AnswersKept(y, device, News) /\ CacheKept(y, more, device, News)
  BY <1>4, <1>5, KeptByMore DEF IInv, Remembered
<1>7. AppOK(y) /\ y.connection = app.connection
  BY DEF UserKept
<1> QED BY <1>1, <1>6, <1>7, HandlerStep DEF more

\* One editor is edited, one draft reverted or one value submitted.
LEMMA EditorReplaced ==
  ASSUME NEW a, AppOK(a), NEW f \in Loaded, NEW e, EditorOK(e),
         e.status = a.ed[f].status, e.baseline = a.ed[f].baseline,
         a.pending # None /\ a.pending.direction = "Save" /\ a.pending.feature = f
           => e.submitted # None /\ e.draft # None
  PROVE  LET y == [a EXCEPT !.ed[f] = e]
         IN  /\ UserKept(y, a) /\ y.pending = a.pending /\ y.ed[f] = e /\ y.refresh = a.refresh
<1> DEFINE y == [a EXCEPT !.ed[f] = e]
           ed == [a.ed EXCEPT ![f] = e]
<1>1. a \in Apps /\ a.ed \in [Loaded -> EditorOf(Snapshots, Contents)]
  BY DEF AppOK, Apps
<1>2. /\ ed \in [Loaded -> EditorOf(Snapshots, Contents)] /\ ed[f] = e
      /\ \A g \in Loaded \ {f} : ed[g] = a.ed[g]
  BY <1>1 DEF EditorOK
<1>3. y = [a EXCEPT !.ed = ed]
  BY <1>1 DEF Apps
<1> HIDE DEF ed
<1>4. /\ y \in Apps /\ y.ed = ed /\ y.pending = a.pending /\ y.observation = a.observation
      /\ y.connection = a.connection /\ y.refresh = a.refresh
  BY <1>1, <1>2, <1>3 DEF Apps
<1> HIDE DEF y
<1>5. \A g \in Loaded : EditorOK(ed[g])
  BY <1>2 DEF AppOK
<1>6. a.pending # None /\ a.pending.direction = "Save" =>
        ed[a.pending.feature].submitted # None /\ ed[a.pending.feature].draft # None
  <2>1. a.pending # None => a.pending.feature \in Loaded
    BY PendingFields
  <2> QED BY <2>1, <1>2 DEF AppOK
<1>7. AppOK(y)
  BY <1>4, <1>5, <1>6 DEF AppOK
<1>8. \A g \in Loaded : ed[g].status = a.ed[g].status /\ ed[g].baseline = a.ed[g].baseline
  BY <1>2
<1>9. UserKept(y, a)
  BY <1>4, <1>7, <1>8 DEF UserKept
<1> QED BY <1>2, <1>4, <1>9 DEF y

\* An edit, also while a feature is read in the background.
LEMMA EditStep ==
  ASSUME ObservationAssumption, IInv, NEW f \in Loaded, NEW value \in Values[f], Edit(f, value)
  PROVE  IInv'
<1> DEFINE e == Stage(app.ed[f], value)
           y == [app EXCEPT !.ed[f] = e]
<1>1. AppOK(app)
  BY DEF IInv, TypeOK
<1>2. (app.pending # None => app.pending.background) /\ UI([app EXCEPT !.ed[f] = Stage(@, value)])
  BY DEF Edit
<1>3. [app EXCEPT !.ed[f] = Stage(@, value)] = y
  BY <1>1 DEF AppOK, Apps
<1>4. EditorOK(app.ed[f]) /\ value \in Contents
  BY <1>1 DEF AppOK, Contents
<1>5. EditorOK(e) /\ e.status = app.ed[f].status /\ e.baseline = app.ed[f].baseline
  BY <1>4, StageOK
<1>6. app.pending # None => app.pending.direction # "Save"
  BY <1>1, <1>2 DEF AppOK
<1> HIDE DEF e
<1>7. UserKept(y, app)
  BY <1>1, <1>5, <1>6, EditorReplaced
<1> HIDE DEF y
<1>8. UI(y)
  BY <1>2, <1>3
<1> QED BY <1>7, <1>8, UserStep

\* A revert.
LEMMA RevertEditStep ==
  ASSUME ObservationAssumption, IInv, NEW f \in Loaded, RevertEdit(f)
  PROVE  IInv'
<1> DEFINE e == Revert(app.ed[f])
           y == [app EXCEPT !.ed[f] = e]
<1>1. AppOK(app)
  BY DEF IInv, TypeOK
<1>2. app.pending = None /\ CanRevert(app.ed[f]) /\ UI([app EXCEPT !.ed[f] = Revert(@)])
  BY DEF RevertEdit, Idle
<1>3. [app EXCEPT !.ed[f] = Revert(@)] = y
  BY <1>1 DEF AppOK, Apps
<1>4. EditorOK(app.ed[f])
  BY <1>1 DEF AppOK
<1>5. EditorOK(e) /\ e.status = app.ed[f].status /\ e.baseline = app.ed[f].baseline
  BY <1>2, <1>4, RevertOK
<1> HIDE DEF e
<1>6. UserKept(y, app)
  BY <1>1, <1>2, <1>5, EditorReplaced
<1> HIDE DEF y
<1>7. UI(y)
  BY <1>2, <1>3
<1> QED BY <1>6, <1>7, UserStep

\* A save that is submitted.
LEMMA SaveStep ==
  ASSUME ObservationAssumption, IInv, NEW f \in Loaded, Save(f)
  PROVE  IInv'
<1> DEFINE e == RequestApply(app.ed[f])
           b == [app EXCEPT !.ed[f] = e]
           y == Submit(b, f, "Save", FALSE)
<1>1. AppOK(app)
  BY DEF IInv, TypeOK
<1>2. /\ app.pending = None /\ CanRequestApply(app.ed[f])
      /\ UI(Submit([app EXCEPT !.ed[f] = RequestApply(@)], f, "Save", FALSE))
  BY DEF Save, Idle
<1>3. [app EXCEPT !.ed[f] = RequestApply(@)] = b
  BY <1>1 DEF AppOK, Apps
<1>4. EditorOK(app.ed[f])
  BY <1>1 DEF AppOK
<1>5. /\ EditorOK(e) /\ e.status = app.ed[f].status /\ e.baseline = app.ed[f].baseline
      /\ e.submitted # None /\ e.draft # None
  BY <1>2, <1>4, RequestApplyOK
<1> HIDE DEF e
<1>6. UserKept(b, app) /\ b.pending = app.pending /\ b.ed[f] = e
  BY <1>1, <1>2, <1>5, EditorReplaced
<1> HIDE DEF b
<1>7. AppOK(b) /\ b.ed[f].submitted # None /\ b.ed[f].draft # None
  BY <1>5, <1>6 DEF UserKept
<1>8. AppOK(y) /\ SameButPending(y, b) /\ y.pending.result = None
  BY <1>7, SubmitOK
<1>9. UI(y)
  BY <1>2, <1>3
<1> HIDE DEF y
<1>10. UserKept(y, app)
  BY <1>2, <1>6, <1>8 DEF UserKept, SameButPending
<1> QED BY <1>9, <1>10, UserStep

\* A reading the user asks for.
LEMMA ReadFeatureStep ==
  ASSUME ObservationAssumption, IInv, NEW f \in Loaded, ReadFeature(f)
  PROVE  IInv'
<1> DEFINE y == Submit(app, f, "Read", FALSE)
<1>1. AppOK(app)
  BY DEF IInv, TypeOK
<1>2. app.pending = None /\ UI(y)
  BY DEF ReadFeature, Idle
<1>3. AppOK(y) /\ SameButPending(y, app) /\ y.pending.result = None
  BY <1>1, SubmitOK
<1> HIDE DEF y
<1>4. UserKept(y, app)
  BY <1>2, <1>3 DEF UserKept, SameButPending
<1> QED BY <1>2, <1>4, UserStep

\* Another activity begins or ends.
LEMMA ActivityStep ==
  ASSUME ObservationAssumption, IInv, Activity
  PROVE  IInv'
<1> DEFINE y == [app EXCEPT !.activity = ~@]
<1>1. AppOK(app) /\ app \in Apps /\ app.activity \in BOOLEAN
  BY DEF IInv, TypeOK, AppOK, Apps
<1>2. UI(y)
  BY DEF Activity
<1> DEFINE flag == ~app.activity
<1>3. y = [app EXCEPT !.activity = flag] /\ flag \in BOOLEAN
  BY <1>1 DEF Apps
<1> HIDE DEF flag
<1>4. /\ y \in Apps /\ y.ed = app.ed /\ y.pending = app.pending /\ y.observation = app.observation
      /\ y.connection = app.connection
  BY <1>1, <1>3 DEF Apps
<1> HIDE DEF y
<1>5. AppOK(y)
  BY <1>1, <1>4 DEF AppOK
<1>6. UserKept(y, app)
  BY <1>4, <1>5 DEF UserKept
<1> QED BY <1>2, <1>6, UserStep

\* With a notice of every change under way nothing could be forgotten: what is
\* left of the lemmas about a handler is what they say of the application.
LEMMA AllTold ==
  ASSUME ObservationAssumption, NEW a, NEW d, NEW gone
  PROVE  AnswersKept(a, d, Changes) /\ CacheKept(a, gone, d, Changes)
<1>1. "Configuration" \in Changes
  BY DEF Changes
<1>2. \A g \in Loaded : g \in Touched("Configuration")
  BY DEF Touched
<1>3. \A g \in Loaded : Told(Changes, g)
  BY <1>1, <1>2, TouchedIsRead DEF Told
<1>4. AnswersKept(a, d, Changes)
  BY <1>1, <1>3, LightingLoaded DEF AnswersKept, AnswerKept, PictureAnswerKept, PictureTold
<1>5. CacheKept(a, gone, d, Changes)
  BY <1>1, <1>3, LightingLoaded DEF CacheKept, Kept, ContentKept, ContextKept
<1> QED BY <1>4, <1>5

\* The timer of the observation.
LEMMA ObserveDeviceStep ==
  ASSUME ObservationAssumption, IInv, NEW page, ObserveDevice(page)
  PROVE  IInv'
<1> DEFINE y == Continue(app, TRUE, page)
           more == Given(app, y)
<1>1. AppOK(app)
  BY DEF IInv, TypeOK
<1>2. app.pending = None
  BY DEF ObserveDevice, CanObserve
<1>3. app' = y /\ dropped' = more
      /\ UNCHANGED <<device, plugged, reports, listener, reader, mailbox, messages>>
  BY DEF ObserveDevice, UI, Handler, thread
<1>4. y = Continue(app, TRUE, page)
  OBVIOUS
<1> HIDE DEF y
<1>5. /\ dropped \subseteq more
      /\ \A g \in Hidden(app) : Queued(app, g) => Queued(y, g) \/ g \in more
  BY <1>2, NothingGiven, GivenUp
<1> HIDE DEF more
<1>6. CacheKept(app, dropped, device, News) => Begun(y, app) /\ CacheKept(y, more, device, News)
  BY <1>1, <1>2, <1>4, <1>5, ContinueKept
<1>7. Begun(y, app)
  <2>1. CacheKept(app, dropped, device, Changes)
    BY AllTold
  <2> QED BY <2>1, <1>1, <1>2, <1>4, <1>5, ContinueKept
<1>8. AnswersKept(y, device, News)
  <2>1. y.pending = None \/ y.pending.result = None
    BY <1>2, <1>7 DEF Begun
  <2> QED BY <2>1, NoAnswer
<1>9. AppOK(y) /\ y.connection = app.connection
  BY <1>7 DEF Begun
<1>10. listener = "Open" => AnswersKept(y, device, News) /\ CacheKept(y, more, device, News)
  BY <1>6, <1>8 DEF IInv, Remembered
<1> QED BY <1>3, <1>9, <1>10, HandlerStep

\* A command completes.
LEMMA CompleteCommandStep ==
  ASSUME ObservationAssumption, IInv, NEW past, NEW page, CompleteCommand(past, page)
  PROVE  IInv'
<1> DEFINE y == Complete(app, past, page)
           more == Given(app, y)
<1>1. AppOK(app)
  BY DEF IInv, TypeOK
<1>2. app.pending # None /\ app.pending.result # None
  BY DEF CompleteCommand
<1>3. app' = y /\ dropped' = more
      /\ UNCHANGED <<device, plugged, reports, listener, reader, mailbox, messages>>
  BY DEF CompleteCommand, UI, Handler, thread
<1>4. AppOK(y) /\ y.connection = app.connection /\ (y.pending # None => y.pending.result = None)
  <2>1. AnswersKept(app, device, Changes) /\ CacheKept(app, dropped, device, Changes)
    BY AllTold
  <2> QED BY <2>1, <1>1, <1>2, CompleteOK
<1>5. AnswersKept(app, device, News) /\ CacheKept(app, dropped, device, News)
        => CacheKept(y, more, device, News)
  BY <1>1, <1>2, CompleteOK
<1> HIDE DEF y, more
<1>6. AnswersKept(y, device, News)
  BY <1>4, NoAnswer
<1>7. listener = "Open" => AnswersKept(y, device, News) /\ CacheKept(y, more, device, News)
  BY <1>5, <1>6 DEF IInv, Remembered
<1> QED BY <1>3, <1>4, <1>7, HandlerStep

\* An event reaches the application: a notice, an error, or one of a connection
\* that is over.
LEMMA DeviceEventStep ==
  ASSUME ObservationAssumption, IInv, DeviceEvent
  PROVE  IInv'
<1> DEFINE e == Head(messages)
           more == dropped'
           y == app'
           later == News'
<1>1. AppOK(app) /\ messages \in Seq(Events) /\ messages # <<>>
  BY DEF IInv, TypeOK, DeviceEvent
<1>2. /\ messages' = Tail(messages) /\ dropped' = Given(app, app')
      /\ UNCHANGED <<device, plugged, reports, listener, reader, mailbox>>
      /\ app' = CASE ~Current(e) -> app
                  [] Current(e) /\ e.result = "Error" -> [app EXCEPT !.observation.unavailable = TRUE]
                  [] OTHER -> Receive(app, e.result)
  BY DEF DeviceEvent, Handler, thread
<1>3. /\ e \in Events /\ messages' \in Seq(Events)
      /\ ToSet(messages) = {e} \cup ToSet(messages')
  BY <1>1, <1>2, FirstAndRest
<1> HIDE DEF e
<1>4. e.result \in Changes \cup {"Error"} /\ "Error" \notin Changes
  BY <1>3 DEF Events, Changes
<1>5. ASSUME app'.connection = app.connection, NEW c \in News, c \notin News'
      PROVE  c = e.result /\ e.generation = app.connection
  <2>1. /\ c \in Changes
        /\ \/ c \in ToSet(reports)
           \/ \E event \in OnTheirWay : event.generation = app.connection /\ event.result = c
    BY NewsAre
  <2>2. \A event \in OnTheirWay : event \in OnTheirWay' \/ event = e
    BY <1>2, <1>3 DEF OnTheirWay
  <2>3. /\ c \notin ToSet(reports)
        /\ \A event \in OnTheirWay' : ~(event.generation = app.connection /\ event.result = c)
    BY <1>2, <1>5, <2>1 DEF News, UnderWay, OnTheirWay
  <2> QED BY <2>1, <2>2, <2>3
\* What every branch leaves of the application.
<1>6. ASSUME AppOK(y), y.connection = app.connection, y.pending = app.pending,
             listener = "Open" => AnswersKept(y, device, later) /\ CacheKept(y, dropped, device, later)
      PROVE  IInv'
  <2>1. TypeOK'
    BY <1>2, <1>3, <1>6 DEF IInv, TypeOK
  <2>2. Listening'
    BY <1>2, <1>6 DEF IInv, Listening
  <2>3. dropped \subseteq more
    BY <1>2, <1>6, NothingGiven
  <2> HIDE DEF y, later, more
  <2>4. listener = "Open" => AnswersKept(y, device, later) /\ CacheKept(y, more, device, later)
    BY <1>6, <2>3, KeptByMore
  <2>5. Remembered'
    BY <2>4, <1>2 DEF Remembered, y, later, more
  <2> QED BY <2>1, <2>2, <2>5 DEF IInv
<1>7. listener = "Open" => AnswersKept(app, device, News) /\ CacheKept(app, dropped, device, News)
  BY DEF IInv, Remembered
<1>8. CASE ~Current(e)
  <2>1. y = app
    BY <1>2, <1>8
  <2>2. listener = "Open" => e.generation # app.connection
    BY <1>8 DEF Current, IInv, Listening
  <2>3. listener = "Open" => News \subseteq later
    BY <2>1, <2>2, <1>5
  <2> HIDE DEF y, later
  <2>4. listener = "Open" => AnswersKept(app, device, later) /\ CacheKept(app, dropped, device, later)
    BY <2>3, <1>7, KeptByNews
  <2> QED BY <2>1, <2>4, <1>1, <1>6
<1>9. CASE Current(e) /\ e.result = "Error"
  <2>1. y = [app EXCEPT !.observation.unavailable = TRUE]
    BY <1>2, <1>9
  <2> DEFINE o == [app.observation EXCEPT !.unavailable = TRUE]
  <2>2. app \in Apps /\ app.observation \in Observations
    BY <1>1 DEF AppOK, Apps
  <2>3. /\ o \in Observations /\ o.remaining = app.observation.remaining
        /\ o.pictureRequired = app.observation.pictureRequired
    BY <2>2 DEF Observations
  <2>4. y = [app EXCEPT !.observation = o]
    BY <2>1, <2>2 DEF Apps, Observations
  <2> HIDE DEF o, y
  <2>5. /\ y \in Apps /\ y.observation = o /\ y.ed = app.ed /\ y.pending = app.pending
        /\ y.connection = app.connection
    BY <2>2, <2>3, <2>4 DEF Apps
  <2>6. AppOK(y)
    BY <2>3, <2>5, <1>1 DEF AppOK
  <2>7. News \subseteq later
    BY <2>5, <1>4, <1>5, <1>9 DEF y, News
  <2> HIDE DEF later
  <2>8. ASSUME listener = "Open"
        PROVE  AnswersKept(y, device, later) /\ CacheKept(y, dropped, device, later)
    <3>1. AnswersKept(app, device, later) /\ CacheKept(app, dropped, device, later)
      BY <2>7, <2>8, <1>7, KeptByNews
    <3>2. CacheKept(y, dropped, device, later)
      BY <3>1, <2>3, <2>5, RequestKept
    <3>3. \A g : (Queued(y, g) <=> Queued(app, g)) /\ (Answered(y, g) <=> Answered(app, g))
      BY <2>3, <2>5 DEF Queued, Answered, Pending
    <3>4. PictureTold(y, later) <=> PictureTold(app, later)
      BY <3>3, <2>3, <2>5 DEF PictureTold
    <3>5. AnswersKept(y, device, later)
      BY <3>1, <3>3, <3>4, <2>5 DEF AnswersKept, AnswerKept, PictureAnswerKept
    <3> QED BY <3>2, <3>5
  <2> QED BY <2>5, <2>6, <2>8, <1>6 DEF y, later
<1>10. CASE Current(e) /\ e.result # "Error"
  <2> DEFINE c == e.result
  <2>1. y = Receive(app, c) /\ c \in Changes
    BY <1>2, <1>4, <1>10
  <2>2. Received(y, app, c)
    BY <2>1, <1>1, ReceiveOK
  <2>3. y.connection = app.connection /\ y.pending = app.pending /\ AppOK(y)
    BY <2>2 DEF Received
  <2>4. News \subseteq later \cup {c}
    BY <2>3, <1>5
  <2> HIDE DEF c, y, later
  <2>5. listener = "Open" => AnswersKept(y, device, later) /\ CacheKept(y, dropped, device, later)
    BY <2>1, <2>2, <2>4, <1>7, ReceiveKept
  <2> QED BY <2>3, <2>5, <1>6 DEF y, later
<1> QED BY <1>8, <1>9, <1>10

-----------------------------------------------------------------------------
(* The executor is replaced. *)

\* With no feature verified there is nothing to remember.
LEMMA UnverifiedKept ==
  ASSUME ObservationAssumption, NEW y, \A g \in Loaded : y.ed[g].status # "Ready",
         NEW d, NEW news, NEW gone
  PROVE  CacheKept(y, gone, d, news)
BY DEF CacheKept, Kept, ContentKept, ContextKept

\* A new executor begins with nothing verified, or there is none.
LEMMA ReplaceStep ==
  ASSUME ObservationAssumption, IInv, NEW y, AppOK(y), NEW attached \in BOOLEAN,
         attached => /\ plugged /\ y.connection # 0
                     /\ y.pending # None => y.pending.result = None
                     /\ \A g \in Loaded : y.ed[g].status # "Ready",
         Replace(y, attached)
  PROVE  IInv'
<1>1. /\ app' = y /\ listener' = IF attached THEN "Open" ELSE "Off"
      /\ reports' = <<>> /\ reader' = None /\ mailbox' = <<>>
      /\ UNCHANGED <<device, plugged, messages>>
  BY DEF Replace, Handler
<1>2. reports' \in Seq(Changes)
  <2> HIDE DEF Changes
  <2> QED BY <1>1
<1>3. mailbox' \in Seq(Events)
  BY <1>1
<1>4. TypeOK'
  BY <1>1, <1>2, <1>3 DEF IInv, TypeOK
<1>5. Listening'
  BY <1>1 DEF Listening
<1>6. Remembered'
  <2> SUFFICES ASSUME listener' = "Open"
               PROVE  AnswersKept(app', device', News') /\ CacheKept(app', dropped', device', News')
    BY DEF Remembered
  <2>1. attached
    BY <1>1
  <2> DEFINE later == News'
             more == dropped'
             d == device'
  <2>2. AnswersKept(y, d, later)
    <3> HIDE DEF later, more, d
    <3> QED BY <2>1, NoAnswer
  <2>3. CacheKept(y, more, d, later)
    <3> HIDE DEF later, more, d
    <3> QED BY <2>1, LightingLoaded, UnverifiedKept
  <2> QED BY <2>2, <2>3, <1>1
<1> QED BY <1>4, <1>5, <1>6 DEF IInv

\* A keyboard that has gone.
LEMMA GoneOK ==
  ASSUME ObservationAssumption, NEW a, AppOK(a)
  PROVE  AppOK([Disconnected(a) EXCEPT !.observation = Quiet])
<1> DEFINE b == Disconnected(a)
           y == [b EXCEPT !.observation = Quiet]
<1>1. AppOK(b)
  BY DisconnectedOK
<1> HIDE DEF b
<1>2. y = [b EXCEPT !.observation = [Quiet EXCEPT !.unavailable = FALSE]]
  BY DEF Quiet
<1> HIDE DEF y
<1>3. AppOK(y)
  BY <1>1, <1>2, QuietOK
<1> QED BY <1>3 DEF y, b

\* The scan finds the keyboard gone, or back.
LEMMA ScanStep ==
  ASSUME ObservationAssumption, IInv, Scan
  PROVE  IInv'
<1>1. AppOK(app)
  BY DEF IInv, TypeOK
<1>2. CASE Replace([Disconnected(app) EXCEPT !.observation = Quiet], FALSE)
  <2> DEFINE y == [Disconnected(app) EXCEPT !.observation = Quiet]
  <2>1. AppOK(y) /\ Replace(y, FALSE)
    BY <1>1, <1>2, GoneOK
  <2> HIDE DEF y
  <2> QED BY <2>1, ReplaceStep
<1>3. CASE plugged /\ Replace(Attached(app), TRUE)
  <2> DEFINE y == Attached(app)
  <2>1. /\ AppOK(y) /\ y.connection # 0 /\ (y.pending # None => y.pending.result = None)
        /\ \A g \in Loaded : y.ed[g].status # "Ready"
    BY <1>1, AttachedOK
  <2>2. Replace(y, TRUE)
    BY <1>3
  <2> HIDE DEF y
  <2> QED BY <2>1, <2>2, <1>3, ReplaceStep
<1> QED BY <1>2, <1>3 DEF Scan

\* The user reconnects.
LEMMA ReconnectStep ==
  ASSUME ObservationAssumption, IInv, Reconnect
  PROVE  IInv'
<1> DEFINE t == Attached(app)
           g == [Disconnected(app) EXCEPT !.observation = Quiet]
           y == IF plugged THEN t ELSE g
<1>1. AppOK(app) /\ plugged \in BOOLEAN
  BY DEF IInv, TypeOK
<1>2. /\ AppOK(t) /\ t.connection # 0 /\ (t.pending # None => t.pending.result = None)
      /\ \A f \in Loaded : t.ed[f].status # "Ready"
  BY <1>1, AttachedOK
<1>3. AppOK(g)
  BY <1>1, GoneOK
<1>4. Replace(y, plugged)
  BY DEF Reconnect
<1> HIDE DEF t, g
<1>5. AppOK(y) /\ (plugged => y = t)
  BY <1>2, <1>3
<1> HIDE DEF y
<1> QED BY <1>1, <1>2, <1>4, <1>5, ReplaceStep

\* The program starts without a keyboard.
THEOREM InitIInv ==
  ASSUME ObservationAssumption
  PROVE  Init => IInv
<1> SUFFICES ASSUME Init PROVE IInv
  OBVIOUS
<1> DEFINE ed == [f \in Loaded |-> NewEditor]
<1>1. /\ app = [connection |-> 0, generations |-> 0, ed |-> ed, pending |-> None,
                refresh |-> FALSE, activity |-> FALSE, observation |-> Quiet]
      /\ device \in [Loaded -> Contents] /\ plugged = TRUE /\ reports = <<>>
      /\ listener = "Off" /\ reader = None /\ mailbox = <<>> /\ messages = <<>>
  BY DEF Init, Contents
<1>2. EditorOK(NewEditor)
  BY DEF EditorOK, NewEditor, EditorOf, Status
<1>3. ed \in [Loaded -> EditorOf(Snapshots, Contents)] /\ \A f \in Loaded : ed[f] = NewEditor
  BY <1>2 DEF EditorOK
<1> DEFINE T == ToSet(Order)
<1>4. Quiet \in Observations /\ Quiet.remaining = <<>>
  <2> HIDE DEF T
  <2>1. <<>> \in Seq(T)
    OBVIOUS
  <2>2. Quiet = [remaining |-> <<>>, due |-> FALSE, pictureRequired |-> FALSE, unavailable |-> FALSE]
    BY DEF Quiet
  <2> QED BY <2>1, <2>2 DEF Observations, T
<1> HIDE DEF ed
<1>5. app \in Apps /\ app.pending = None /\ app.ed = ed /\ app.observation = Quiet
  BY <1>1, <1>3, <1>4 DEF Apps
<1>6. PictureBehind(Quiet.remaining)
  BY <1>4 DEF PictureBehind
<1>7. AppOK(app)
  BY <1>2, <1>3, <1>5, <1>6 DEF AppOK
<1>8. reports \in Seq(Changes)
  <2> HIDE DEF Changes
  <2> QED BY <1>1
<1>9. mailbox \in Seq(Events) /\ messages \in Seq(Events)
  BY <1>1
<1>10. TypeOK
  BY <1>1, <1>7, <1>8, <1>9 DEF TypeOK
<1> QED BY <1>1, <1>10 DEF IInv, Listening, Remembered

\* Every step of the application, the observer and the keyboard keeps the
\* invariant.
THEOREM NextIInv ==
  ASSUME ObservationAssumption, IInv, [Next]_vars
  PROVE  IInv'
<1>1. CASE UNCHANGED vars
  <2>1. UNCHANGED <<app, device, plugged, reports, listener, reader, mailbox, messages, dropped>>
    BY <1>1 DEF vars, thread
  <2>2. TypeOK' /\ Listening'
    BY <2>1 DEF IInv, TypeOK, Listening
  <2>3. News' = News
    BY <2>1 DEF News, UnderWay
  <2>4. Remembered'
    BY <2>1, <2>3, StillRemembered DEF IInv
  <2> QED BY <2>2, <2>4 DEF IInv
<1>2. CASE \E change \in Changes, f \in Loaded : \E value \in Values[f] : Change(change, f, value)
  BY <1>2, ChangeStep
<1>3. CASE Unplug
  BY <1>3, UnplugStep
<1>4. CASE Plug
  BY <1>4, PlugStep
<1>5. CASE ReadReport
  BY <1>5, ReadReportStep
<1>6. CASE Push
  BY <1>6, PushStep
<1>7. CASE Deliver
  BY <1>7, DeliverStep
<1>8. CASE Serve
  BY <1>8, ServeStep
<1>9. CASE DeviceEvent
  BY <1>9, DeviceEventStep
<1>10. CASE Scan
  BY <1>10, ScanStep
<1>11. CASE Reconnect
  BY <1>11, ReconnectStep
<1>12. CASE Activity
  BY <1>12, ActivityStep
<1>13. CASE \E f \in Loaded : RevertEdit(f) \/ Save(f) \/ ReadFeature(f)
  BY <1>13, RevertEditStep, SaveStep, ReadFeatureStep
<1>14. CASE \E f \in Loaded : \E value \in Values[f] : Edit(f, value)
  BY <1>14, EditStep
<1>15. CASE \E page \in Pages :
              ObserveDevice(page) \/ \E past \in BOOLEAN : CompleteCommand(past, page)
  BY <1>15, ObserveDeviceStep, CompleteCommandStep
<1> QED BY <1>1, <1>2, <1>3, <1>4, <1>5, <1>6, <1>7, <1>8, <1>9, <1>10, <1>11, <1>12, <1>13,
           <1>14, <1>15 DEF Next

\* Nothing that the invariant says of the cache is lost in NoChangeForgotten.
LEMMA RememberedSuffices ==
  ASSUME ObservationAssumption, IInv
  PROVE  NoChangeForgotten
<1> SUFFICES ASSUME listener = "Open", NEW f \in Loaded, app.ed[f].status = "Ready",
                    ~Noticed(f), ~Awaited(f), f \notin dropped,
                    ~(f = "Picture" /\ (~PictureActive(app) \/ Noticed("Lighting")
                                                            \/ Awaited("Lighting")))
             PROVE  app.ed[f].baseline = Snapshot(f)
  BY DEF NoChangeForgotten
<1>1. AppOK(app) /\ AnswersKept(app, device, News) /\ CacheKept(app, dropped, device, News)
  BY DEF IInv, TypeOK, Remembered
<1>2. \A g : Snapshot(g) = Held(device, g)
  BY DEF Snapshot, Held
<1>3. \A g : Told(News, g) => Noticed(g)
  BY DEF Told, News, Noticed
\* A reading in flight that is not awaited has come back with another snapshot,
\* so that its notice is under way or queued.
<1>4. \A g : Queued(app, g) => Awaited(g)
  BY DEF Queued, Awaited
<1>5. \A g : Pending(app, g) => \/ Awaited(g)
                                \/ Answered(app, g) /\ app.pending.result.snapshot # Held(device, g)
  BY <1>2 DEF Pending, Awaited, Answered
<1>6. CASE f # "Picture"
  <2>1. Kept(app, dropped, device, News, f) /\ AnswerKept(app, device, News, f)
    BY <1>1, <1>6 DEF CacheKept, AnswersKept
  <2> QED BY <2>1, <1>2, <1>3, <1>4, <1>5 DEF Kept, AnswerKept
<1>7. CASE f = "Picture"
  <2>1. /\ PictureActive(app) /\ ~Noticed("Lighting") /\ ~Awaited("Lighting")
        /\ ~Noticed("Picture") /\ ~Awaited("Picture")
    BY <1>7
  <2>2. /\ "Picture" \in Loaded /\ "Lighting" \in Loaded /\ "Lighting" \in Loaded \ {"Picture"}
    BY <1>7, LightingLoaded
  <2>3. /\ ContentKept(app, dropped, device, News) /\ ContextKept(app, dropped, device, News)
        /\ PictureAnswerKept(app, device, News) /\ AnswerKept(app, device, News, "Lighting")
    BY <1>1, <2>2 DEF CacheKept, AnswersKept
  <2>4. "Configuration" \notin News
    <3>1. "Lighting" \in ToSet(Features("Configuration"))
      BY FeaturesOrdered
    <3> QED BY <3>1, <2>1, <1>3 DEF Told
  <2>5. ~PictureTold(app, News)
    BY <2>1, <2>4, <1>4 DEF PictureTold
  <2>6. ~Told(News, "Lighting") /\ ~Queued(app, "Lighting") /\ ~Queued(app, "Picture")
    BY <2>1, <1>3, <1>4
  <2>7. ~Pending(app, "Lighting")
    BY <2>1, <2>3, <2>6, <1>5 DEF AnswerKept
  <2>8. ~Pending(app, "Picture")
    <3> SUFFICES ASSUME Pending(app, "Picture") PROVE FALSE
      OBVIOUS
    <3> DEFINE s == app.pending.result.snapshot
    <3>1. Answered(app, "Picture") /\ s # Held(device, "Picture")
      BY <2>1, <1>5
    <3>2. s.value = device["Picture"] /\ s.context = device["Lighting"]
      BY <3>1, <2>3, <2>5, <2>6 DEF PictureAnswerKept
    <3>3. s \in Snapshots
      <4>1. ResultOK(app.pending.result) /\ app.pending.result.kind = "ok"
        BY <3>1, <1>1, PendingFields DEF Answered, Pending
      <4> QED BY <4>1 DEF ResultOK, Results
    <3>4. s = [value |-> s.value, context |-> s.context]
      BY <3>3, SnapshotFields
    <3> QED BY <3>1, <3>2, <3>4 DEF Held
  <2>9. app.ed["Lighting"].status = "Ready" /\ ~Dirty(app.ed["Lighting"])
        /\ app.ed["Lighting"].draft = PictureEffect
    BY <2>1 DEF PictureActive
  <2> DEFINE b == app.ed["Picture"].baseline
  <2>10. b.context = device["Lighting"]
    BY <2>3, <2>6, <2>7, <2>8, <2>9, <1>7 DEF ContextKept
  <2>11. EditorOK(app.ed["Lighting"]) /\ EditorOK(app.ed["Picture"])
    BY <1>1, <2>2 DEF AppOK
  <2>12. app.ed["Lighting"].baseline.value = PictureEffect
    BY <2>9, <2>11 DEF EditorOK, Dirty
  <2>13. ~OutOfSight(app)
    BY <2>9, <2>12 DEF OutOfSight, Matching
  <2>14. b.value = device["Picture"]
    BY <2>3, <2>4, <2>6, <2>8, <2>13, <1>7 DEF ContentKept
  <2>15. b \in Snapshots
    BY <2>11, <1>7, EditorFields DEF EditorOK
  <2>16. b = [value |-> b.value, context |-> b.context]
    BY <2>15, SnapshotFields
  <2> QED BY <2>10, <2>14, <2>16, <1>2, <1>7 DEF Held
<1> QED BY <1>6, <1>7

\* Editors, queue, notices and command in flight are what their types say, and a
\* queued lighting has the picture behind it, always.
THEOREM ObservationType == Spec => []TypeOK
<1>1. Init => IInv
  BY InitIInv, ObservationAssumption
<1>2. IInv /\ [Next]_vars => IInv'
  BY NextIInv, ObservationAssumption
<1>3. IInv => TypeOK
  BY DEF IInv
<1> QED BY <1>1, <1>2, <1>3, PTL DEF Spec

\* The invariant holds always: what is cached is current or will be looked after,
\* for all features, values and connections.
THEOREM ChangesRemembered == Spec => []IInv
<1>1. Init => IInv
  BY InitIInv, ObservationAssumption
<1>2. IInv /\ [Next]_vars => IInv'
  BY NextIInv, ObservationAssumption
<1> QED BY <1>1, <1>2, PTL DEF Spec

\* A queued lighting has the picture behind it, which is displayed by it
\* (workflow/observation.rs, receive: "must precede any queued picture refresh").
THEOREM LightingReadFirst == Spec => []PictureBehind(app.observation.remaining)
<1>1. IInv => PictureBehind(app.observation.remaining)
  BY DEF IInv, TypeOK, AppOK
<1> QED BY <1>1, ChangesRemembered, PTL

\* No change the keyboard reports is forgotten (NoChangeForgotten), however notices,
\* edits, saves, failures and reconnections overlap.
THEOREM NoChangeIsForgotten == Spec => []NoChangeForgotten
<1>1. IInv => NoChangeForgotten
  BY RememberedSuffices, ObservationAssumption
<1> QED BY <1>1, ChangesRemembered, PTL
=============================================================================
