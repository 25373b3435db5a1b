---------------------------- MODULE RuntimeProofs ----------------------------
(***************************************************************************)
(* Proofs about the daemon's loop, for any number of inputs, workers and   *)
(* events.  What a stage relies on was established several stages before,  *)
(* by other code: the invariant says what is known at each stage of the    *)
(* durable work, of the schedule and of the workers.                       *)
(***************************************************************************)
EXTENDS Runtime, TLAPS, FiniteSetTheorems, WellFoundedInduction

Work == [phase: RisingPhase \cup BatchPhase, revision: Revisions \cup {None}]
Pass == [left: Seq(Rising), needs: SUBSET Rising, committed: SUBSET Rising]

\* Types, with the shape of durable work.
Types == TypeOK /\ work \in [Input -> Work] /\ pass \in Pass

\* Inputs to launch are left only while workers are spawned, each once and none that runs.
LaunchingSound ==
  /\ launching # <<>> => pc = "spawn"
  /\ IsInjective(launching)
  /\ Range(launching) \cap Active = {}
  /\ Cardinality(schedule.running) <= capacity

\* Nothing is scheduled, launched or run that the configuration does not enable.
OnlyEnabled == Entered(schedule) \cup schedule.running \subseteq Enabled(config)

\* A rising input whose worker has not reported a page waits for one; only they can be empty.
RisingTasks ==
  \A i \in Input :
    /\ tasks[i] = "empty" => i \in Rising
    /\ i \in Rising /\ tasks[i] \in {"running", "empty"} => work[i].phase = "started"

\* A scan is started for an enabled input, and the process runs on the revision it started with.
ScanOpen(i) == work[i].phase \in {"started", "page", "last", "done"}
ScansEnabled ==
  /\ pc = "down" => \A i \in Rising : ScanOpen(i) => work[i].revision.settings \in {"a", "b"}
  /\ pc # "down" => \A i \in Rising : ScanOpen(i) =>
                      i \in Enabled(config) /\ work[i].revision = Revision(config, i)

\* The inputs a pass has seen have nothing left to deliver or to commit, and a scan only if it
\* needs a page, for which a reload is not applied.
Reconciled(i) == \/ work[i].phase \in {"missing", "idle"}
                 \/ work[i].phase = "started" /\ i \in pass.needs
PassSound ==
  /\ pc = "pass" => Range(pass.left) \subseteq Configured(config)
  /\ pc = "drain" => pass.left = <<>>
  /\ pc = "drain" /\ reloading => pass.needs = {}
  /\ pc \in {"pass", "drain"} => /\ pass.needs \subseteq Enabled(config)
                                 /\ \A i \in Rising \ Range(pass.left) : Reconciled(i)

\* A wave starts with nothing to deliver; what there is afterwards comes from its own workers.
WaveSound ==
  /\ pc = "launch" /\ drained => Undelivered = {} /\ Active = {}
  /\ pc = "spawn" => Undelivered \subseteq Active

\* A process that is down holds nothing.
DownSound == pc = "down" => tasks = NoTasks /\ schedule = EmptySchedule

RunningMatch == schedule.running = Active \cup Range(launching)

\* The inductive invariant.
LoopInv ==
  /\ Types /\ RunningMatch /\ LaunchingSound /\ OnlyEnabled /\ BacklogIsQuiet
  /\ RisingTasks /\ ScansEnabled /\ PassSound /\ WaveSound /\ DownSound
-----------------------------------------------------------------------------
(* Sequences of inputs.                                                    *)

(* Every set of numbers that is not empty has a least element.             *)
LEMMA LeastNumber ==
  ASSUME NEW S, S \subseteq Nat, S # {}
  PROVE  \E x \in S : \A y \in S : x <= y
<1>1. IsWellFoundedOn(OpToRel(<, Nat), Nat)
  BY NatLessThanWellFounded
<1>2. PICK x \in S : \A y \in S : ~(<<y, x>> \in OpToRel(<, Nat))
  BY <1>1, WFMin
<1>3. \A y \in S : ~(y < x)
  BY <1>2 DEF OpToRel
<1> QED BY <1>3

(* An element that was not in a sequence can be appended.                  *)
LEMMA AppendFacts ==
  ASSUME NEW S, NEW t \in Seq(S), IsInjective(t), NEW e \in S, e \notin Range(t)
  PROVE  /\ Append(t, e) \in Seq(S) /\ IsInjective(Append(t, e))
         /\ Range(Append(t, e)) = Range(t) \cup {e}
<1> DEFINE a == Append(t, e)
<1>1. /\ a \in Seq(S) /\ DOMAIN a = 1 .. (Len(t) + 1) /\ DOMAIN t = 1 .. Len(t) /\ Len(t) \in Nat
      /\ \A k \in 1 .. Len(t) : a[k] = t[k]
      /\ a[Len(t) + 1] = e
  OBVIOUS
<1> HIDE DEF a
<1>2. \A k \in 1 .. (Len(t) + 1) : k \in 1 .. Len(t) \/ k = Len(t) + 1
  BY <1>1
<1>3. \A k \in 1 .. Len(t) : t[k] # e
  BY <1>1 DEF Range
<1>4. IsInjective(a)
  BY <1>1, <1>2, <1>3 DEF IsInjective
<1>5. Range(a) = Range(t) \cup {e}
  <2>1. Len(t) + 1 \in 1 .. (Len(t) + 1) /\ \A k \in 1 .. Len(t) : k \in 1 .. (Len(t) + 1)
    BY <1>1
  <2> QED BY <1>1, <1>2, <2>1 DEF Range
<1> QED BY <1>1, <1>4, <1>5 DEF a

\* The function behind Only, up to place m.
Picks(f, q, names, m) ==
  f = [n \in 0 .. m |-> IF n = 0 THEN <<>>
                        ELSE IF q[n] \in names THEN Append(f[n - 1], q[n]) ELSE f[n - 1]]

LEMMA PicksExists ==
  ASSUME NEW q, NEW names, NEW m \in Nat
  PROVE  \E f : Picks(f, q, names, m)
<1> DEFINE B == {n \in Nat : ~\E f : Picks(f, q, names, n)}
<1> SUFFICES ASSUME B # {} PROVE FALSE
  OBVIOUS
<1>1. PICK n \in B : \A k \in B : n <= k
  <2>1. B \subseteq Nat
    OBVIOUS
  <2> HIDE DEF B
  <2> QED BY <2>1, LeastNumber
<1>2. n # 0
  <2>1. Picks([k \in 0 .. 0 |-> <<>>], q, names, 0)
    BY DEF Picks
  <2> QED BY <2>1
<1>3. PICK g : Picks(g, q, names, n - 1)
  <2>1. n - 1 \in Nat /\ ~(n <= n - 1)
    BY <1>2
  <2>2. n - 1 \notin B
    BY <1>1, <2>1
  <2> QED BY <2>1, <2>2
<1> DEFINE f == [k \in 0 .. n |->
                   IF k = n THEN IF q[n] \in names THEN Append(g[n - 1], q[n]) ELSE g[n - 1]
                   ELSE g[k]]
<1>4. ASSUME NEW k \in 0 .. n
      PROVE  f[k] = IF k = 0 THEN <<>>
                    ELSE IF q[k] \in names THEN Append(f[k - 1], q[k]) ELSE f[k - 1]
  <2>1. CASE k = n
    <3>1. n - 1 \in 0 .. n /\ n - 1 # n
      BY <1>2
    <3>2. f[n - 1] = g[n - 1]
      BY <3>1
    <3> QED BY <1>2, <2>1, <3>2
  <2>2. CASE k # n
    <3>1. k \in 0 .. (n - 1) /\ f[k] = g[k]
      BY <2>2
    <3>2. k # 0 => k - 1 \in 0 .. n /\ k - 1 # n
      BY <2>2
    <3>3. k # 0 => f[k - 1] = g[k - 1]
      BY <3>2
    <3>4. g[k] = IF k = 0 THEN <<>>
                 ELSE IF q[k] \in names THEN Append(g[k - 1], q[k]) ELSE g[k - 1]
      BY <1>3, <3>1 DEF Picks
    <3> QED BY <3>1, <3>3, <3>4
  <2> QED BY <2>1, <2>2
<1>5. f = [k \in 0 .. n |-> f[k]]
  OBVIOUS
<1> HIDE DEF f
<1>6. Picks(f, q, names, n)
  BY <1>4, <1>5 DEF Picks
<1> QED BY <1>1, <1>6

Firsts(q, m) == {q[k] : k \in 1 .. m}

LEMMA PicksFacts ==
  ASSUME NEW S, NEW q \in Seq(S), IsInjective(q), NEW names, NEW f, Picks(f, q, names, Len(q)),
         NEW m \in 0 .. Len(q)
  PROVE  /\ f[m] \in Seq(S) /\ IsInjective(f[m])
         /\ Range(f[m]) = Firsts(q, m) \cap names
<1> USE DEF Firsts
<1> DEFINE P(n) == /\ f[n] \in Seq(S) /\ IsInjective(f[n])
                   /\ Range(f[n]) = {q[k] : k \in 1 .. n} \cap names
           B == {n \in 0 .. Len(q) : ~P(n)}
<1> SUFFICES ASSUME B # {} PROVE FALSE
  OBVIOUS
<1>1. PICK n \in B : \A k \in B : n <= k
  <2>1. B \subseteq Nat
    OBVIOUS
  <2> HIDE DEF B
  <2> QED BY <2>1, LeastNumber
<1>2. f[n] = IF n = 0 THEN <<>> ELSE IF q[n] \in names THEN Append(f[n - 1], q[n]) ELSE f[n - 1]
  BY DEF Picks
<1>3. n # 0
  <2>1. <<>> \in Seq(S) /\ IsInjective(<<>>) /\ Range(<<>>) = {}
    BY DEF IsInjective, Range
  <2>2. {q[k] : k \in 1 .. 0} = {}
    OBVIOUS
  <2> QED BY <1>2, <2>1, <2>2
<1>4. n - 1 \in 0 .. Len(q) /\ n - 1 \notin B
  <2>1. n - 1 \in 0 .. Len(q) /\ ~(n <= n - 1)
    BY <1>3
  <2> HIDE DEF B
  <2> QED BY <1>1, <2>1
<1>5. P(n - 1)
  BY <1>4
<1>6. q[n] \in S /\ n \in DOMAIN q /\ {q[k] : k \in 1 .. n} = {q[k] : k \in 1 .. (n - 1)} \cup {q[n]}
  BY <1>3
<1>7. CASE q[n] \notin names
  <2>1. f[n] = f[n - 1]
    BY <1>2, <1>3, <1>7
  <2>2. {q[k] : k \in 1 .. n} \cap names = {q[k] : k \in 1 .. (n - 1)} \cap names
    BY <1>6, <1>7
  <2> QED BY <1>5, <2>1, <2>2
<1>8. CASE q[n] \in names
  <2>1. f[n] = Append(f[n - 1], q[n])
    BY <1>2, <1>3, <1>8
  <2>2. q[n] \notin {q[k] : k \in 1 .. (n - 1)}
    BY <1>3 DEF IsInjective
  <2>3. q[n] \notin Range(f[n - 1])
    BY <1>5, <2>2
  <2> DEFINE t == f[n - 1]
  <2>4. t \in Seq(S) /\ IsInjective(t) /\ Range(t) = {q[k] : k \in 1 .. (n - 1)} \cap names
    BY <1>5
  <2> HIDE DEF t
  <2>5. Append(t, q[n]) \in Seq(S) /\ IsInjective(Append(t, q[n]))
        /\ Range(Append(t, q[n])) = Range(t) \cup {q[n]}
    BY <1>6, <2>3, <2>4, AppendFacts DEF t
  <2> QED BY <1>6, <1>8, <2>1, <2>4, <2>5 DEF t
<1> QED BY <1>7, <1>8

(* Only keeps the elements of the set, each once.                          *)
LEMMA OnlyFacts ==
  ASSUME NEW S, NEW q \in Seq(S), IsInjective(q), NEW names
  PROVE  /\ Only(q, names) \in Seq(S) /\ IsInjective(Only(q, names))
         /\ Range(Only(q, names)) = Range(q) \cap names
<1> DEFINE f == CHOOSE g : Picks(g, q, names, Len(q))
<1>1. Len(q) \in Nat /\ Len(q) \in 0 .. Len(q) /\ Range(q) = Firsts(q, Len(q))
  BY DEF Range, Firsts
<1>2. Picks(f, q, names, Len(q))
  BY <1>1, PicksExists
<1>3. Only(q, names) = f[Len(q)]
  BY DEF Only, Picks
<1> HIDE DEF f
<1>4. /\ f[Len(q)] \in Seq(S) /\ IsInjective(f[Len(q)])
      /\ Range(f[Len(q)]) = Firsts(q, Len(q)) \cap names
  BY <1>1, <1>2, PicksFacts
<1> QED BY <1>1, <1>3, <1>4

(* Two sequences with nothing in common.                                   *)
LEMMA ConcatFacts ==
  ASSUME NEW S, NEW s \in Seq(S), NEW t \in Seq(S), IsInjective(s), IsInjective(t),
         Range(s) \cap Range(t) = {}
  PROVE  /\ s \o t \in Seq(S) /\ IsInjective(s \o t)
         /\ Range(s \o t) = Range(s) \cup Range(t)
<1> DEFINE c == s \o t
           m == Len(s)
           n == Len(t)
<1>1. /\ c \in Seq(S) /\ m \in Nat /\ n \in Nat
      /\ DOMAIN c = 1 .. (m + n) /\ DOMAIN s = 1 .. m /\ DOMAIN t = 1 .. n
      /\ \A k \in 1 .. m : c[k] = s[k]
      /\ \A k \in 1 .. n : c[m + k] = t[k]
  OBVIOUS
<1> HIDE DEF c, m, n
<1>2. ASSUME NEW k \in 1 .. (m + n) PROVE k \in 1 .. m \/ \E j \in 1 .. n : k = m + j
  <2>1. CASE k > m
    <3>1. k - m \in 1 .. n /\ k = m + (k - m)
      BY <1>1, <2>1
    <3> QED BY <3>1
  <2>2. CASE ~(k > m)
    BY <1>1, <2>2
  <2> QED BY <2>1, <2>2
<1>3. (\A k \in 1 .. m : k \in 1 .. (m + n)) /\ (\A k \in 1 .. n : m + k \in 1 .. (m + n))
  BY <1>1
<1>4. ASSUME NEW k \in 1 .. m, NEW j \in 1 .. n PROVE s[k] # t[j]
  BY <1>1 DEF Range
<1>5. IsInjective(c)
  <2> SUFFICES ASSUME NEW a \in 1 .. (m + n), NEW b \in 1 .. (m + n), c[a] = c[b] PROVE a = b
    BY <1>1 DEF IsInjective
  <2>1. CASE a \in 1 .. m /\ b \in 1 .. m
    BY <1>1, <2>1 DEF IsInjective
  <2>2. ASSUME NEW i \in 1 .. n, NEW j \in 1 .. n, a = m + i, b = m + j PROVE a = b
    <3>1. t[i] = t[j] /\ i \in DOMAIN t /\ j \in DOMAIN t
      BY <1>1, <2>2
    <3> QED BY <2>2, <3>1 DEF IsInjective
  <2>3. CASE a \in 1 .. m /\ (\E j \in 1 .. n : b = m + j)
    <3>1. PICK j \in 1 .. n : b = m + j
      BY <2>3
    <3>2. c[a] = s[a] /\ c[b] = t[j] /\ s[a] # t[j]
      BY <1>1, <1>4, <2>3, <3>1
    <3> QED BY <3>2
  <2>4. CASE (\E j \in 1 .. n : a = m + j) /\ b \in 1 .. m
    <3>1. PICK j \in 1 .. n : a = m + j
      BY <2>4
    <3>2. c[b] = s[b] /\ c[a] = t[j] /\ s[b] # t[j]
      BY <1>1, <1>4, <2>4, <3>1
    <3> QED BY <3>2
  <2> QED BY <1>2, <2>1, <2>2, <2>3, <2>4
<1>6. Range(c) = Range(s) \cup Range(t)
  <2>1. ASSUME NEW e \in Range(c) PROVE e \in Range(s) \cup Range(t)
    <3>1. PICK k \in 1 .. (m + n) : e = c[k]
      BY <1>1 DEF Range
    <3> QED BY <1>1, <1>2, <3>1 DEF Range
  <2>2. ASSUME NEW e \in Range(s) \cup Range(t) PROVE e \in Range(c)
    BY <1>1, <1>3 DEF Range
  <2> QED BY <2>1, <2>2
<1> QED BY <1>1, <1>5, <1>6 DEF c

(* The first elements of a sequence.                                       *)
LEMMA PrefixFacts ==
  ASSUME NEW S, NEW s \in Seq(S), IsInjective(s), NEW n \in 0 .. Len(s)
  PROVE  LET p == SubSeq(s, 1, n) IN
         /\ p \in Seq(S) /\ IsInjective(p) /\ Range(p) \subseteq Range(s) /\ Len(p) = n
<1> DEFINE p == SubSeq(s, 1, n)
<1>1. p \in Seq(S) /\ Len(p) = n /\ DOMAIN p = 1 .. n /\ \A k \in 1 .. n : p[k] = s[k]
  OBVIOUS
<1>2. DOMAIN s = 1 .. Len(s) /\ \A k \in 1 .. n : k \in 1 .. Len(s)
  OBVIOUS
<1> HIDE DEF p
<1>3. IsInjective(p) /\ Range(p) \subseteq Range(s)
  BY <1>1, <1>2 DEF IsInjective, Range
<1> QED BY <1>1, <1>3 DEF p

(* A sequence that is not empty: its head and its tail.                    *)
LEMMA TailFacts ==
  ASSUME NEW S, NEW s \in Seq(S), s # <<>>
  PROVE  /\ Head(s) \in S /\ Tail(s) \in Seq(S)
         /\ Range(s) = {Head(s)} \cup Range(Tail(s))
         /\ IsInjective(s) => IsInjective(Tail(s)) /\ Head(s) \notin Range(Tail(s))
<1> DEFINE t == Tail(s)
           n == Len(s)
<1>1. /\ n \in Nat /\ n >= 1 /\ Head(s) = s[1] /\ s[1] \in S
      /\ t \in Seq(S) /\ DOMAIN s = 1 .. n /\ DOMAIN t = 1 .. (n - 1)
      /\ \A k \in 1 .. (n - 1) : t[k] = s[k + 1]
  OBVIOUS
<1> HIDE DEF t, n
<1>2. (\A k \in 1 .. (n - 1) : k + 1 \in 1 .. n /\ k + 1 # 1) /\ 1 \in 1 .. n
  BY <1>1
<1>3. ASSUME NEW k \in 1 .. n, k # 1 PROVE \E j \in 1 .. (n - 1) : k = j + 1
  <2>1. k - 1 \in 1 .. (n - 1) /\ k = (k - 1) + 1
    BY <1>1, <1>3
  <2> QED BY <2>1
<1>4. ASSUME IsInjective(s) PROVE IsInjective(t)
  <2> SUFFICES ASSUME NEW a \in 1 .. (n - 1), NEW b \in 1 .. (n - 1), t[a] = t[b] PROVE a = b
    BY <1>1 DEF IsInjective
  <2>1. a + 1 = b + 1
    <3>1. a + 1 \in DOMAIN s /\ b + 1 \in DOMAIN s /\ s[a + 1] = s[b + 1]
      BY <1>1, <1>2
    <3> QED BY <1>4, <3>1 DEF IsInjective
  <2> QED BY <2>1
<1>5. Range(s) = {s[1]} \cup Range(t)
  <2>1. ASSUME NEW e \in Range(s) PROVE e \in {s[1]} \cup Range(t)
    <3>1. PICK k \in 1 .. n : e = s[k]
      BY <1>1 DEF Range
    <3>2. ASSUME NEW j \in 1 .. (n - 1), k = j + 1 PROVE e = t[j] /\ j \in DOMAIN t
      BY <1>1, <3>1, <3>2
    <3> QED BY <1>3, <3>1, <3>2 DEF Range
  <2>2. ASSUME NEW e \in {s[1]} \cup Range(t) PROVE e \in Range(s)
    <3>1. CASE e = s[1]
      BY <1>1, <1>2, <3>1 DEF Range
    <3>2. CASE e \in Range(t)
      <4>1. PICK k \in 1 .. (n - 1) : e = t[k]
        BY <1>1, <3>2 DEF Range
      <4>2. k + 1 \in DOMAIN s /\ e = s[k + 1]
        BY <1>1, <1>2, <4>1
      <4> QED BY <4>2 DEF Range
    <3> QED BY <3>1, <3>2
  <2> QED BY <2>1, <2>2
<1>6. ASSUME IsInjective(s) PROVE s[1] \notin Range(t)
  BY <1>1, <1>2, <1>6 DEF IsInjective, Range
<1> QED BY <1>1, <1>4, <1>5, <1>6 DEF t

-----------------------------------------------------------------------------
(* What the operations do to a schedule.                                   *)

(* Inputs of the order, and a schedule's parts.                            *)
LEMMA OrderFacts ==
  ASSUME NEW names
  PROVE  /\ Only(Order, names) \in Seq(Input) /\ IsInjective(Only(Order, names))
         /\ Range(Only(Order, names)) = Input \cap names
BY OrderAssumption, OnlyFacts DEF Input

LEMMA ScheduleFacts ==
  ASSUME NEW s, IsSchedule(s)
  PROVE  /\ s.waiting \subseteq Input /\ s.queue \in Seq(Input) /\ s.running \subseteq Input
         /\ IsInjective(s.queue) /\ s.waiting \cap Range(s.queue) = {}
         /\ Range(s.queue) \subseteq Input /\ Entered(s) \subseteq Input
<1>1. /\ s.waiting \subseteq Input /\ s.queue \in Seq(Input) /\ s.running \subseteq Input
      /\ IsInjective(s.queue) /\ s.waiting \cap Range(s.queue) = {}
  BY DEF IsSchedule
<1>2. Range(s.queue) \subseteq Input
  BY <1>1 DEF Range
<1> QED BY <1>1, <1>2 DEF Entered

LEMMA MakeSchedule ==
  ASSUME NEW w, w \subseteq Input, NEW q \in Seq(Input), NEW r, r \subseteq Input,
         IsInjective(q), w \cap Range(q) = {}
  PROVE  IsSchedule([waiting |-> w, queue |-> q, running |-> r])
BY DEF IsSchedule

LEMMA EmptyIsSchedule == IsSchedule(EmptySchedule) /\ Entered(EmptySchedule) = {}
<1>1. <<>> \in Seq(Input) /\ IsInjective(<<>>) /\ Range(<<>>) = {}
  BY DEF IsInjective, Range
<1> QED BY <1>1 DEF IsSchedule, EmptySchedule, Entered

LEMMA SyncFacts ==
  ASSUME NEW s, IsSchedule(s), NEW names, names \subseteq Input
  PROVE  /\ IsSchedule(Sync(s, names)) /\ Sync(s, names).running = s.running
         /\ Entered(Sync(s, names)) = names
<1> DEFINE kept == Only(s.queue, names)
           new == Only(Order, names \ Entered(s))
<1>1. kept \in Seq(Input) /\ IsInjective(kept) /\ Range(kept) = Range(s.queue) \cap names
  BY ScheduleFacts, OnlyFacts
<1>2. new \in Seq(Input) /\ IsInjective(new) /\ Range(new) = names \ Entered(s)
  BY OrderFacts
<1>3. Sync(s, names) = [waiting |-> s.waiting \cap names, queue |-> kept \o new, running |-> s.running]
  BY DEF Sync
<1> HIDE DEF kept, new
<1>4. Range(kept) \cap Range(new) = {}
  BY <1>1, <1>2 DEF Entered
<1>5. /\ kept \o new \in Seq(Input) /\ IsInjective(kept \o new)
      /\ Range(kept \o new) = Range(kept) \cup Range(new)
  BY <1>1, <1>2, <1>4, ConcatFacts
<1>6. (s.waiting \cap names) \cap Range(kept \o new) = {}
  BY <1>1, <1>2, <1>5, ScheduleFacts DEF Entered
<1>7. IsSchedule(Sync(s, names))
  <2>1. s.waiting \cap names \subseteq Input /\ s.running \subseteq Input
    BY ScheduleFacts
  <2>2. IsSchedule([waiting |-> s.waiting \cap names, queue |-> kept \o new, running |-> s.running])
    BY <1>5, <1>6, <2>1, MakeSchedule
  <2> QED BY <1>3, <2>2
<1>8. (s.waiting \cap names) \cup Range(kept \o new) = names
  BY <1>1, <1>2, <1>5 DEF Entered
<1> QED BY <1>3, <1>7, <1>8 DEF Entered

LEMMA CompleteFacts ==
  ASSUME NEW s, IsSchedule(s), NEW names, names \subseteq Input
  PROVE  /\ IsSchedule(CompleteLater(s, names)) /\ IsSchedule(CompleteOut(s, names))
         /\ CompleteLater(s, names).running = s.running \ names
         /\ CompleteOut(s, names).running = s.running \ names
         /\ Entered(CompleteLater(s, names)) = Entered(s) \cup names
         /\ Entered(CompleteOut(s, names)) = Entered(s) \ names
<1> DEFINE kept == Only(s.queue, Input \ names)
<1>1. kept \in Seq(Input) /\ IsInjective(kept) /\ Range(kept) = Range(s.queue) \ names
  BY ScheduleFacts, OnlyFacts
<1> HIDE DEF kept
<1>2. /\ CompleteLater(s, names) = [waiting |-> s.waiting \cup names, queue |-> kept,
                                    running |-> s.running \ names]
      /\ CompleteOut(s, names) = [waiting |-> s.waiting \ names, queue |-> kept,
                                  running |-> s.running \ names]
  BY DEF CompleteLater, CompleteOut, kept
<1>3. (s.waiting \cup names) \cap Range(kept) = {} /\ (s.waiting \ names) \cap Range(kept) = {}
  BY <1>1, ScheduleFacts
<1>4. IsSchedule(CompleteLater(s, names)) /\ IsSchedule(CompleteOut(s, names))
  <2>1. /\ s.waiting \cup names \subseteq Input /\ s.waiting \ names \subseteq Input
        /\ s.running \ names \subseteq Input
    BY ScheduleFacts
  <2>2. IsSchedule([waiting |-> s.waiting \cup names, queue |-> kept, running |-> s.running \ names])
    BY <1>1, <1>3, <2>1, MakeSchedule
  <2>3. IsSchedule([waiting |-> s.waiting \ names, queue |-> kept, running |-> s.running \ names])
    BY <1>1, <1>3, <2>1, MakeSchedule
  <2> QED BY <1>2, <2>2, <2>3
<1>5. /\ (s.waiting \cup names) \cup Range(kept) = Entered(s) \cup names
      /\ (s.waiting \ names) \cup Range(kept) = Entered(s) \ names
  BY <1>1 DEF Entered
<1> QED BY <1>2, <1>4, <1>5 DEF Entered

LEMMA CompleteNowFacts ==
  ASSUME NEW s, IsSchedule(s), NEW names, names \subseteq Input
  PROVE  /\ IsSchedule(CompleteNow(s, names))
         /\ CompleteNow(s, names).running = s.running \ names
         /\ Entered(CompleteNow(s, names)) = Entered(s) \cup names
<1> DEFINE out == CompleteOut(s, names)
           new == Only(Order, names)
<1>1. IsSchedule(out) /\ out.running = s.running \ names /\ Entered(out) = Entered(s) \ names
  BY CompleteFacts
<1>2. new \in Seq(Input) /\ IsInjective(new) /\ Range(new) = names
  BY OrderFacts
<1>3. CompleteNow(s, names) = [waiting |-> out.waiting, queue |-> out.queue \o new, running |-> out.running]
  BY DEF CompleteNow, CompleteOut, new
<1> HIDE DEF out, new
<1>4. Range(out.queue) \cap Range(new) = {} /\ out.waiting \cap Range(new) = {}
  BY <1>1, <1>2 DEF Entered
<1>5. /\ out.queue \o new \in Seq(Input) /\ IsInjective(out.queue \o new)
      /\ Range(out.queue \o new) = Range(out.queue) \cup Range(new)
  BY <1>1, <1>2, <1>4, ScheduleFacts, ConcatFacts
<1>6. out.waiting \cap Range(out.queue \o new) = {}
  BY <1>1, <1>4, <1>5, ScheduleFacts
<1>7. IsSchedule(CompleteNow(s, names))
  <2>1. out.waiting \subseteq Input /\ out.running \subseteq Input
    BY <1>1, ScheduleFacts
  <2>2. IsSchedule([waiting |-> out.waiting, queue |-> out.queue \o new, running |-> out.running])
    BY <1>5, <1>6, <2>1, MakeSchedule
  <2> QED BY <1>3, <2>2
<1>8. out.waiting \cup Range(out.queue \o new) = Entered(s) \cup names
  BY <1>1, <1>2, <1>5 DEF Entered
<1> QED BY <1>1, <1>3, <1>7, <1>8 DEF Entered

LEMMA ComeDueFacts ==
  ASSUME NEW s, IsSchedule(s), NEW i \in s.waiting
  PROVE  /\ IsSchedule(ComeDue(s, i)) /\ ComeDue(s, i).running = s.running
         /\ Entered(ComeDue(s, i)) = Entered(s)
<1> DEFINE q == Append(s.queue, i)
<1>1. i \in Input /\ i \notin Range(s.queue)
  BY ScheduleFacts
<1>2. q \in Seq(Input) /\ IsInjective(q) /\ Range(q) = Range(s.queue) \cup {i}
  BY <1>1, ScheduleFacts, AppendFacts
<1>3. ComeDue(s, i) = [waiting |-> s.waiting \ {i}, queue |-> q, running |-> s.running]
  BY DEF ComeDue
<1> HIDE DEF q
<1>4. (s.waiting \ {i}) \cap Range(q) = {} /\ (s.waiting \ {i}) \cup Range(q) = Entered(s)
  BY <1>2, ScheduleFacts DEF Entered
<1>5. IsSchedule(ComeDue(s, i))
  <2>1. s.waiting \ {i} \subseteq Input /\ s.running \subseteq Input
    BY ScheduleFacts
  <2>2. IsSchedule([waiting |-> s.waiting \ {i}, queue |-> q, running |-> s.running])
    BY <1>2, <1>4, <2>1, MakeSchedule
  <2> QED BY <1>3, <2>2
<1> QED BY <1>3, <1>4, <1>5 DEF Entered

(* A sequence holds no more elements than it is long.                      *)
LEMMA RangeIsShort ==
  ASSUME NEW S, NEW s \in Seq(S)
  PROVE  IsFiniteSet(Range(s)) /\ Cardinality(Range(s)) <= Len(s)
<1>1. Len(s) \in Nat /\ DOMAIN s = 1 .. Len(s) /\ s = [k \in 1 .. Len(s) |-> s[k]]
  OBVIOUS
<1>2. s \in [1 .. Len(s) -> Range(s)]
  BY <1>1 DEF Range
<1>3. \A e \in Range(s) : \E k \in 1 .. Len(s) : s[k] = e
  BY <1>1 DEF Range
<1>4. s \in Surjection(1 .. Len(s), Range(s))
  BY <1>2, <1>3 DEF Surjection
<1>5. IsFiniteSet(1 .. Len(s)) /\ Cardinality(1 .. Len(s)) = Len(s)
  <2>1. 1 \in Int /\ Len(s) \in Int /\ (1 > Len(s) => Len(s) = 0) /\ Len(s) - 1 + 1 = Len(s)
    BY <1>1
  <2>2. IsFiniteSet(1 .. Len(s))
    BY ONLY <2>1, FS_Interval
  <2>3. Cardinality(1 .. Len(s)) = IF 1 > Len(s) THEN 0 ELSE Len(s) - 1 + 1
    BY ONLY <2>1, FS_Interval
  <2> QED BY <2>1, <2>2, <2>3
<1> QED BY <1>1, <1>4, <1>5, FS_Surjection

LEMMA InputIsFinite == IsFiniteSet(Input)
BY OrderAssumption, RangeIsShort DEF Input

LEMMA DueFacts ==
  ASSUME NEW s, IsSchedule(s), NEW room \in Nat, Cardinality(s.running) <= room
  PROVE  /\ Due(s, room) \in Seq(Input) /\ IsInjective(Due(s, room))
         /\ Range(Due(s, room)) \subseteq Entered(s) \ s.running
         /\ Cardinality(s.running) + Len(Due(s, room)) <= room
<1> DEFINE idle == Only(s.queue, Input \ s.running)
           free == room - Cardinality(s.running)
           n == IF free < Len(idle) THEN free ELSE Len(idle)
<1>1. idle \in Seq(Input) /\ IsInjective(idle) /\ Range(idle) = Range(s.queue) \ s.running
  BY ScheduleFacts, OnlyFacts
<1>2. Cardinality(s.running) \in Nat
  BY ScheduleFacts, InputIsFinite, FS_Subset, FS_CardinalityType
<1>3. n \in 0 .. Len(idle) /\ Cardinality(s.running) + n <= room
  <2> HIDE DEF idle
  <2>1. Len(idle) \in Nat
    BY <1>1
  <2> QED BY <1>2, <2>1
<1>4. Due(s, room) = SubSeq(idle, 1, n)
  BY DEF Due
<1> HIDE DEF idle, n
<1>5. LET p == SubSeq(idle, 1, n) IN
      p \in Seq(Input) /\ IsInjective(p) /\ Range(p) \subseteq Range(idle) /\ Len(p) = n
  BY <1>1, <1>3, PrefixFacts
<1> QED BY <1>1, <1>3, <1>4, <1>5 DEF Entered

-----------------------------------------------------------------------------
(* The steps keep the invariant: one lemma for each action.                *)

(* The bounds, on a step that counts an event or leaves them alone.        *)
LEMMA BoundsFacts ==
  ASSUME TypeOK, Event \/ UNCHANGED bounds
  PROVE  capacity' = capacity /\ capacity' \in Capacities /\ events' \in 0 .. MaxEvents
<1>1. capacity \in Capacities /\ events \in 0 .. MaxEvents
  BY DEF TypeOK
<1>2. CASE Event
  BY <1>1, <1>2, RuntimeAssumption DEF Event
<1>3. CASE UNCHANGED bounds
  BY <1>1, <1>3 DEF bounds
<1> QED BY <1>2, <1>3

LEMMA SignalStep ==
  ASSUME LoopInv, Signal
  PROVE  LoopInv'
<1>b. capacity' = capacity /\ capacity' \in Capacities /\ events' \in 0 .. MaxEvents
  BY BoundsFacts DEF LoopInv, Types, Signal
<1>1. Types'
  BY <1>b DEF LoopInv, Types, TypeOK, Signal, At, Goto, durable, stage
<1>2. RunningMatch'
  BY DEF LoopInv, RunningMatch, Active, Signal, At, Goto, durable, stage
<1>3. LaunchingSound'
  BY <1>b DEF LoopInv, LaunchingSound, Active, Signal, At, Goto, durable, stage
<1>4. OnlyEnabled'
  BY DEF LoopInv, OnlyEnabled, Signal, At, Goto, durable, stage
<1>5. BacklogIsQuiet'
  BY DEF LoopInv, BacklogIsQuiet, Active, Signal, At, Goto, durable, stage
<1>6. RisingTasks'
  BY DEF LoopInv, RisingTasks, Signal, At, Goto, durable, stage
<1>7. ScansEnabled'
  BY DEF LoopInv, ScansEnabled, ScanOpen, Signal, At, Goto, durable, stage
<1>8. PassSound'
  BY DEF LoopInv, PassSound, Reconciled, Signal, At, Goto, durable, stage
<1>9. WaveSound'
  BY DEF LoopInv, WaveSound, Undelivered, Active, Signal, At, Goto, durable, stage
<1>10. DownSound'
  BY DEF LoopInv, DownSound, Signal, At, Goto, durable, stage
<1> QED BY <1>1, <1>2, <1>3, <1>4, <1>5, <1>6, <1>7, <1>8, <1>9, <1>10 DEF LoopInv

LEMMA QuitStep ==
  ASSUME LoopInv, Quit
  PROVE  LoopInv'
<1>b. capacity' = capacity /\ capacity' \in Capacities /\ events' \in 0 .. MaxEvents
  BY BoundsFacts DEF LoopInv, Types, Quit
<1>1. Types'
  BY <1>b DEF LoopInv, Types, TypeOK, Quit, At, Goto, durable, stage
<1>2. RunningMatch'
  BY DEF LoopInv, RunningMatch, Active, Quit, At, Goto, durable, stage
<1>3. LaunchingSound'
  BY <1>b DEF LoopInv, LaunchingSound, Active, Quit, At, Goto, durable, stage
<1>4. OnlyEnabled'
  BY DEF LoopInv, OnlyEnabled, Quit, At, Goto, durable, stage
<1>5. BacklogIsQuiet'
  BY DEF LoopInv, BacklogIsQuiet, Active, Quit, At, Goto, durable, stage
<1>6. RisingTasks'
  BY DEF LoopInv, RisingTasks, Quit, At, Goto, durable, stage
<1>7. ScansEnabled'
  BY DEF LoopInv, ScansEnabled, ScanOpen, Quit, At, Goto, durable, stage
<1>8. PassSound'
  BY DEF LoopInv, PassSound, Reconciled, Quit, At, Goto, durable, stage
<1>9. WaveSound'
  BY DEF LoopInv, WaveSound, Undelivered, Active, Quit, At, Goto, durable, stage
<1>10. DownSound'
  BY DEF LoopInv, DownSound, Quit, At, Goto, durable, stage
<1> QED BY <1>1, <1>2, <1>3, <1>4, <1>5, <1>6, <1>7, <1>8, <1>9, <1>10 DEF LoopInv

LEMMA SkipReloadStep ==
  ASSUME LoopInv, SkipReload
  PROVE  LoopInv'
<1>b. capacity' = capacity /\ capacity' \in Capacities /\ events' \in 0 .. MaxEvents
  BY BoundsFacts DEF LoopInv, Types, SkipReload
<1>1. Types'
  BY <1>b DEF LoopInv, Types, TypeOK, SkipReload, At, Goto, durable, stage
<1>2. RunningMatch'
  BY DEF LoopInv, RunningMatch, Active, SkipReload, At, Goto, durable, stage
<1>3. LaunchingSound'
  BY <1>b DEF LoopInv, LaunchingSound, Active, SkipReload, At, Goto, durable, stage
<1>4. OnlyEnabled'
  BY DEF LoopInv, OnlyEnabled, SkipReload, At, Goto, durable, stage
<1>5. BacklogIsQuiet'
  BY DEF LoopInv, BacklogIsQuiet, Active, SkipReload, At, Goto, durable, stage
<1>6. RisingTasks'
  BY DEF LoopInv, RisingTasks, SkipReload, At, Goto, durable, stage
<1>7. ScansEnabled'
  BY DEF LoopInv, ScansEnabled, ScanOpen, SkipReload, At, Goto, durable, stage
<1>8. PassSound'
  BY DEF LoopInv, PassSound, Reconciled, SkipReload, At, Goto, durable, stage
<1>9. WaveSound'
  BY DEF LoopInv, WaveSound, Undelivered, Active, SkipReload, At, Goto, durable, stage
<1>10. DownSound'
  BY DEF LoopInv, DownSound, SkipReload, At, Goto, durable, stage
<1> QED BY <1>1, <1>2, <1>3, <1>4, <1>5, <1>6, <1>7, <1>8, <1>9, <1>10 DEF LoopInv

LEMMA BeginReloadStep ==
  ASSUME LoopInv, BeginReload
  PROVE  LoopInv'
<1>b. capacity' = capacity /\ capacity' \in Capacities /\ events' \in 0 .. MaxEvents
  BY BoundsFacts DEF LoopInv, Types, BeginReload
<1>1. Types'
  BY <1>b DEF LoopInv, Types, TypeOK, BeginReload, At, Goto, durable, stage
<1>2. RunningMatch'
  BY DEF LoopInv, RunningMatch, Active, BeginReload, At, Goto, durable, stage
<1>3. LaunchingSound'
  BY <1>b DEF LoopInv, LaunchingSound, Active, BeginReload, At, Goto, durable, stage
<1>4. OnlyEnabled'
  BY DEF LoopInv, OnlyEnabled, BeginReload, At, Goto, durable, stage
<1>5. BacklogIsQuiet'
  BY DEF LoopInv, BacklogIsQuiet, Active, BeginReload, At, Goto, durable, stage
<1>6. RisingTasks'
  BY DEF LoopInv, RisingTasks, BeginReload, At, Goto, durable, stage
<1>7. ScansEnabled'
  BY DEF LoopInv, ScansEnabled, ScanOpen, BeginReload, At, Goto, durable, stage
<1>8. PassSound'
  BY DEF LoopInv, PassSound, Reconciled, BeginReload, At, Goto, durable, stage
<1>9. WaveSound'
  BY DEF LoopInv, WaveSound, Undelivered, Active, BeginReload, At, Goto, durable, stage
<1>10. DownSound'
  BY DEF LoopInv, DownSound, BeginReload, At, Goto, durable, stage
<1> QED BY <1>1, <1>2, <1>3, <1>4, <1>5, <1>6, <1>7, <1>8, <1>9, <1>10 DEF LoopInv

LEMMA SleepStep ==
  ASSUME LoopInv, Sleep
  PROVE  LoopInv'
<1>b. capacity' = capacity /\ capacity' \in Capacities /\ events' \in 0 .. MaxEvents
  BY BoundsFacts DEF LoopInv, Types, Sleep
<1>1. Types'
  BY <1>b DEF LoopInv, Types, TypeOK, Sleep, At, Goto, durable, stage
<1>2. RunningMatch'
  BY DEF LoopInv, RunningMatch, Active, Sleep, At, Goto, durable, stage
<1>3. LaunchingSound'
  BY <1>b DEF LoopInv, LaunchingSound, Active, Sleep, At, Goto, durable, stage
<1>4. OnlyEnabled'
  BY DEF LoopInv, OnlyEnabled, Sleep, At, Goto, durable, stage
<1>5. BacklogIsQuiet'
  BY DEF LoopInv, BacklogIsQuiet, Active, Sleep, At, Goto, durable, stage
<1>6. RisingTasks'
  BY DEF LoopInv, RisingTasks, Sleep, At, Goto, durable, stage
<1>7. ScansEnabled'
  BY DEF LoopInv, ScansEnabled, ScanOpen, Sleep, At, Goto, durable, stage
<1>8. PassSound'
  BY DEF LoopInv, PassSound, Reconciled, Sleep, At, Goto, durable, stage
<1>9. WaveSound'
  BY DEF LoopInv, WaveSound, Undelivered, Active, Sleep, At, Goto, durable, stage
<1>10. DownSound'
  BY DEF LoopInv, DownSound, Sleep, At, Goto, durable, stage
<1> QED BY <1>1, <1>2, <1>3, <1>4, <1>5, <1>6, <1>7, <1>8, <1>9, <1>10 DEF LoopInv

LEMMA SpawnDoneStep ==
  ASSUME LoopInv, SpawnDone
  PROVE  LoopInv'
<1>b. capacity' = capacity /\ capacity' \in Capacities /\ events' \in 0 .. MaxEvents
  BY BoundsFacts DEF LoopInv, Types, SpawnDone
<1>1. Types'
  BY <1>b DEF LoopInv, Types, TypeOK, SpawnDone, At, Goto, durable, stage
<1>2. RunningMatch'
  BY DEF LoopInv, RunningMatch, Active, SpawnDone, At, Goto, durable, stage
<1>3. LaunchingSound'
  BY <1>b DEF LoopInv, LaunchingSound, Active, SpawnDone, At, Goto, durable, stage
<1>4. OnlyEnabled'
  BY DEF LoopInv, OnlyEnabled, SpawnDone, At, Goto, durable, stage
<1>5. BacklogIsQuiet'
  BY DEF LoopInv, BacklogIsQuiet, Active, SpawnDone, At, Goto, durable, stage
<1>6. RisingTasks'
  BY DEF LoopInv, RisingTasks, SpawnDone, At, Goto, durable, stage
<1>7. ScansEnabled'
  BY DEF LoopInv, ScansEnabled, ScanOpen, SpawnDone, At, Goto, durable, stage
<1>8. PassSound'
  BY DEF LoopInv, PassSound, Reconciled, SpawnDone, At, Goto, durable, stage
<1>9. WaveSound'
  BY DEF LoopInv, WaveSound, Undelivered, Active, SpawnDone, At, Goto, durable, stage
<1>10. DownSound'
  BY DEF LoopInv, DownSound, SpawnDone, At, Goto, durable, stage
<1> QED BY <1>1, <1>2, <1>3, <1>4, <1>5, <1>6, <1>7, <1>8, <1>9, <1>10 DEF LoopInv

(* The parts of a pass.                                                    *)
LEMMA PassTyped ==
  ASSUME NEW p \in Pass
  PROVE  /\ Range(p.left) \subseteq Rising /\ p.needs \subseteq Rising /\ p.committed \subseteq Rising
         /\ p.left \in Seq(Rising)
<1>1. p.left \in Seq(Rising) /\ p.needs \subseteq Rising /\ p.committed \subseteq Rising
  BY DEF Pass
<1> QED BY <1>1 DEF Range

(* A pass begins with the rising inputs that are configured: no other one has a scan. *)
LEMMA BeginPassFacts ==
  ASSUME LoopInv, pc # "down", NEW f \in BOOLEAN, BeginPass(f), UNCHANGED <<config, work>>
  PROVE  pc' = "pass" /\ reloading' = f /\ pass' \in Pass /\ PassSound'
<1> DEFINE left == RisingLeft(config)
<1>1. left \in Seq(Input) /\ Range(left) = Rising \cap Configured(config)
  BY OrderFacts, RuntimeAssumption DEF RisingLeft
<1> HIDE DEF left
<1>2. left \in Seq(Rising)
  <2>1. Len(left) \in Nat /\ \A k \in 1 .. Len(left) : left[k] \in Rising
    BY <1>1 DEF Range
  <2> QED BY <1>1, <2>1
<1>3. pc' = "pass" /\ reloading' = f /\ pass' = [left |-> left, needs |-> {}, committed |-> {}]
  BY DEF BeginPass, Goto, NoPass, left
<1>4. pass' \in Pass
  BY <1>2, <1>3 DEF Pass
<1>5. ASSUME NEW i \in Rising \ Range(left)
      PROVE  work[i].phase \in {"missing", "idle"}
  <2>1. i \in Input /\ i \in Rising
    BY RuntimeAssumption
  <2>2. work[i].phase \in RisingPhase
    BY <2>1 DEF LoopInv, Types, TypeOK
  <2>3. i \notin Enabled(config)
    BY <1>1, <2>1, RuntimeAssumption DEF Configured, Enabled, Setting
  <2> QED BY <2>1, <2>2, <2>3 DEF LoopInv, ScansEnabled, ScanOpen, RisingPhase
<1>6. PassSound'
  BY <1>1, <1>3, <1>5 DEF PassSound, Reconciled, Configured, Enabled
<1> QED BY <1>3, <1>4, <1>6

(* The end of the process.                                                 *)
LEMMA DownStep ==
  ASSUME LoopInv, Down, Event \/ UNCHANGED bounds, quarantined' \subseteq Rising
  PROVE  LoopInv'
<1>1. capacity' = capacity /\ capacity' \in Capacities /\ events' \in 0 .. MaxEvents
  BY BoundsFacts DEF LoopInv, Types
<1>2. /\ pc' = "down" /\ reloading' = FALSE /\ pass' = NoPass /\ drained' = FALSE
      /\ config' = wanted /\ candidate' = wanted /\ wanted' = wanted /\ work' = work
      /\ schedule' = EmptySchedule /\ launching' = <<>> /\ tasks' = NoTasks /\ cancelled' = FALSE
  BY DEF Down, Goto, durable
<1>3. Active' = {} /\ Range(launching') = {} /\ IsInjective(launching')
  BY <1>2 DEF Active, NoTasks, Range, IsInjective
<1>4. schedule'.running = {} /\ Cardinality({}) = 0 /\ Cardinality({}) <= capacity'
  BY <1>1, <1>2, FS_EmptySet, RuntimeAssumption DEF EmptySchedule
<1>5. pass' \in Pass /\ Range(pass'.left) = {}
  BY <1>2 DEF NoPass, Pass, Range
<1>6. Types'
  <2>1. IsSchedule(schedule')
    BY <1>2, EmptyIsSchedule
  <2>2. launching' \in Seq(Input) /\ tasks' \in [Input -> {"none", "running", "sealed", "empty", "failed"}]
    BY <1>2 DEF NoTasks
  <2>3. pass'.left = <<>> /\ pass'.needs = {} /\ pass'.committed = {}
    BY <1>2 DEF NoPass
  <2> QED BY <1>1, <1>2, <1>5, <2>1, <2>2, <2>3 DEF LoopInv, Types, TypeOK
<1>7. RunningMatch' /\ LaunchingSound' /\ BacklogIsQuiet'
  BY <1>2, <1>3, <1>4 DEF RunningMatch, LaunchingSound, BacklogIsQuiet
<1>8. OnlyEnabled'
  BY <1>2, <1>4, EmptyIsSchedule DEF OnlyEnabled
<1>9. RisingTasks' /\ PassSound' /\ WaveSound' /\ DownSound'
  BY <1>2 DEF RisingTasks, PassSound, WaveSound, DownSound, NoTasks
<1>10. ScansEnabled'
  <2>1. ASSUME NEW i \in Rising, ScanOpen(i)
        PROVE  work[i].revision.settings \in {"a", "b"}
    <3>1. CASE pc # "down"
      <4>1. i \in Enabled(config) /\ work[i].revision = Revision(config, i)
        BY <2>1, <3>1 DEF LoopInv, ScansEnabled
      <4> QED BY <4>1 DEF Enabled, Revision
    <3> QED BY <2>1, <3>1 DEF LoopInv, ScansEnabled
  <2> QED BY <1>2, <2>1 DEF ScansEnabled, ScanOpen
<1> QED BY <1>6, <1>7, <1>8, <1>9, <1>10 DEF LoopInv

LEMMA EndStep ==
  ASSUME LoopInv, Crash \/ QuitStopped
  PROVE  LoopInv'
<1>1. quarantined \subseteq Rising
  BY DEF LoopInv, Types, TypeOK
<1>2. CASE Crash
  BY <1>1, <1>2, DownStep DEF Crash
<1>3. CASE QuitStopped
  BY <1>1, <1>3, DownStep DEF QuitStopped
<1> QED BY <1>2, <1>3

LEMMA EditStep ==
  ASSUME LoopInv, EditConfiguration
  PROVE  LoopInv'
<1>b. capacity' = capacity /\ capacity' \in Capacities /\ events' \in 0 .. MaxEvents
  BY BoundsFacts DEF LoopInv, Types, EditConfiguration
<1>w. wanted' \in Config
  <2>1. wanted.hec \in BOOLEAN /\ wanted.inputs \in [Input -> Setting \cup {None}] /\ wanted \in Config
    BY DEF LoopInv, Types, TypeOK, Config
  <2>2. CASE wanted' = [wanted EXCEPT !.hec = ~@]
    BY <2>1, <2>2 DEF Config
  <2>3. CASE \E i \in Input, s \in Setting \cup {None} : wanted' = [wanted EXCEPT !.inputs[i] = s]
    BY <2>1, <2>3 DEF Config
  <2> QED BY <2>2, <2>3 DEF EditConfiguration
<1>1. Types'
  BY <1>b, <1>w DEF LoopInv, Types, TypeOK, EditConfiguration, At, Goto, durable, stage
<1>2. RunningMatch'
  BY DEF LoopInv, RunningMatch, Active, EditConfiguration, At, Goto, durable, stage
<1>3. LaunchingSound'
  BY <1>b DEF LoopInv, LaunchingSound, Active, EditConfiguration, At, Goto, durable, stage
<1>4. OnlyEnabled'
  BY DEF LoopInv, OnlyEnabled, EditConfiguration, At, Goto, durable, stage
<1>5. BacklogIsQuiet'
  BY DEF LoopInv, BacklogIsQuiet, Active, EditConfiguration, At, Goto, durable, stage
<1>6. RisingTasks'
  BY DEF LoopInv, RisingTasks, EditConfiguration, At, Goto, durable, stage
<1>7. ScansEnabled'
  BY DEF LoopInv, ScansEnabled, ScanOpen, EditConfiguration, At, Goto, durable, stage
<1>8. PassSound'
  BY DEF LoopInv, PassSound, Reconciled, EditConfiguration, At, Goto, durable, stage
<1>9. WaveSound'
  BY DEF LoopInv, WaveSound, Undelivered, Active, EditConfiguration, At, Goto, durable, stage
<1>10. DownSound'
  BY DEF LoopInv, DownSound, EditConfiguration, At, Goto, durable, stage
<1> QED BY <1>1, <1>2, <1>3, <1>4, <1>5, <1>6, <1>7, <1>8, <1>9, <1>10 DEF LoopInv

LEMMA EnterStep ==
  ASSUME LoopInv, EnterBacklog
  PROVE  LoopInv'
<1>b. capacity' = capacity /\ capacity' \in Capacities /\ events' \in 0 .. MaxEvents
  BY BoundsFacts DEF LoopInv, Types, EnterBacklog
<1>e. /\ UNCHANGED <<wanted, quarantined, work, config, candidate, schedule, launching, tasks, cancelled>>
      /\ pc = "backlog"
  BY DEF EnterBacklog, durable, At
<1>p. /\ pass' \in Pass /\ PassSound' /\ reloading' \in BOOLEAN /\ drained' \in BOOLEAN
      /\ \/ pc' = "pass" /\ Active = {}
         \/ pc' = "launch" /\ ~drained'
  <2>1. CASE Active = {} /\ BeginPass(FALSE) /\ UNCHANGED drained
    BY <1>e, <2>1, BeginPassFacts DEF LoopInv, Types, TypeOK
  <2>2. CASE Active # {} /\ Goto("launch") /\ drained' = FALSE /\ UNCHANGED <<reloading, pass>>
    BY <2>2 DEF LoopInv, Types, TypeOK, Goto, PassSound
  <2> QED BY <2>1, <2>2 DEF EnterBacklog
<1>1. Types'
  BY <1>e, <1>p, <1>b, PassTyped DEF LoopInv, Types, TypeOK
<1>2. RunningMatch'
  BY <1>e, <1>p DEF LoopInv, RunningMatch, Active
<1>3. LaunchingSound'
  BY <1>e, <1>p, <1>b, PassTyped DEF LoopInv, LaunchingSound, Active
<1>4. OnlyEnabled'
  BY <1>e, <1>p DEF LoopInv, OnlyEnabled
<1>5. BacklogIsQuiet'
  BY <1>e, <1>p DEF LoopInv, BacklogIsQuiet, Active
<1>6. RisingTasks'
  BY <1>e, <1>p DEF LoopInv, RisingTasks
<1>7. ScansEnabled'
  BY <1>e, <1>p DEF LoopInv, ScansEnabled, ScanOpen
<1>8. PassSound'
  BY <1>p
<1>9. WaveSound'
  BY <1>e, <1>p DEF LoopInv, WaveSound, Undelivered, Active
<1>10. DownSound'
  BY <1>e, <1>p DEF LoopInv, DownSound
<1> QED BY <1>1, <1>2, <1>3, <1>4, <1>5, <1>6, <1>7, <1>8, <1>9, <1>10 DEF LoopInv

LEMMA DrainDoneStep ==
  ASSUME LoopInv, DrainDone
  PROVE  LoopInv'
<1>b. capacity' = capacity /\ capacity' \in Capacities /\ events' \in 0 .. MaxEvents
  BY BoundsFacts DEF LoopInv, Types, DrainDone
<1>n. NoPass \in Pass /\ NoPass.left = <<>>
  BY DEF NoPass, Pass
<1>u. Undelivered = {}
  <2>1. ASSUME NEW i \in Rising PROVE i \notin Undelivered
    <3>1. pass.left = <<>> /\ Range(pass.left) = {}
      BY DEF LoopInv, PassSound, DrainDone, At, Range
    <3> QED BY <3>1 DEF LoopInv, PassSound, DrainDone, At, Undelivered, Reconciled
  <2>2. ASSUME NEW i \in Input \ Rising PROVE i \notin Undelivered
    <3>1. work[i].phase \in BatchPhase /\ work[i].phase \notin {"ready", "delivered"}
      BY DEF LoopInv, Types, TypeOK, DrainDone, Batch
    <3> QED BY <3>1 DEF BatchPhase, Undelivered
  <2> QED BY <2>1, <2>2 DEF Undelivered
<1>1. Types'
  BY <1>b, <1>n, PassTyped DEF LoopInv, Types, TypeOK, DrainDone, At, Goto, durable, stage
<1>2. RunningMatch'
  BY DEF LoopInv, RunningMatch, Active, DrainDone, At, Goto, durable, stage
<1>3. LaunchingSound'
  BY <1>b DEF LoopInv, LaunchingSound, Active, DrainDone, At, Goto, durable, stage
<1>4. OnlyEnabled'
  BY DEF LoopInv, OnlyEnabled, DrainDone, At, Goto, durable, stage
<1>5. BacklogIsQuiet'
  BY DEF LoopInv, BacklogIsQuiet, Active, DrainDone, At, Goto, durable, stage
<1>6. RisingTasks'
  BY DEF LoopInv, RisingTasks, DrainDone, At, Goto, durable, stage
<1>7. ScansEnabled'
  BY DEF LoopInv, ScansEnabled, ScanOpen, DrainDone, At, Goto, durable, stage
<1>8. PassSound'
  BY DEF LoopInv, PassSound, Reconciled, DrainDone, At, Goto, durable, stage
<1>9. WaveSound'
  BY <1>u DEF LoopInv, BacklogIsQuiet, WaveSound, Undelivered, Active, DrainDone, At, Goto, durable, stage
<1>10. DownSound'
  BY DEF LoopInv, DownSound, DrainDone, At, Goto, durable, stage
<1> QED BY <1>1, <1>2, <1>3, <1>4, <1>5, <1>6, <1>7, <1>8, <1>9, <1>10 DEF LoopInv

LEMMA DrainFailsStep ==
  ASSUME LoopInv, DrainFails
  PROVE  LoopInv'
<1>b. capacity' = capacity /\ capacity' \in Capacities /\ events' \in 0 .. MaxEvents
  BY BoundsFacts DEF LoopInv, Types, DrainFails
<1>n. NoPass \in Pass
  BY DEF NoPass, Pass
<1>g. /\ pc' = "backlog" \/ (pc' = "launch" /\ ~drained')
      /\ reloading' \in BOOLEAN /\ drained' \in BOOLEAN
  BY DEF DrainFails, GiveUp, Goto, LoopInv, Types, TypeOK
<1>1. Types'
  BY <1>b, <1>g, <1>n, PassTyped DEF LoopInv, Types, TypeOK, DrainFails, At, Goto, durable, stage
<1>2. RunningMatch'
  BY <1>g DEF LoopInv, RunningMatch, Active, DrainFails, At, Goto, durable, stage
<1>3. LaunchingSound'
  BY <1>b, <1>g DEF LoopInv, LaunchingSound, Active, DrainFails, At, Goto, durable, stage
<1>4. OnlyEnabled'
  BY <1>g DEF LoopInv, OnlyEnabled, DrainFails, At, Goto, durable, stage
<1>5. BacklogIsQuiet'
  BY <1>g DEF LoopInv, BacklogIsQuiet, Active, DrainFails, At, Goto, durable, stage
<1>6. RisingTasks'
  BY <1>g DEF LoopInv, RisingTasks, DrainFails, At, Goto, durable, stage
<1>7. ScansEnabled'
  BY <1>g DEF LoopInv, ScansEnabled, ScanOpen, DrainFails, At, Goto, durable, stage
<1>8. PassSound'
  BY <1>g DEF LoopInv, PassSound, Reconciled, DrainFails, At, Goto, durable, stage
<1>9. WaveSound'
  BY <1>g DEF LoopInv, WaveSound, Undelivered, Active, DrainFails, At, Goto, durable, stage
<1>10. DownSound'
  BY <1>g DEF LoopInv, DownSound, DrainFails, At, Goto, durable, stage
<1> QED BY <1>1, <1>2, <1>3, <1>4, <1>5, <1>6, <1>7, <1>8, <1>9, <1>10 DEF LoopInv

LEMMA ReconcileFailsStep ==
  ASSUME LoopInv, ReconcileFails
  PROVE  LoopInv'
<1>b. capacity' = capacity /\ capacity' \in Capacities /\ events' \in 0 .. MaxEvents
  BY BoundsFacts DEF LoopInv, Types, ReconcileFails
<1>n. NoPass \in Pass
  BY DEF NoPass, Pass
<1>g. /\ pc' = "backlog" \/ (pc' = "launch" /\ ~drained')
      /\ reloading' \in BOOLEAN /\ drained' \in BOOLEAN
  BY DEF ReconcileFails, GiveUp, Goto, LoopInv, Types, TypeOK
<1>1. Types'
  BY <1>b, <1>g, <1>n, PassTyped DEF LoopInv, Types, TypeOK, ReconcileFails, At, Goto, durable, stage
<1>2. RunningMatch'
  BY <1>g DEF LoopInv, RunningMatch, Active, ReconcileFails, At, Goto, durable, stage
<1>3. LaunchingSound'
  BY <1>b, <1>g DEF LoopInv, LaunchingSound, Active, ReconcileFails, At, Goto, durable, stage
<1>4. OnlyEnabled'
  BY <1>g DEF LoopInv, OnlyEnabled, ReconcileFails, At, Goto, durable, stage
<1>5. BacklogIsQuiet'
  BY <1>g DEF LoopInv, BacklogIsQuiet, Active, ReconcileFails, At, Goto, durable, stage
<1>6. RisingTasks'
  BY <1>g DEF LoopInv, RisingTasks, ReconcileFails, At, Goto, durable, stage
<1>7. ScansEnabled'
  BY <1>g DEF LoopInv, ScansEnabled, ScanOpen, ReconcileFails, At, Goto, durable, stage
<1>8. PassSound'
  BY <1>g DEF LoopInv, PassSound, Reconciled, ReconcileFails, At, Goto, durable, stage
<1>9. WaveSound'
  BY <1>g DEF LoopInv, WaveSound, Undelivered, Active, ReconcileFails, At, Goto, durable, stage
<1>10. DownSound'
  BY <1>g DEF LoopInv, DownSound, ReconcileFails, At, Goto, durable, stage
<1> QED BY <1>1, <1>2, <1>3, <1>4, <1>5, <1>6, <1>7, <1>8, <1>9, <1>10 DEF LoopInv

LEMMA ReloadPassStep ==
  ASSUME LoopInv, ReloadPassDone
  PROVE  LoopInv'
<1>b. capacity' = capacity /\ capacity' \in Capacities /\ events' \in 0 .. MaxEvents
  BY BoundsFacts DEF LoopInv, Types, ReloadPassDone
<1>n. NoPass \in Pass
  BY DEF NoPass, Pass
<1>g. /\ \/ (pc' = "backlog" \/ (pc' = "launch" /\ ~drained')) /\ pass' = NoPass
         \/ pc' = "drain" /\ pass' = pass /\ pass.needs = {}
      /\ reloading' \in BOOLEAN /\ drained' \in BOOLEAN
  BY DEF ReloadPassDone, GiveUp, Goto, LoopInv, Types, TypeOK
<1>1. Types'
  BY <1>b, <1>g, <1>n, PassTyped DEF LoopInv, Types, TypeOK, ReloadPassDone, At, Goto, durable, stage
<1>2. RunningMatch'
  BY <1>g DEF LoopInv, RunningMatch, Active, ReloadPassDone, At, Goto, durable, stage
<1>3. LaunchingSound'
  BY <1>b, <1>g DEF LoopInv, LaunchingSound, Active, ReloadPassDone, At, Goto, durable, stage
<1>4. OnlyEnabled'
  BY <1>g DEF LoopInv, OnlyEnabled, ReloadPassDone, At, Goto, durable, stage
<1>5. BacklogIsQuiet'
  BY <1>g DEF LoopInv, BacklogIsQuiet, Active, ReloadPassDone, At, Goto, durable, stage
<1>6. RisingTasks'
  BY <1>g DEF LoopInv, RisingTasks, ReloadPassDone, At, Goto, durable, stage
<1>7. ScansEnabled'
  BY <1>g DEF LoopInv, ScansEnabled, ScanOpen, ReloadPassDone, At, Goto, durable, stage
<1>8. PassSound'
  BY <1>g DEF LoopInv, PassSound, Reconciled, ReloadPassDone, At, Goto, durable, stage
<1>9. WaveSound'
  BY <1>g DEF LoopInv, WaveSound, Undelivered, Active, ReloadPassDone, At, Goto, durable, stage
<1>10. DownSound'
  BY <1>g DEF LoopInv, DownSound, ReloadPassDone, At, Goto, durable, stage
<1> QED BY <1>1, <1>2, <1>3, <1>4, <1>5, <1>6, <1>7, <1>8, <1>9, <1>10 DEF LoopInv

(* Work of one batch input changes.                                        *)
LEMMA BatchWorkFacts ==
  ASSUME LoopInv, NEW i \in Input \ Rising, NEW v \in [phase: BatchPhase, revision: Revisions \cup {None}],
         work' = [work EXCEPT ![i] = v]
  PROVE  /\ work' \in [Input -> Work] /\ \A j \in Input \ {i} : work'[j] = work[j]
         /\ work'[i] = v /\ \A j \in Rising : work'[j] = work[j]
         /\ \A j \in Input : /\ work'[j].phase \in IF j \in Rising THEN RisingPhase ELSE BatchPhase
                             /\ work'[j].revision \in Revisions \cup {None}
<1>1. work \in [Input -> Work] /\ v \in Work /\ v.phase \in BatchPhase /\ v.revision \in Revisions \cup {None}
  BY DEF LoopInv, Types, Work
<1>2. /\ work' \in [Input -> Work] /\ \A j \in Input \ {i} : work'[j] = work[j]
      /\ work'[i] = v
  BY <1>1
<1>3. \A j \in Rising : work'[j] = work[j]
  BY <1>2, RuntimeAssumption
<1> QED BY <1>1, <1>2, <1>3 DEF LoopInv, Types, TypeOK


LEMMA CompactStep ==
  ASSUME LoopInv, NEW i \in Input, DrainCompact(i)
  PROVE  LoopInv'
<1>b. capacity' = capacity /\ capacity' \in Capacities /\ events' \in 0 .. MaxEvents
  BY BoundsFacts DEF LoopInv, Types, DrainCompact
<1>i. i \in Input \ Rising
  BY DEF DrainCompact, Batch
<1>p. /\ work' \in [Input -> Work] /\ \A j \in Rising : work'[j] = work[j]
      /\ \A j \in Input : /\ work'[j].phase \in IF j \in Rising THEN RisingPhase ELSE BatchPhase
                          /\ work'[j].revision \in Revisions \cup {None}
  <2>1. [phase |-> "idle", revision |-> None] \in [phase: BatchPhase, revision: Revisions \cup {None}]
    BY DEF BatchPhase
  <2> QED BY <1>i, <2>1, BatchWorkFacts DEF DrainCompact
<1>1. Types'
  BY <1>b, <1>p DEF LoopInv, Types, TypeOK, DrainCompact, At, Goto, durable, stage
<1>2. RunningMatch'
  BY <1>p DEF LoopInv, RunningMatch, Active, DrainCompact, At, Goto, durable, stage
<1>3. LaunchingSound'
  BY <1>b, <1>p DEF LoopInv, LaunchingSound, Active, DrainCompact, At, Goto, durable, stage
<1>4. OnlyEnabled'
  BY <1>p DEF LoopInv, OnlyEnabled, DrainCompact, At, Goto, durable, stage
<1>5. BacklogIsQuiet'
  BY <1>p DEF LoopInv, BacklogIsQuiet, Active, DrainCompact, At, Goto, durable, stage
<1>6. RisingTasks'
  BY <1>p, RuntimeAssumption DEF LoopInv, RisingTasks, DrainCompact, At, Goto, durable, stage
<1>7. ScansEnabled'
  BY <1>p DEF LoopInv, ScansEnabled, ScanOpen, DrainCompact, At, Goto, durable, stage
<1>8. PassSound'
  BY <1>p DEF LoopInv, PassSound, Reconciled, DrainCompact, At, Goto, durable, stage
<1>9. WaveSound'
  BY <1>p DEF LoopInv, WaveSound, Undelivered, Active, DrainCompact, At, Goto, durable, stage
<1>10. DownSound'
  BY <1>p DEF LoopInv, DownSound, DrainCompact, At, Goto, durable, stage
<1> QED BY <1>1, <1>2, <1>3, <1>4, <1>5, <1>6, <1>7, <1>8, <1>9, <1>10 DEF LoopInv

LEMMA DeliverStep ==
  ASSUME LoopInv, NEW i \in Input, DrainDeliver(i)
  PROVE  LoopInv'
<1>b. capacity' = capacity /\ capacity' \in Capacities /\ events' \in 0 .. MaxEvents
  BY BoundsFacts DEF LoopInv, Types, DrainDeliver
<1>i. i \in Input \ Rising
  BY DEF DrainDeliver, Batch
<1>p. /\ work' \in [Input -> Work] /\ \A j \in Rising : work'[j] = work[j]
      /\ \A j \in Input : /\ work'[j].phase \in IF j \in Rising THEN RisingPhase ELSE BatchPhase
                          /\ work'[j].revision \in Revisions \cup {None}
  <2> DEFINE v == [work[i] EXCEPT !.phase = "delivered"]
  <2>1. work \in [Input -> Work] /\ work[i].revision \in Revisions \cup {None}
    BY DEF LoopInv, Types, Work
  <2>2. v = [phase |-> "delivered", revision |-> work[i].revision]
    BY <2>1 DEF Work
  <2>3. v \in [phase: BatchPhase, revision: Revisions \cup {None}]
    BY <2>1, <2>2 DEF BatchPhase
  <2>4. work' = [work EXCEPT ![i] = v]
    BY DEF DrainDeliver, SetPhase
  <2> HIDE DEF v
  <2> QED BY <1>i, <2>3, <2>4, BatchWorkFacts
<1>1. Types'
  BY <1>b, <1>p DEF LoopInv, Types, TypeOK, DrainDeliver, At, Goto, durable, stage
<1>2. RunningMatch'
  BY <1>p DEF LoopInv, RunningMatch, Active, DrainDeliver, At, Goto, durable, stage
<1>3. LaunchingSound'
  BY <1>b, <1>p DEF LoopInv, LaunchingSound, Active, DrainDeliver, At, Goto, durable, stage
<1>4. OnlyEnabled'
  BY <1>p DEF LoopInv, OnlyEnabled, DrainDeliver, At, Goto, durable, stage
<1>5. BacklogIsQuiet'
  BY <1>p DEF LoopInv, BacklogIsQuiet, Active, DrainDeliver, At, Goto, durable, stage
<1>6. RisingTasks'
  BY <1>p, RuntimeAssumption DEF LoopInv, RisingTasks, DrainDeliver, At, Goto, durable, stage
<1>7. ScansEnabled'
  BY <1>p DEF LoopInv, ScansEnabled, ScanOpen, DrainDeliver, At, Goto, durable, stage
<1>8. PassSound'
  BY <1>p DEF LoopInv, PassSound, Reconciled, DrainDeliver, At, Goto, durable, stage
<1>9. WaveSound'
  BY <1>p DEF LoopInv, WaveSound, Undelivered, Active, DrainDeliver, At, Goto, durable, stage
<1>10. DownSound'
  BY <1>p DEF LoopInv, DownSound, DrainDeliver, At, Goto, durable, stage
<1> QED BY <1>1, <1>2, <1>3, <1>4, <1>5, <1>6, <1>7, <1>8, <1>9, <1>10 DEF LoopInv

LEMMA WorkerEmptyStep ==
  ASSUME LoopInv, NEW i \in Input, WorkerEmpty(i)
  PROVE  LoopInv'
<1>b. capacity' = capacity /\ capacity' \in Capacities /\ events' \in 0 .. MaxEvents
  BY BoundsFacts DEF LoopInv, Types, WorkerEmpty
<1>t. /\ tasks' \in [Input -> {"none", "running", "sealed", "empty", "failed"}] /\ Active' = Active
      /\ \A j \in Input \ {i} : tasks'[j] = tasks[j]
      /\ tasks[i] = "running" /\ tasks'[i] = "empty" /\ tasks # NoTasks
  BY DEF WorkerEmpty, LoopInv, Types, TypeOK, Active, NoTasks
<1>1. Types'
  BY <1>b, <1>t DEF LoopInv, Types, TypeOK, WorkerEmpty, At, Goto, durable, stage
<1>2. RunningMatch'
  BY <1>t DEF LoopInv, RunningMatch, Active, WorkerEmpty, At, Goto, durable, stage
<1>3. LaunchingSound'
  BY <1>b, <1>t DEF LoopInv, LaunchingSound, Active, WorkerEmpty, At, Goto, durable, stage
<1>4. OnlyEnabled'
  BY <1>t DEF LoopInv, OnlyEnabled, WorkerEmpty, At, Goto, durable, stage
<1>5. BacklogIsQuiet'
  BY <1>t DEF LoopInv, BacklogIsQuiet, Active, WorkerEmpty, At, Goto, durable, stage
<1>6. RisingTasks'
  BY <1>t DEF LoopInv, RisingTasks, WorkerEmpty, At, Goto, durable, stage
<1>7. ScansEnabled'
  BY <1>t DEF LoopInv, ScansEnabled, ScanOpen, WorkerEmpty, At, Goto, durable, stage
<1>8. PassSound'
  BY <1>t DEF LoopInv, PassSound, Reconciled, WorkerEmpty, At, Goto, durable, stage
<1>9. WaveSound'
  BY <1>t DEF LoopInv, WaveSound, Undelivered, Active, WorkerEmpty, At, Goto, durable, stage
<1>10. DownSound'
  BY <1>t DEF LoopInv, DownSound, WorkerEmpty, At, Goto, durable, stage
<1> QED BY <1>1, <1>2, <1>3, <1>4, <1>5, <1>6, <1>7, <1>8, <1>9, <1>10 DEF LoopInv

LEMMA WorkerFailsStep ==
  ASSUME LoopInv, NEW i \in Input, WorkerFails(i)
  PROVE  LoopInv'
<1>b. capacity' = capacity /\ capacity' \in Capacities /\ events' \in 0 .. MaxEvents
  BY BoundsFacts DEF LoopInv, Types, WorkerFails
<1>t. /\ tasks' \in [Input -> {"none", "running", "sealed", "empty", "failed"}] /\ Active' = Active
      /\ \A j \in Input \ {i} : tasks'[j] = tasks[j]
      /\ tasks[i] = "running" /\ tasks'[i] = "failed" /\ tasks # NoTasks
  BY DEF WorkerFails, LoopInv, Types, TypeOK, Active, NoTasks
<1>1. Types'
  BY <1>b, <1>t DEF LoopInv, Types, TypeOK, WorkerFails, At, Goto, durable, stage
<1>2. RunningMatch'
  BY <1>t DEF LoopInv, RunningMatch, Active, WorkerFails, At, Goto, durable, stage
<1>3. LaunchingSound'
  BY <1>b, <1>t DEF LoopInv, LaunchingSound, Active, WorkerFails, At, Goto, durable, stage
<1>4. OnlyEnabled'
  BY <1>t DEF LoopInv, OnlyEnabled, WorkerFails, At, Goto, durable, stage
<1>5. BacklogIsQuiet'
  BY <1>t DEF LoopInv, BacklogIsQuiet, Active, WorkerFails, At, Goto, durable, stage
<1>6. RisingTasks'
  BY <1>t DEF LoopInv, RisingTasks, WorkerFails, At, Goto, durable, stage
<1>7. ScansEnabled'
  BY <1>t DEF LoopInv, ScansEnabled, ScanOpen, WorkerFails, At, Goto, durable, stage
<1>8. PassSound'
  BY <1>t DEF LoopInv, PassSound, Reconciled, WorkerFails, At, Goto, durable, stage
<1>9. WaveSound'
  BY <1>t DEF LoopInv, WaveSound, Undelivered, Active, WorkerFails, At, Goto, durable, stage
<1>10. DownSound'
  BY <1>t DEF LoopInv, DownSound, WorkerFails, At, Goto, durable, stage
<1> QED BY <1>1, <1>2, <1>3, <1>4, <1>5, <1>6, <1>7, <1>8, <1>9, <1>10 DEF LoopInv

LEMMA ElapseStep ==
  ASSUME LoopInv, NEW i \in Input, Elapse(i)
  PROVE  LoopInv'
<1>b. capacity' = capacity /\ capacity' \in Capacities /\ events' \in 0 .. MaxEvents
  BY BoundsFacts DEF LoopInv, Types, Elapse
<1>s. /\ IsSchedule(schedule') /\ schedule'.running = schedule.running
      /\ Entered(schedule') = Entered(schedule) /\ schedule # EmptySchedule
  BY ComeDueFacts DEF Elapse, LoopInv, Types, TypeOK, EmptySchedule
<1>1. Types'
  BY <1>b, <1>s DEF LoopInv, Types, TypeOK, Elapse, At, Goto, durable, stage
<1>2. RunningMatch'
  BY <1>s DEF LoopInv, RunningMatch, Active, Elapse, At, Goto, durable, stage
<1>3. LaunchingSound'
  BY <1>b, <1>s DEF LoopInv, LaunchingSound, Active, Elapse, At, Goto, durable, stage
<1>4. OnlyEnabled'
  BY <1>s DEF LoopInv, OnlyEnabled, Elapse, At, Goto, durable, stage
<1>5. BacklogIsQuiet'
  BY <1>s DEF LoopInv, BacklogIsQuiet, Active, Elapse, At, Goto, durable, stage
<1>6. RisingTasks'
  BY <1>s DEF LoopInv, RisingTasks, Elapse, At, Goto, durable, stage
<1>7. ScansEnabled'
  BY <1>s DEF LoopInv, ScansEnabled, ScanOpen, Elapse, At, Goto, durable, stage
<1>8. PassSound'
  BY <1>s DEF LoopInv, PassSound, Reconciled, Elapse, At, Goto, durable, stage
<1>9. WaveSound'
  BY <1>s DEF LoopInv, WaveSound, Undelivered, Active, Elapse, At, Goto, durable, stage
<1>10. DownSound'
  BY <1>s DEF LoopInv, DownSound, Elapse, At, Goto, durable, stage
<1> QED BY <1>1, <1>2, <1>3, <1>4, <1>5, <1>6, <1>7, <1>8, <1>9, <1>10 DEF LoopInv

(* Work of one input changes.                                              *)
LEMMA OneWorkFacts ==
  ASSUME LoopInv, NEW i \in Input,
         NEW v \in [phase: IF i \in Rising THEN RisingPhase ELSE BatchPhase, revision: Revisions \cup {None}],
         work' = [work EXCEPT ![i] = v]
  PROVE  /\ work' \in [Input -> Work] /\ work'[i] = v
         /\ \A j \in Input \ {i} : work'[j] = work[j]
         /\ \A j \in Input : /\ work'[j].phase \in IF j \in Rising THEN RisingPhase ELSE BatchPhase
                             /\ work'[j].revision \in Revisions \cup {None}
<1>1. /\ work \in [Input -> Work] /\ v \in Work
      /\ v.phase \in IF i \in Rising THEN RisingPhase ELSE BatchPhase
      /\ v.revision \in Revisions \cup {None}
  BY DEF LoopInv, Types, Work
<1>2. /\ work' \in [Input -> Work] /\ \A j \in Input \ {i} : work'[j] = work[j]
      /\ work'[i] = v
  BY <1>1
<1> QED BY <1>1, <1>2 DEF LoopInv, Types, TypeOK

(* The revision of a configured input.                                     *)
LEMMA RevisionTyped ==
  ASSUME NEW c \in Config, NEW i \in Configured(c)
  PROVE  Revision(c, i) \in Revisions
BY DEF Config, Configured, Revision, Revisions

(* An enabled input is configured.                                         *)
LEMMA EnabledConfigured ==
  ASSUME NEW c
  PROVE  Enabled(c) \subseteq Configured(c) /\ Configured(c) \subseteq Input
BY RuntimeAssumption DEF Enabled, Configured, Setting

LEMMA WorkerSealsStep ==
  ASSUME LoopInv, NEW i \in Input, WorkerSeals(i)
  PROVE  LoopInv'
<1>b. capacity' = capacity /\ capacity' \in Capacities /\ events' \in 0 .. MaxEvents
  BY BoundsFacts DEF LoopInv, Types, WorkerSeals
<1>t. /\ tasks' \in [Input -> {"none", "running", "sealed", "empty", "failed"}] /\ Active' = Active
      /\ \A j \in Input \ {i} : tasks'[j] = tasks[j]
      /\ tasks[i] = "running" /\ tasks'[i] \in {"sealed", "failed"} /\ tasks # NoTasks
      /\ i \in Active
  BY DEF WorkerSeals, LoopInv, Types, TypeOK, Active, NoTasks
<1>e. i \in Enabled(config) /\ i \in Configured(config)
  BY <1>t, EnabledConfigured DEF LoopInv, RunningMatch, OnlyEnabled
<1>p. PICK v \in [phase: IF i \in Rising THEN RisingPhase ELSE BatchPhase, revision: Revisions \cup {None}] :
        /\ work' = [work EXCEPT ![i] = v]
        /\ i \in Rising => v.revision = work[i].revision
  <2>1. CASE i \in Rising
    <3>1. PICK f \in {"page", "last"} : work' = [work EXCEPT ![i].phase = f]
      BY <2>1 DEF WorkerSeals, SetPhase
    <3> DEFINE v == [work[i] EXCEPT !.phase = f]
    <3>2. work[i] \in Work
      BY DEF LoopInv, Types
    <3>3. v = [phase |-> f, revision |-> work[i].revision] /\ work[i].revision \in Revisions \cup {None}
      BY <3>2 DEF Work
    <3>4. work' = [work EXCEPT ![i] = v]
      BY <3>1
    <3>5. v \in [phase: IF i \in Rising THEN RisingPhase ELSE BatchPhase, revision: Revisions \cup {None}]
      BY <2>1, <3>3 DEF RisingPhase
    <3>6. v.revision = work[i].revision
      BY <3>3
    <3> HIDE DEF v
    <3> QED BY <3>4, <3>5, <3>6
  <2>2. CASE i \notin Rising
    <3>1. Revision(config, i) \in Revisions
      BY <1>e, RevisionTyped DEF LoopInv, Types, TypeOK
    <3>2. [phase |-> "ready", revision |-> Revision(config, i)]
            \in [phase: IF i \in Rising THEN RisingPhase ELSE BatchPhase, revision: Revisions \cup {None}]
      BY <2>2, <3>1 DEF BatchPhase
    <3> QED BY <2>2, <3>2 DEF WorkerSeals
  <2> QED BY <2>1, <2>2
<1>w. /\ work' \in [Input -> Work] /\ work'[i] = v
      /\ \A j \in Input \ {i} : work'[j] = work[j]
      /\ \A j \in Input : /\ work'[j].phase \in IF j \in Rising THEN RisingPhase ELSE BatchPhase
                          /\ work'[j].revision \in Revisions \cup {None}
  BY <1>p, OneWorkFacts
<1>u. Undelivered' \subseteq Undelivered \cup {i}
  BY <1>w DEF Undelivered
<1>1. Types'
  BY <1>b, <1>t, <1>w DEF LoopInv, Types, TypeOK, WorkerSeals, At, Goto, durable, stage
<1>2. RunningMatch'
  BY <1>t, <1>w DEF LoopInv, RunningMatch, Active, WorkerSeals, At, Goto, durable, stage
<1>3. LaunchingSound'
  BY <1>b, <1>t, <1>w DEF LoopInv, LaunchingSound, Active, WorkerSeals, At, Goto, durable, stage
<1>4. OnlyEnabled'
  BY <1>t, <1>w DEF LoopInv, OnlyEnabled, WorkerSeals, At, Goto, durable, stage
<1>5. BacklogIsQuiet'
  BY <1>t, <1>w DEF LoopInv, BacklogIsQuiet, Active, WorkerSeals, At, Goto, durable, stage
<1>6. RisingTasks'
  BY <1>t, <1>w, RuntimeAssumption DEF LoopInv, RisingTasks
<1>7. ScansEnabled'
  <2>1. ASSUME NEW j \in Rising, pc # "down", work'[j].phase \in {"started", "page", "last", "done"}
        PROVE  j \in Enabled(config) /\ work'[j].revision = Revision(config, j)
    <3>1. CASE j = i
      <4>1. work[i].phase = "started"
        BY <1>t, <2>1, <3>1 DEF LoopInv, RisingTasks
      <4> QED BY <1>p, <1>w, <2>1, <3>1, <4>1 DEF LoopInv, ScansEnabled, ScanOpen
    <3>2. CASE j # i
      BY <1>w, <2>1, <3>2, RuntimeAssumption DEF LoopInv, ScansEnabled, ScanOpen
    <3> QED BY <3>1, <3>2
  <2>2. pc # "down" /\ pc' = pc /\ config' = config
    BY <1>t DEF WorkerSeals, stage, LoopInv, DownSound
  <2> QED BY <2>1, <2>2 DEF ScansEnabled, ScanOpen, Enabled, Revision
<1>8. PassSound'
  BY <1>t DEF LoopInv, BacklogIsQuiet, PassSound, WorkerSeals, stage
<1>9. WaveSound'
  BY <1>t, <1>u DEF LoopInv, WaveSound, WorkerSeals, stage
<1>10. DownSound'
  BY <1>t, <1>w DEF LoopInv, DownSound, WorkerSeals, At, Goto, durable, stage
<1> QED BY <1>1, <1>2, <1>3, <1>4, <1>5, <1>6, <1>7, <1>8, <1>9, <1>10 DEF LoopInv

(* Marking inputs as running, and none.                                    *)
LEMMA RunFacts ==
  ASSUME NEW s, IsSchedule(s), NEW names, names \subseteq Input
  PROVE  /\ IsSchedule(Run(s, names)) /\ Run(s, names).running = s.running \cup names
         /\ Entered(Run(s, names)) = Entered(s)
         /\ IsSchedule(ReleaseAll(s)) /\ ReleaseAll(s).running = {}
         /\ Entered(ReleaseAll(s)) = Entered(s)
<1>1. s \in [waiting: SUBSET Input, queue: Seq(Input), running: SUBSET Input]
  BY DEF IsSchedule
<1>2. /\ Run(s, names) = [waiting |-> s.waiting, queue |-> s.queue, running |-> s.running \cup names]
      /\ ReleaseAll(s) = [waiting |-> s.waiting, queue |-> s.queue, running |-> {}]
  <2>2. \A r : [s EXCEPT !.running = r] = [waiting |-> s.waiting, queue |-> s.queue, running |-> r]
    BY <1>1
  <2> QED BY <2>2 DEF Run, ReleaseAll
<1>3. s.running \cup names \subseteq Input
  BY ScheduleFacts
<1>4. IsSchedule(Run(s, names)) /\ IsSchedule(ReleaseAll(s))
  <2>1. IsSchedule([waiting |-> s.waiting, queue |-> s.queue, running |-> s.running \cup names])
    BY <1>3, ScheduleFacts, MakeSchedule
  <2>2. IsSchedule([waiting |-> s.waiting, queue |-> s.queue, running |-> {}])
    BY ScheduleFacts, MakeSchedule
  <2> QED BY <1>2, <2>1, <2>2
<1> QED BY <1>2, <1>4 DEF Entered

(* Nothing runs and nothing is to be launched while the backlog is worked off. *)
LEMMA QuietFacts ==
  ASSUME LoopInv, pc # "spawn"
  PROVE  /\ launching = <<>> /\ Range(launching) = {} /\ schedule.running = Active
         /\ Cardinality(schedule.running) <= capacity /\ IsSchedule(schedule)
<1>1. launching = <<>> /\ Range(launching) = {}
  BY DEF LoopInv, LaunchingSound, Range
<1> QED BY <1>1 DEF LoopInv, LaunchingSound, RunningMatch, Types, TypeOK

LEMMA ActivateStep ==
  ASSUME LoopInv, Activate
  PROVE  LoopInv'
<1>b. capacity' = capacity /\ capacity' \in Capacities /\ events' \in 0 .. MaxEvents
  BY BoundsFacts DEF LoopInv, Types, Activate
<1>n. NoPass \in Pass
  BY DEF NoPass, Pass
<1>q. Active = {} /\ launching = <<>> /\ Range(launching) = {} /\ schedule.running = {}
  BY QuietFacts DEF Activate, At, LoopInv, BacklogIsQuiet
<1>s. IsSchedule(schedule') /\ schedule'.running = {} /\ Entered(schedule') = Enabled(candidate)
  <2>1. IsSchedule(schedule) /\ Enabled(candidate) \subseteq Input
    BY EnabledConfigured DEF LoopInv, Types, TypeOK
  <2> QED BY <1>q, <2>1, SyncFacts DEF Activate
<1>r. \A i \in Rising : work[i].phase \in {"missing", "idle"}
  <2>1. pass.left = <<>> /\ Range(pass.left) = {} /\ pass.needs = {}
    BY DEF LoopInv, PassSound, Activate, At, Range
  <2> QED BY <2>1 DEF LoopInv, PassSound, Activate, At, Reconciled
<1>1. Types'
  BY <1>b, <1>s, <1>q, <1>n, PassTyped DEF LoopInv, Types, TypeOK, Activate, At, Goto, durable, stage
<1>2. RunningMatch'
  BY <1>s, <1>q DEF LoopInv, RunningMatch, Active, Activate, At, Goto, durable, stage
<1>3. LaunchingSound'
  BY <1>b, <1>s, <1>q DEF LoopInv, LaunchingSound, Active, Activate, At, Goto, durable, stage
<1>4. OnlyEnabled'
  BY <1>s, <1>q DEF LoopInv, OnlyEnabled, Activate, At, Goto, durable, stage
<1>5. BacklogIsQuiet'
  BY <1>s, <1>q DEF LoopInv, BacklogIsQuiet, Active, Activate, At, Goto, durable, stage
<1>6. RisingTasks'
  BY <1>s, <1>q DEF LoopInv, RisingTasks, Activate, At, Goto, durable, stage
<1>7. ScansEnabled'
  BY <1>r DEF LoopInv, ScansEnabled, ScanOpen, Activate, At, Goto, durable, stage
<1>8. PassSound'
  BY <1>s, <1>q DEF LoopInv, PassSound, Reconciled, Activate, At, Goto, durable, stage
<1>9. WaveSound'
  BY <1>s, <1>q DEF LoopInv, WaveSound, Undelivered, Active, Activate, At, Goto, durable, stage
<1>10. DownSound'
  BY <1>s, <1>q DEF LoopInv, DownSound, Activate, At, Goto, durable, stage
<1> QED BY <1>1, <1>2, <1>3, <1>4, <1>5, <1>6, <1>7, <1>8, <1>9, <1>10 DEF LoopInv

LEMMA WorkersStoppedStep ==
  ASSUME LoopInv, WorkersStopped
  PROVE  LoopInv'
<1>b. capacity' = capacity /\ capacity' \in Capacities /\ events' \in 0 .. MaxEvents
  BY BoundsFacts DEF LoopInv, Types, WorkersStopped
<1>q. launching = <<>> /\ Range(launching) = {} /\ IsSchedule(schedule)
  BY QuietFacts DEF WorkersStopped, At
<1>e. pc = "stopping" /\ UNCHANGED <<wanted, quarantined, work, config, candidate, drained, launching, cancelled>>
  BY DEF WorkersStopped, At, durable
<1>s. IsSchedule(schedule') /\ schedule'.running = {} /\ Entered(schedule') = Entered(schedule)
  BY <1>q, RunFacts DEF WorkersStopped
<1>t. tasks' = NoTasks /\ Active' = {} /\ Cardinality({}) <= capacity
  BY FS_EmptySet, RuntimeAssumption DEF WorkersStopped, NoTasks, Active, LoopInv, Types, TypeOK
<1>p. pc' = "pass" /\ reloading' = TRUE /\ pass' \in Pass /\ PassSound'
  BY <1>e, BeginPassFacts DEF WorkersStopped
<1>1. Types'
  BY <1>b, <1>e, <1>p, <1>s, <1>t, PassTyped DEF LoopInv, Types, TypeOK, NoTasks
<1>2. RunningMatch'
  BY <1>e, <1>q, <1>s, <1>t DEF RunningMatch
<1>3. LaunchingSound'
  BY <1>b, <1>e, <1>q, <1>s, <1>t DEF LoopInv, LaunchingSound
<1>4. OnlyEnabled'
  BY <1>e, <1>s DEF LoopInv, OnlyEnabled
<1>5. BacklogIsQuiet'
  BY <1>t DEF BacklogIsQuiet
<1>6. RisingTasks'
  BY <1>t DEF RisingTasks, NoTasks
<1>7. ScansEnabled'
  BY <1>e, <1>p DEF LoopInv, ScansEnabled, ScanOpen
<1>8. PassSound'
  BY <1>p
<1>9. WaveSound'
  BY <1>p DEF WaveSound
<1>10. DownSound'
  BY <1>p DEF DownSound
<1> QED BY <1>1, <1>2, <1>3, <1>4, <1>5, <1>6, <1>7, <1>8, <1>9, <1>10 DEF LoopInv

LEMMA PassDoneStep ==
  ASSUME LoopInv, PassDone
  PROVE  LoopInv'
<1>b. capacity' = capacity /\ capacity' \in Capacities /\ events' \in 0 .. MaxEvents
  BY BoundsFacts DEF LoopInv, Types, PassDone
<1>q. /\ Active = {} /\ launching = <<>> /\ Range(launching) = {}
      /\ schedule.running = {} /\ IsSchedule(schedule)
  BY QuietFacts DEF PassDone, At, LoopInv, BacklogIsQuiet
<1>s. IsSchedule(schedule') /\ schedule'.running = {} /\ Entered(schedule') = Enabled(config)
  <2> DEFINE on == pass.committed \cap Enabled(config)
             off == pass.committed \ Enabled(config)
             s1 == CompleteLater(schedule, on)
             s2 == CompleteOut(s1, off)
  <2>1. on \subseteq Input /\ off \subseteq Input /\ Runnable(pass.needs) \subseteq Input
    BY EnabledConfigured, RuntimeAssumption DEF Runnable, LoopInv, Types, TypeOK
  <2>2. Runnable(pass.needs) = Enabled(config)
    BY DEF Runnable, LoopInv, PassSound, PassDone, At
  <2>3. schedule' = Sync(s2, Runnable(pass.needs))
    BY DEF PassDone
  <2> HIDE DEF on, off
  <2>4. IsSchedule(s1) /\ s1.running = {}
    BY <1>q, <2>1, CompleteFacts
  <2> HIDE DEF s1
  <2>5. IsSchedule(s2) /\ s2.running = {}
    BY <2>1, <2>4, CompleteFacts
  <2> HIDE DEF s2
  <2> QED BY <2>1, <2>2, <2>3, <2>5, SyncFacts
<1>1. Types'
  BY <1>b, <1>s, <1>q DEF LoopInv, Types, TypeOK, PassDone, At, Goto, durable, stage
<1>2. RunningMatch'
  BY <1>s, <1>q DEF LoopInv, RunningMatch, Active, PassDone, At, Goto, durable, stage
<1>3. LaunchingSound'
  BY <1>b, <1>s, <1>q DEF LoopInv, LaunchingSound, Active, PassDone, At, Goto, durable, stage
<1>4. OnlyEnabled'
  BY <1>s, <1>q DEF LoopInv, OnlyEnabled, PassDone, At, Goto, durable, stage
<1>5. BacklogIsQuiet'
  BY <1>s, <1>q DEF LoopInv, BacklogIsQuiet, Active, PassDone, At, Goto, durable, stage
<1>6. RisingTasks'
  BY <1>s, <1>q DEF LoopInv, RisingTasks, PassDone, At, Goto, durable, stage
<1>7. ScansEnabled'
  BY <1>s, <1>q DEF LoopInv, ScansEnabled, ScanOpen, PassDone, At, Goto, durable, stage
<1>8. PassSound'
  BY <1>s, <1>q DEF LoopInv, PassSound, Reconciled, PassDone, At, Goto, durable, stage
<1>9. WaveSound'
  BY <1>s, <1>q DEF LoopInv, WaveSound, Undelivered, Active, PassDone, At, Goto, durable, stage
<1>10. DownSound'
  BY <1>s, <1>q DEF LoopInv, DownSound, PassDone, At, Goto, durable, stage
<1> QED BY <1>1, <1>2, <1>3, <1>4, <1>5, <1>6, <1>7, <1>8, <1>9, <1>10 DEF LoopInv

LEMMA StartStep ==
  ASSUME LoopInv, Start
  PROVE  LoopInv'
<1>b. capacity' = capacity /\ capacity' \in Capacities /\ events' \in 0 .. MaxEvents
  BY BoundsFacts DEF LoopInv, Types, Start
<1>q. /\ tasks = NoTasks /\ Active = {} /\ launching = <<>> /\ Range(launching) = {}
      /\ schedule = EmptySchedule
  BY QuietFacts DEF Start, At, LoopInv, DownSound, Active, NoTasks
<1>s. IsSchedule(schedule') /\ schedule'.running = {} /\ Entered(schedule') = Enabled(wanted)
  <2>1. Enabled(wanted) \subseteq Input /\ EmptySchedule.running = {}
    BY EnabledConfigured DEF EmptySchedule
  <2> QED BY <2>1, EmptyIsSchedule, SyncFacts DEF Start
<1>c. Cardinality({}) <= capacity
  BY FS_EmptySet, RuntimeAssumption DEF LoopInv, Types, TypeOK
<1>w. ASSUME NEW i \in Input
      PROVE  /\ work'[i] = IF i \in Rising /\ work[i].phase = "idle"
                           THEN [phase |-> "idle", revision |-> Revision(wanted, i)] ELSE work[i]
             /\ work'[i] \in Work
             /\ i \in Rising /\ work[i].phase = "idle" => Revision(wanted, i) \in Revisions
  <2>1. work'[i] = IF i \in Rising THEN Ensured(work, wanted, i)[i] ELSE work[i]
    BY DEF Start
  <2>2. work \in [Input -> Work] /\ work[i] \in Work
    BY DEF LoopInv, Types
  <2>3. CASE i \in Rising /\ work[i].phase = "idle"
    <3>1. i \in Configured(wanted)
      BY <2>3 DEF Start, Startable
    <3>2. Revision(wanted, i) \in Revisions
      BY <3>1, RevisionTyped DEF LoopInv, Types, TypeOK
    <3>3. Ensured(work, wanted, i)[i] = [work[i] EXCEPT !.revision = Revision(wanted, i)]
      BY <2>2, <2>3 DEF Ensured
    <3>4. Ensured(work, wanted, i)[i] = [phase |-> "idle", revision |-> Revision(wanted, i)]
      BY <2>2, <2>3, <3>3 DEF Work
    <3>5. [phase |-> "idle", revision |-> Revision(wanted, i)] \in Work
      BY <3>2 DEF Work, RisingPhase
    <3> QED BY <2>1, <2>3, <3>2, <3>4, <3>5
  <2>4. CASE ~(i \in Rising /\ work[i].phase = "idle")
    BY <2>1, <2>2, <2>4 DEF Ensured
  <2> QED BY <2>3, <2>4
<1>v. /\ work' \in [Input -> Work]
      /\ \A i \in Input : /\ work'[i].phase = work[i].phase
                          /\ work'[i].revision \in Revisions \cup {None}
                          /\ work[i].phase # "idle" => work'[i] = work[i]
  <2>1. work' = [i \in Input |-> work'[i]]
    BY DEF Start
  <2>2. work' \in [Input -> Work]
    BY <1>w, <2>1
  <2>3. \A i \in Input : work'[i] \in Work
    BY <2>2
  <2> QED BY <1>w, <2>2, <2>3 DEF Work
<1>1. Types'
  BY <1>b, <1>s, <1>v DEF LoopInv, Types, TypeOK, Start, At, Goto, durable, stage
<1>2. RunningMatch'
  BY <1>q, <1>s DEF LoopInv, RunningMatch, Active, Start, At, Goto, durable, stage
<1>3. LaunchingSound'
  BY <1>b, <1>q, <1>s, <1>c DEF LoopInv, LaunchingSound, Active, Start, At, Goto, durable, stage
<1>4. OnlyEnabled'
  BY <1>s DEF LoopInv, OnlyEnabled, Start, At, Goto, durable, stage
<1>5. BacklogIsQuiet'
  BY DEF LoopInv, BacklogIsQuiet, Active, Start, At, Goto, durable, stage
<1>6. RisingTasks'
  BY <1>q DEF RisingTasks, NoTasks, Start
<1>7. ScansEnabled'
  <2>1. ASSUME NEW i \in Rising, work'[i].phase \in {"started", "page", "last", "done"}
        PROVE  i \in Enabled(wanted) /\ work'[i].revision = Revision(wanted, i)
    <3>1. i \in Input /\ work'[i] = work[i] /\ ScanOpen(i)
      BY <1>v, <2>1, RuntimeAssumption DEF ScanOpen
    <3>2. work[i].revision.settings \in {"a", "b"}
      BY <3>1 DEF LoopInv, ScansEnabled, Start, At
    <3>3. Fenced(work, wanted, i)
      BY <2>1, <3>1 DEF Start, Startable, Ensurable, ScanOpen
    <3>4. work[i].revision = Revision(wanted, i)
      BY <3>1, <3>3 DEF Fenced, ScanOpen
    <3>5. wanted.inputs[i] \in {"a", "b"}
      BY <3>2, <3>4 DEF Revision
    <3> QED BY <3>1, <3>4, <3>5 DEF Enabled
  <2> QED BY <2>1 DEF ScansEnabled, ScanOpen, Start, Goto
<1>8. PassSound'
  BY DEF LoopInv, PassSound, Reconciled, Start, At, Goto, durable, stage
<1>9. WaveSound'
  BY DEF LoopInv, WaveSound, Undelivered, Active, Start, At, Goto, durable, stage
<1>10. DownSound'
  BY DEF LoopInv, DownSound, Start, At, Goto, durable, stage
<1> QED BY <1>1, <1>2, <1>3, <1>4, <1>5, <1>6, <1>7, <1>8, <1>9, <1>10 DEF LoopInv

(* Records of work, one field changed.                                     *)
LEMMA WorkUpdate ==
  ASSUME NEW w \in [Input -> Work], NEW i \in Input, NEW x
  PROVE  /\ [w EXCEPT ![i].phase = x] = [w EXCEPT ![i] = [phase |-> x, revision |-> w[i].revision]]
         /\ [w EXCEPT ![i].revision = x] = [w EXCEPT ![i] = [phase |-> w[i].phase, revision |-> x]]
         /\ w = [w EXCEPT ![i] = [phase |-> w[i].phase, revision |-> w[i].revision]]
         /\ \A a, b : [[w EXCEPT ![i] = a] EXCEPT ![i] = b] = [w EXCEPT ![i] = b]
<1>1. w[i] \in Work /\ w[i] = [phase |-> w[i].phase, revision |-> w[i].revision]
  BY DEF Work
<1>2. /\ [w[i] EXCEPT !.phase = x] = [phase |-> x, revision |-> w[i].revision]
      /\ [w[i] EXCEPT !.revision = x] = [phase |-> w[i].phase, revision |-> x]
  BY <1>1 DEF Work
<1>3. /\ [w EXCEPT ![i].phase = x] = [w EXCEPT ![i] = [w[i] EXCEPT !.phase = x]]
      /\ [w EXCEPT ![i].revision = x] = [w EXCEPT ![i] = [w[i] EXCEPT !.revision = x]]
  OBVIOUS
<1>4. w = [w EXCEPT ![i] = w[i]]
  OBVIOUS
<1>5. \A a, b : [[w EXCEPT ![i] = a] EXCEPT ![i] = b] = [w EXCEPT ![i] = b]
  OBVIOUS
<1> QED BY <1>1, <1>2, <1>3, <1>4, <1>5

LEMMA PassUpdate ==
  ASSUME NEW p \in Pass, NEW x
  PROVE  /\ [p EXCEPT !.left = x] = [left |-> x, needs |-> p.needs, committed |-> p.committed]
         /\ [p EXCEPT !.needs = x] = [left |-> p.left, needs |-> x, committed |-> p.committed]
         /\ [p EXCEPT !.committed = x] = [left |-> p.left, needs |-> p.needs, committed |-> x]
BY DEF Pass

LEMMA ReconcileStep ==
  ASSUME LoopInv, ReconcileInput
  PROVE  LoopInv'
<1>b. capacity' = capacity /\ capacity' \in Capacities /\ events' \in 0 .. MaxEvents
  BY BoundsFacts DEF LoopInv, Types, ReconcileInput
<1> DEFINE i == Head(pass.left)
           phase == work[i].phase
           revision == IF phase = "idle" THEN Revision(config, i) ELSE work[i].revision
           next == CASE phase = "page" -> "started"
                     [] phase \in {"last", "done"} -> "idle"
                     [] OTHER -> phase
           needy == phase \in {"started", "page"}
<1>e. /\ pc = "pass" /\ pc' = "pass" /\ pass.left # <<>> /\ pass \in Pass
      /\ UNCHANGED <<wanted, quarantined, config, candidate, reloading, drained, schedule, launching, tasks, cancelled>>
  BY DEF ReconcileInput, At, LoopInv, Types
<1>i. /\ i \in Rising /\ i \in Input /\ i \in Configured(config) /\ Tail(pass.left) \in Seq(Rising)
      /\ Range(pass.left) = {i} \cup Range(Tail(pass.left))
  <2>1. pass.left \in Seq(Rising)
    BY <1>e, PassTyped
  <2>2. /\ i \in Rising /\ Tail(pass.left) \in Seq(Rising)
        /\ Range(pass.left) = {i} \cup Range(Tail(pass.left))
    BY <1>e, <2>1, TailFacts
  <2> QED BY <1>e, <2>2, RuntimeAssumption DEF LoopInv, PassSound
<1>h. work[i] \in Work /\ phase \in RisingPhase /\ work \in [Input -> Work]
  BY <1>i DEF LoopInv, Types, TypeOK
<1>r. revision \in Revisions \cup {None}
  <2>1. work[i].revision \in Revisions \cup {None}
    BY <1>h DEF Work
  <2>2. Revision(config, i) \in Revisions
    BY <1>i, RevisionTyped DEF LoopInv, Types, TypeOK
  <2> QED BY <2>1, <2>2
<1>m. next \in RisingPhase
  BY <1>h DEF RisingPhase
<1>v. work' = [work EXCEPT ![i] = [phase |-> next, revision |-> revision]]
  <2>1. work' = [Ensured(work, config, i) EXCEPT ![i].phase = next]
    BY DEF ReconcileInput
  <2>2. Ensured(work, config, i) = [work EXCEPT ![i] = [phase |-> phase, revision |-> revision]]
    <3>1. CASE phase = "idle"
      <4>1. /\ Ensured(work, config, i) = [work EXCEPT ![i].revision = Revision(config, i)]
            /\ revision = Revision(config, i) /\ phase = work[i].phase
        BY <3>1 DEF Ensured
      <4> HIDE DEF i, phase, revision
      <4>2. [work EXCEPT ![i].revision = revision] =
              [work EXCEPT ![i] = [phase |-> work[i].phase, revision |-> revision]]
        <5>1. [work[i] EXCEPT !.revision = revision] = [phase |-> work[i].phase, revision |-> revision]
          BY <1>h DEF Work
        <5>2. [work EXCEPT ![i].revision = revision] =
                [work EXCEPT ![i] = [work[i] EXCEPT !.revision = revision]]
          OBVIOUS
        <5> QED BY <5>1, <5>2
      <4>3. Ensured(work, config, i) = [work EXCEPT ![i].revision = revision]
        BY <4>1
      <4> QED BY <4>1, <4>2, <4>3
    <3>2. CASE phase # "idle"
      <4>1. Ensured(work, config, i) = work /\ revision = work[i].revision /\ phase = work[i].phase
        BY <3>2 DEF Ensured
      <4> HIDE DEF i, phase, revision
      <4> QED BY <1>h, <1>i, <4>1, WorkUpdate
    <3> QED BY <3>1, <3>2
  <2> DEFINE w == Ensured(work, config, i)
             b == [phase |-> next, revision |-> revision]
  <2>3. [phase |-> phase, revision |-> revision] \in Work
    BY <1>h, <1>r DEF Work
  <2> HIDE DEF i, phase, revision, next
  <2>4. w \in [Input -> Work] /\ w[i].revision = revision
    BY <1>h, <1>i, <2>2, <2>3
  <2>5. work' = [w EXCEPT ![i] = b]
    <3>1. work' = [w EXCEPT ![i].phase = next]
      BY <2>1
    <3> HIDE DEF w
    <3>2. [w EXCEPT ![i].phase = next] = [w EXCEPT ![i] = [phase |-> next, revision |-> w[i].revision]]
      <4>1. w[i] \in Work
        BY <1>i, <2>4
      <4>2. [w[i] EXCEPT !.phase = next] = [phase |-> next, revision |-> w[i].revision]
        BY <4>1 DEF Work
      <4>3. [w EXCEPT ![i].phase = next] = [w EXCEPT ![i] = [w[i] EXCEPT !.phase = next]]
        OBVIOUS
      <4> QED BY <4>2, <4>3
    <3> QED BY <2>4, <3>1, <3>2
  <2> HIDE DEF b, w
  <2>6. work' = [[work EXCEPT ![i] = [phase |-> phase, revision |-> revision]] EXCEPT ![i] = b]
    BY <2>2, <2>5 DEF w
  <2>7. work' = [work EXCEPT ![i] = b]
    BY <1>h, <1>i, <2>6, WorkUpdate
  <2> QED BY <2>7 DEF b
<1>p. /\ pass' \in Pass /\ pass'.left = Tail(pass.left)
      /\ pass'.needs = IF needy THEN pass.needs \cup {i} ELSE pass.needs
  <2> DEFINE rest == [pass EXCEPT !.left = Tail(@)]
  <2>1. rest = [left |-> Tail(pass.left), needs |-> pass.needs, committed |-> pass.committed]
    BY <1>e, PassUpdate
  <2>2. pass' = CASE phase \in {"missing", "idle"} -> rest
                  [] phase \in {"started", "page"} -> [rest EXCEPT !.needs = @ \cup {i}]
                  [] OTHER -> [rest EXCEPT !.committed = @ \cup {i}]
    BY DEF ReconcileInput
  <2>3. /\ [rest EXCEPT !.needs = @ \cup {i}] =
             [left |-> Tail(pass.left), needs |-> pass.needs \cup {i}, committed |-> pass.committed]
        /\ [rest EXCEPT !.committed = @ \cup {i}] =
             [left |-> Tail(pass.left), needs |-> pass.needs, committed |-> pass.committed \cup {i}]
    <3>1. rest \in Pass
      BY <1>i, <1>e, <2>1, PassTyped DEF Pass
    <3> HIDE DEF i, rest
    <3> QED BY <2>1, <3>1, PassUpdate
  <2>4. pass.needs \subseteq Rising /\ pass.committed \subseteq Rising
    BY <1>e, PassTyped
  <2> HIDE DEF i, rest, phase
  <2> QED BY <1>i, <2>1, <2>2, <2>3, <2>4 DEF Pass
<1> HIDE DEF i, revision, next, needy
<1>w. /\ work' \in [Input -> Work] /\ work'[i] = [phase |-> next, revision |-> revision]
      /\ \A j \in Input \ {i} : work'[j] = work[j]
      /\ \A j \in Input : /\ work'[j].phase \in IF j \in Rising THEN RisingPhase ELSE BatchPhase
                          /\ work'[j].revision \in Revisions \cup {None}
  <2>1. [phase |-> next, revision |-> revision]
           \in [phase: IF i \in Rising THEN RisingPhase ELSE BatchPhase, revision: Revisions \cup {None}]
    BY <1>i, <1>m, <1>r
  <2> QED BY <1>i, <1>v, <2>1, OneWorkFacts
<1>o. next \in {"started", "page", "last", "done"} => needy /\ next = "started" /\ revision = work[i].revision
  BY <1>h DEF next, needy, revision, RisingPhase
<1>k. needy => i \in Enabled(config) /\ work[i].revision = Revision(config, i)
  BY <1>e, <1>i DEF needy, LoopInv, ScansEnabled, ScanOpen
<1>q. Active = {} /\ Active' = {}
  BY <1>e DEF LoopInv, BacklogIsQuiet, Active
<1>1. Types'
  BY <1>b, <1>e, <1>p, <1>w, PassTyped DEF LoopInv, Types, TypeOK
<1>2. RunningMatch'
  BY <1>e DEF LoopInv, RunningMatch, Active
<1>3. LaunchingSound'
  BY <1>b, <1>e DEF LoopInv, LaunchingSound, Active
<1>4. OnlyEnabled'
  BY <1>e DEF LoopInv, OnlyEnabled
<1>5. BacklogIsQuiet'
  BY <1>q DEF BacklogIsQuiet
<1>6. RisingTasks'
  BY <1>q DEF RisingTasks, Active
<1>7. ScansEnabled'
  <2>1. ASSUME NEW j \in Rising, work'[j].phase \in {"started", "page", "last", "done"}
        PROVE  j \in Enabled(config) /\ work'[j].revision = Revision(config, j)
    <3>1. CASE j = i
      BY <1>k, <1>o, <1>w, <2>1, <3>1
    <3>2. CASE j # i
      <4>1. work'[j] = work[j]
        BY <1>w, <3>2, RuntimeAssumption
      <4> QED BY <1>e, <2>1, <4>1 DEF LoopInv, ScansEnabled, ScanOpen
    <3> QED BY <3>1, <3>2
  <2> QED BY <1>e, <2>1 DEF ScansEnabled, ScanOpen
<1>8. PassSound'
  <2>1. pass'.needs \subseteq Enabled(config)
    BY <1>e, <1>k, <1>p DEF LoopInv, PassSound
  <2>2. ASSUME NEW j \in Rising \ Range(Tail(pass.left)) PROVE Reconciled(j)'
    <3>1. CASE j = i
      <4>1. next \in {"missing", "idle"} \/ (next = "started" /\ needy)
        BY <1>m, <1>o DEF RisingPhase
      <4> QED BY <1>p, <1>w, <3>1, <4>1 DEF Reconciled
    <3>2. CASE j # i
      <4>1. j \in Rising \ Range(pass.left) /\ work'[j] = work[j]
        BY <1>i, <1>w, <3>2, RuntimeAssumption
      <4>2. Reconciled(j)
        BY <1>e, <4>1 DEF LoopInv, PassSound
      <4> QED BY <1>p, <4>1, <4>2 DEF Reconciled
    <3> QED BY <3>1, <3>2
  <2>3. Range(Tail(pass.left)) \subseteq Configured(config)
    BY <1>e, <1>i DEF LoopInv, PassSound
  <2> QED BY <1>e, <1>p, <2>1, <2>2, <2>3 DEF PassSound
<1>9. WaveSound'
  BY <1>e DEF WaveSound
<1>10. DownSound'
  BY <1>e DEF DownSound
<1> QED BY <1>1, <1>2, <1>3, <1>4, <1>5, <1>6, <1>7, <1>8, <1>9, <1>10 DEF LoopInv

(* With fewer inputs running, the capacity still suffices.                 *)
LEMMA FewerRun ==
  ASSUME NEW R, R \subseteq Input, NEW Q, Q \subseteq R, NEW n \in Nat, Cardinality(R) <= n
  PROVE  Cardinality(Q) <= n
<1>1. IsFiniteSet(R) /\ IsFiniteSet(Q) /\ Cardinality(Q) <= Cardinality(R)
  BY InputIsFinite, FS_Subset
<1>2. Cardinality(R) \in Nat /\ Cardinality(Q) \in Nat
  BY <1>1, FS_CardinalityType
<1> QED BY <1>1, <1>2

LEMMA CapacityNat == LoopInv => capacity \in Nat
BY RuntimeAssumption DEF LoopInv, Types, TypeOK

LEMMA LaunchStep ==
  ASSUME LoopInv, Launch
  PROVE  LoopInv'
<1>b. capacity' = capacity /\ capacity' \in Capacities /\ events' \in 0 .. MaxEvents
  BY BoundsFacts DEF LoopInv, Types, Launch
<1>q. /\ launching = <<>> /\ Range(launching) = {} /\ schedule.running = Active /\ IsSchedule(schedule)
      /\ Cardinality(schedule.running) <= capacity /\ capacity \in Nat
  BY QuietFacts, CapacityNat DEF Launch, At
<1>e. /\ pc = "launch"
      /\ UNCHANGED <<wanted, quarantined, work, config, candidate, reloading, pass, drained, tasks, cancelled, capacity>>
  BY <1>b DEF Launch, At, durable
<1>d. CASE /\ MayLaunch /\ launching' = Due(schedule, capacity)
           /\ schedule' = Run(schedule, Range(launching')) /\ pc' = "spawn"
  <2>1. Active = {} /\ drained /\ Active' = {}
    BY <1>d, <1>e DEF MayLaunch, Active
  <2>2. /\ launching' \in Seq(Input) /\ IsInjective(launching')
        /\ Range(launching') \subseteq Entered(schedule) \ schedule.running
        /\ Cardinality(schedule.running) + Len(launching') <= capacity
    BY <1>d, <1>q, DueFacts
  <2>3. Len(launching') \in Nat /\ Len(launching') <= capacity
    <3>1. Cardinality(schedule.running) = 0
      BY <1>q, <2>1, FS_EmptySet
    <3>2. Len(launching') \in Nat
      BY <2>2
    <3> QED BY <2>2, <3>1, <3>2
  <2>4. Range(launching') \subseteq Input
    BY <2>2 DEF Range
  <2>5. /\ IsSchedule(schedule') /\ schedule'.running = Range(launching')
        /\ Entered(schedule') = Entered(schedule)
    <3> DEFINE names == Range(launching')
    <3>1. schedule' = Run(schedule, names) /\ schedule.running = {} /\ names \subseteq Input
      BY <1>d, <1>q, <2>1, <2>4
    <3> HIDE DEF names
    <3>2. /\ IsSchedule(schedule') /\ schedule'.running = schedule.running \cup names
          /\ Entered(schedule') = Entered(schedule)
      BY <1>q, <3>1, RunFacts
    <3> QED BY <3>1, <3>2 DEF names
  <2>6. Cardinality(schedule'.running) <= capacity
    <3>1. IsFiniteSet(Range(launching')) /\ Cardinality(Range(launching')) <= Len(launching')
      BY <2>2, RangeIsShort
    <3>2. Cardinality(Range(launching')) \in Nat
      BY <3>1, FS_CardinalityType
    <3> QED BY <1>q, <2>3, <2>5, <3>1, <3>2
  <2>7. Types'
    BY <1>b, <1>d, <1>e, <2>2, <2>5 DEF LoopInv, Types, TypeOK
  <2>8. RunningMatch' /\ LaunchingSound' /\ BacklogIsQuiet'
    BY <1>d, <1>e, <2>1, <2>2, <2>5, <2>6 DEF RunningMatch, LaunchingSound, BacklogIsQuiet
  <2>9. OnlyEnabled'
    BY <1>e, <2>2, <2>5 DEF LoopInv, OnlyEnabled
  <2>10. RisingTasks' /\ ScansEnabled'
    BY <1>d, <1>e DEF LoopInv, RisingTasks, ScansEnabled, ScanOpen
  <2>11. PassSound' /\ DownSound'
    BY <1>d DEF PassSound, DownSound
  <2>12. WaveSound'
    BY <1>d, <1>e, <2>1 DEF LoopInv, WaveSound, Undelivered
  <2> QED BY <2>7, <2>8, <2>9, <2>10, <2>11, <2>12 DEF LoopInv
<1>z. CASE pc' = "sleep" /\ UNCHANGED <<launching, schedule>>
  <2>1. Types'
    BY <1>b, <1>e, <1>z DEF LoopInv, Types, TypeOK
  <2>2. RunningMatch' /\ LaunchingSound' /\ BacklogIsQuiet' /\ OnlyEnabled'
    BY <1>e, <1>q, <1>z DEF LoopInv, RunningMatch, LaunchingSound, BacklogIsQuiet, OnlyEnabled, Active
  <2>3. RisingTasks' /\ ScansEnabled' /\ PassSound' /\ WaveSound' /\ DownSound'
    BY <1>e, <1>z DEF LoopInv, RisingTasks, ScansEnabled, ScanOpen, PassSound, WaveSound, DownSound
  <2> QED BY <2>1, <2>2, <2>3 DEF LoopInv
<1> QED BY <1>d, <1>z DEF Launch, Goto

(* An input of the wave is put back into the schedule instead of launched. *)
LEMMA PutBack ==
  ASSUME LoopInv, pc = "spawn", launching # <<>>, launching' = Tail(launching),
         \/ schedule' = CompleteNow(schedule, {Head(launching)})
         \/ schedule' = CompleteLater(schedule, {Head(launching)}),
         UNCHANGED <<work, tasks, wanted, quarantined, config, candidate, pc, reloading, pass, drained, cancelled>>,
         capacity' = capacity /\ capacity' \in Capacities /\ events' \in 0 .. MaxEvents
  PROVE  LoopInv'
<1> DEFINE i == Head(launching)
<1>i. /\ i \in Input /\ i \notin Active /\ i \in Enabled(config) /\ i \in schedule.running
      /\ launching' \in Seq(Input) /\ IsInjective(launching') /\ i \notin Range(launching')
      /\ Range(launching) = {i} \cup Range(launching')
  <2>1. launching \in Seq(Input) /\ IsInjective(launching)
    BY DEF LoopInv, Types, TypeOK, LaunchingSound
  <2>2. /\ i \in Input /\ launching' \in Seq(Input) /\ IsInjective(launching') /\ i \notin Range(launching')
        /\ Range(launching) = {i} \cup Range(launching')
    BY <2>1, TailFacts
  <2> HIDE DEF i
  <2> QED BY <2>2 DEF LoopInv, LaunchingSound, RunningMatch, OnlyEnabled
<1>s. /\ IsSchedule(schedule') /\ schedule'.running = schedule.running \ {i}
      /\ Entered(schedule') = Entered(schedule) \cup {i}
  <2>1. IsSchedule(schedule) /\ {i} \subseteq Input
    BY <1>i DEF LoopInv, Types, TypeOK
  <2>2. schedule' = CompleteNow(schedule, {i}) \/ schedule' = CompleteLater(schedule, {i})
    OBVIOUS
  <2> HIDE DEF i
  <2> QED BY <2>1, <2>2, CompleteFacts, CompleteNowFacts
<1> HIDE DEF i
<1>c. Cardinality(schedule'.running) <= capacity
  <2>1. schedule.running \subseteq Input /\ Cardinality(schedule.running) <= capacity /\ capacity \in Nat
    BY CapacityNat, ScheduleFacts DEF LoopInv, Types, TypeOK, LaunchingSound
  <2>2. schedule'.running \subseteq schedule.running
    BY <1>s
  <2> QED BY <2>1, <2>2, FewerRun
<1>1. Types'
  BY <1>i, <1>s DEF LoopInv, Types, TypeOK
<1>2. RunningMatch' /\ LaunchingSound'
  BY <1>c, <1>i, <1>s DEF LoopInv, RunningMatch, LaunchingSound, Active
<1>3. OnlyEnabled'
  BY <1>i, <1>s DEF LoopInv, OnlyEnabled
<1>4. BacklogIsQuiet' /\ RisingTasks' /\ ScansEnabled' /\ PassSound' /\ DownSound'
  BY DEF LoopInv, BacklogIsQuiet, RisingTasks, ScansEnabled, ScanOpen, PassSound, DownSound
<1>5. WaveSound'
  BY DEF LoopInv, WaveSound, Undelivered, Active
<1> QED BY <1>1, <1>2, <1>3, <1>4, <1>5 DEF LoopInv

LEMMA SpawnFailsStep ==
  ASSUME LoopInv, SpawnFails
  PROVE  LoopInv'
<1>1. capacity' = capacity /\ capacity' \in Capacities /\ events' \in 0 .. MaxEvents
  BY BoundsFacts DEF LoopInv, Types, SpawnFails
<1> QED BY <1>1, PutBack DEF SpawnFails, At, durable, stage

LEMMA SpawnWorkerStep ==
  ASSUME LoopInv, SpawnWorker
  PROVE  LoopInv'
<1>b. capacity' = capacity /\ capacity' \in Capacities /\ events' \in 0 .. MaxEvents
  BY BoundsFacts DEF LoopInv, Types, SpawnWorker
<1> DEFINE i == Head(launching)
<1>e. /\ pc = "spawn" /\ launching # <<>> /\ launching' = Tail(launching)
      /\ UNCHANGED <<wanted, quarantined, config, candidate, pc, reloading, pass, drained, cancelled, capacity>>
  BY <1>b DEF SpawnWorker, At, durable, stage
<1>i. /\ i \in Input /\ i \notin Active /\ i \in Enabled(config) /\ i \in schedule.running
      /\ launching' \in Seq(Input) /\ IsInjective(launching') /\ i \notin Range(launching')
      /\ Range(launching) = {i} \cup Range(launching')
  <2>1. launching \in Seq(Input) /\ IsInjective(launching)
    BY DEF LoopInv, Types, TypeOK, LaunchingSound
  <2>2. /\ i \in Input /\ launching' \in Seq(Input) /\ IsInjective(launching') /\ i \notin Range(launching')
        /\ Range(launching) = {i} \cup Range(launching')
    BY <1>e, <2>1, TailFacts
  <2> HIDE DEF i
  <2> QED BY <2>2 DEF LoopInv, LaunchingSound, RunningMatch, OnlyEnabled
<1>k. IF i \in Rising /\ work[i].phase \in {"page", "last", "done"}
      THEN schedule' = CompleteNow(schedule, {i}) /\ UNCHANGED <<work, tasks>>
      ELSE /\ tasks' = [tasks EXCEPT ![i] = "running"]
           /\ work' = IF i \in Rising
                      THEN [work EXCEPT ![i] = [phase |-> "started", revision |-> Revision(config, i)]]
                      ELSE work
           /\ schedule' = schedule
  BY DEF SpawnWorker
<1>a. CASE i \in Rising /\ work[i].phase \in {"page", "last", "done"}
  BY <1>a, <1>b, <1>e, <1>k, PutBack
<1>c. CASE ~(i \in Rising /\ work[i].phase \in {"page", "last", "done"})
  <2> HIDE DEF i
  <2>t. /\ tasks' \in [Input -> {"none", "running", "sealed", "empty", "failed"}]
        /\ tasks'[i] = "running" /\ (\A j \in Input \ {i} : tasks'[j] = tasks[j])
        /\ Active' = Active \cup {i} /\ schedule' = schedule
    BY <1>c, <1>i, <1>k DEF LoopInv, Types, TypeOK, Active
  <2>w. /\ work' \in [Input -> Work]
        /\ \A j \in Input \ {i} : work'[j] = work[j]
        /\ \A j \in Input : /\ work'[j].phase \in IF j \in Rising THEN RisingPhase ELSE BatchPhase
                            /\ work'[j].revision \in Revisions \cup {None}
        /\ i \in Rising => work'[i].phase = "started" /\ work'[i].revision = Revision(config, i)
        /\ i \notin Rising => work'[i] = work[i]
    <3>1. CASE i \in Rising
      <4>1. Revision(config, i) \in Revisions
        BY <1>i, EnabledConfigured, RevisionTyped DEF LoopInv, Types, TypeOK
      <4>2. [phase |-> "started", revision |-> Revision(config, i)]
              \in [phase: IF i \in Rising THEN RisingPhase ELSE BatchPhase, revision: Revisions \cup {None}]
        BY <3>1, <4>1 DEF RisingPhase
      <4> DEFINE v == [phase |-> "started", revision |-> Revision(config, i)]
      <4>3. work' = [work EXCEPT ![i] = v]
        BY <1>c, <1>k, <3>1
      <4>4. v.phase = "started" /\ v.revision = Revision(config, i)
        OBVIOUS
      <4>5. v \in [phase: IF i \in Rising THEN RisingPhase ELSE BatchPhase, revision: Revisions \cup {None}]
        BY <4>2
      <4> HIDE DEF v
      <4>6. /\ work' \in [Input -> Work] /\ work'[i] = v
            /\ \A j \in Input \ {i} : work'[j] = work[j]
            /\ \A j \in Input : /\ work'[j].phase \in IF j \in Rising THEN RisingPhase ELSE BatchPhase
                                /\ work'[j].revision \in Revisions \cup {None}
        BY <1>i, <4>3, <4>5, OneWorkFacts
      <4> QED BY <3>1, <4>4, <4>6
    <3>2. CASE i \notin Rising
      BY <1>c, <1>k, <3>2 DEF LoopInv, Types, TypeOK
    <3> QED BY <3>1, <3>2
  <2>1. Types'
    BY <1>b, <1>e, <1>i, <2>t, <2>w DEF LoopInv, Types, TypeOK
  <2>2. RunningMatch' /\ LaunchingSound'
    BY <1>e, <1>i, <2>t DEF LoopInv, RunningMatch, LaunchingSound
  <2>3. OnlyEnabled' /\ BacklogIsQuiet' /\ PassSound' /\ DownSound'
    BY <1>e, <2>t DEF LoopInv, OnlyEnabled, BacklogIsQuiet, PassSound, DownSound
  <2>4. RisingTasks'
    BY <2>t, <2>w DEF LoopInv, RisingTasks
  <2>5. ScansEnabled'
    <3>1. ASSUME NEW j \in Rising, work'[j].phase \in {"started", "page", "last", "done"}
          PROVE  j \in Enabled(config) /\ work'[j].revision = Revision(config, j)
      <4>1. CASE j = i
        BY <1>i, <2>w, <3>1, <4>1
      <4>2. CASE j # i
        <5>1. work'[j] = work[j]
          BY <2>w, <4>2, RuntimeAssumption
        <5> QED BY <1>e, <3>1, <5>1 DEF LoopInv, ScansEnabled, ScanOpen
      <4> QED BY <4>1, <4>2
    <3> QED BY <1>e, <3>1 DEF ScansEnabled, ScanOpen
  <2>6. WaveSound'
    <3>1. Undelivered' \subseteq Undelivered \cup {i}
      BY <2>w DEF Undelivered
    <3> QED BY <1>e, <2>t, <3>1 DEF LoopInv, WaveSound
  <2> QED BY <2>1, <2>2, <2>3, <2>4, <2>5, <2>6 DEF LoopInv
<1> QED BY <1>a, <1>c

LEMMA FinishStep ==
  ASSUME LoopInv, FinishWorkers
  PROVE  LoopInv'
<1>b. capacity' = capacity /\ capacity' \in Capacities /\ events' \in 0 .. MaxEvents
  BY BoundsFacts DEF LoopInv, Types, FinishWorkers
<1> DEFINE done == {i \in Input : tasks[i] \in {"sealed", "empty", "failed"}}
           empty == {i \in done : tasks[i] = "empty"}
<1>e. /\ pc = "finish" /\ pc' = "reload"
      /\ UNCHANGED <<wanted, quarantined, config, candidate, reloading, pass, drained, launching, cancelled, capacity>>
  BY <1>b DEF FinishWorkers, At, Goto
<1>q. /\ launching = <<>> /\ Range(launching) = {} /\ schedule.running = Active /\ IsSchedule(schedule)
      /\ Cardinality(schedule.running) <= capacity /\ capacity \in Nat
  BY <1>e, QuietFacts, CapacityNat
<1>d. done \subseteq Active /\ done \subseteq Input /\ done \subseteq Enabled(config)
  <2>1. done \subseteq Active /\ done \subseteq Input
    BY DEF Active
  <2> HIDE DEF done
  <2> QED BY <1>q, <2>1 DEF LoopInv, OnlyEnabled
<1>l. PICK lost \in SUBSET empty :
        LET good == {i \in done : tasks[i] # "failed"} \ lost IN
        /\ tasks' = [i \in Input |-> IF i \in done THEN "none" ELSE tasks[i]]
        /\ work' = [i \in Input |->
                      IF i \in empty \ lost THEN [work[i] EXCEPT !.phase = "done"] ELSE work[i]]
        /\ schedule' = CompleteLater(CompleteOut(schedule, good \cap Rising), done \ (good \cap Rising))
  BY DEF FinishWorkers
<1> DEFINE out == ({i \in done : tasks[i] # "failed"} \ lost) \cap Rising
<1>m. empty \subseteq done /\ (\A i \in empty : tasks[i] = "empty") /\ out \subseteq done
  OBVIOUS
<1>s. /\ IsSchedule(schedule') /\ schedule'.running = schedule.running \ done
      /\ Entered(schedule') \subseteq Entered(schedule) \cup done
  <2>1. schedule' = CompleteLater(CompleteOut(schedule, out), done \ out)
    BY <1>l
  <2>2. out \subseteq Input /\ done \ out \subseteq Input
    BY <1>d, <1>m
  <2> HIDE DEF out, done
  <2> DEFINE s == CompleteOut(schedule, out)
  <2>3. IsSchedule(s) /\ s.running = schedule.running \ out /\ Entered(s) = Entered(schedule) \ out
    BY <1>q, <2>2, CompleteFacts
  <2>4. schedule' = CompleteLater(s, done \ out)
    BY <2>1
  <2> HIDE DEF s
  <2>5. /\ IsSchedule(schedule') /\ schedule'.running = s.running \ (done \ out)
        /\ Entered(schedule') = Entered(s) \cup (done \ out)
    BY <2>2, <2>3, <2>4, CompleteFacts
  <2> QED BY <1>m, <2>3, <2>5
<1>t. /\ tasks' \in [Input -> {"none", "running", "sealed", "empty", "failed"}] /\ Active' = Active \ done
      /\ \A j \in Input : tasks'[j] # "none" => tasks'[j] = tasks[j] /\ j \notin done
  <2>1. tasks \in [Input -> {"none", "running", "sealed", "empty", "failed"}]
    BY DEF LoopInv, Types, TypeOK
  <2>2. tasks' = [i \in Input |-> IF i \in done THEN "none" ELSE tasks[i]]
    BY <1>l
  <2> HIDE DEF done
  <2> QED BY <2>1, <2>2 DEF Active
<1>w. ASSUME NEW j \in Input
      PROVE  /\ work'[j] \in Work
             /\ work'[j].phase \in IF j \in Rising THEN RisingPhase ELSE BatchPhase
             /\ work'[j].revision = work[j].revision
             /\ \/ work'[j] = work[j]
                \/ j \in done /\ j \in Rising /\ work[j].phase = "started"
  <2>1. work[j] \in Work /\ work[j].phase \in IF j \in Rising THEN RisingPhase ELSE BatchPhase
    BY DEF LoopInv, Types, TypeOK
  <2>2. work'[j] = IF j \in empty \ lost THEN [work[j] EXCEPT !.phase = "done"] ELSE work[j]
    BY <1>l
  <2>3. CASE j \in empty \ lost
    <3>1. j \in done /\ j \in Rising /\ work[j].phase = "started"
      BY <1>m, <2>3 DEF LoopInv, RisingTasks
    <3>2. work'[j] = [phase |-> "done", revision |-> work[j].revision]
      BY <2>1, <2>2, <2>3 DEF Work
    <3>3. work[j].revision \in Revisions \cup {None}
      BY <2>1 DEF Work
    <3> HIDE DEF done
    <3> QED BY <3>1, <3>2, <3>3 DEF Work, RisingPhase
  <2>4. CASE j \notin empty \ lost
    BY <2>1, <2>2, <2>4
  <2> QED BY <2>3, <2>4
<1>v. work' \in [Input -> Work] /\ \A j \in Input : work'[j].revision \in Revisions \cup {None}
  <2>1. work' = [j \in Input |-> work'[j]]
    BY <1>l
  <2>2. work' \in [Input -> Work]
    BY <1>w, <2>1
  <2> QED BY <2>2 DEF Work
<1> HIDE DEF done, empty, out
<1>c. Cardinality(schedule'.running) <= capacity
  <2>1. schedule.running \subseteq Input /\ schedule'.running \subseteq schedule.running
    BY <1>q, <1>s, ScheduleFacts
  <2> QED BY <1>q, <2>1, FewerRun
<1>1. Types'
  BY <1>b, <1>e, <1>s, <1>t, <1>v, <1>w DEF LoopInv, Types, TypeOK
<1>2. RunningMatch'
  BY <1>e, <1>q, <1>s, <1>t DEF RunningMatch
<1>3. LaunchingSound'
  BY <1>c, <1>e, <1>q, <1>t DEF LoopInv, LaunchingSound
<1>4. OnlyEnabled'
  BY <1>d, <1>e, <1>s DEF LoopInv, OnlyEnabled
<1>5. BacklogIsQuiet'
  BY <1>e DEF BacklogIsQuiet
<1>6. RisingTasks'
  BY <1>t, <1>w DEF LoopInv, RisingTasks
<1>7. ScansEnabled'
  <2>1. ASSUME NEW j \in Rising, work'[j].phase \in {"started", "page", "last", "done"}
        PROVE  j \in Enabled(config) /\ work'[j].revision = Revision(config, j)
    <3>1. j \in Input
      BY RuntimeAssumption
    <3>2. ScanOpen(j) /\ work'[j].revision = work[j].revision
      BY <1>w, <2>1, <3>1 DEF ScanOpen
    <3> QED BY <1>e, <3>2 DEF LoopInv, ScansEnabled
  <2> QED BY <1>e, <2>1 DEF ScansEnabled, ScanOpen
<1>8. PassSound'
  BY <1>e DEF PassSound
<1>9. WaveSound'
  BY <1>e DEF WaveSound
<1>10. DownSound'
  BY <1>e DEF DownSound
<1> QED BY <1>1, <1>2, <1>3, <1>4, <1>5, <1>6, <1>7, <1>8, <1>9, <1>10 DEF LoopInv

(* A step that changes nothing.                                            *)
LEMMA SameStep ==
  ASSUME LoopInv, UNCHANGED vars
  PROVE  LoopInv'
<1>1. UNCHANGED <<wanted, quarantined, work, config, candidate, pc, reloading, pass, drained, schedule, launching,
                  tasks, cancelled, capacity, events>>
  BY DEF vars, durable, stage, bounds
<1>2. Types' /\ RunningMatch' /\ LaunchingSound' /\ OnlyEnabled' /\ BacklogIsQuiet'
  BY <1>1 DEF LoopInv, Types, TypeOK, RunningMatch, LaunchingSound, OnlyEnabled, BacklogIsQuiet, Active
<1>3. RisingTasks' /\ ScansEnabled' /\ PassSound' /\ WaveSound' /\ DownSound'
  BY <1>1 DEF LoopInv, RisingTasks, ScansEnabled, ScanOpen, PassSound, Reconciled, WaveSound,
              Undelivered, Active, DownSound
<1> QED BY <1>2, <1>3 DEF LoopInv

(* The initial state: a process that was never started.                    *)
LEMMA InitLoop ==
  ASSUME Init
  PROVE  LoopInv
<1>1. /\ wanted = [hec |-> TRUE, inputs |-> [i \in Input |-> "a"]] /\ config = wanted /\ candidate = wanted
      /\ work = [i \in Input |-> [phase |-> IF i \in Rising THEN "missing" ELSE "idle", revision |-> None]]
      /\ pc = "down" /\ reloading = FALSE /\ pass = NoPass /\ drained = FALSE
      /\ schedule = EmptySchedule /\ launching = <<>> /\ tasks = NoTasks
      /\ cancelled = FALSE /\ events = 0 /\ capacity \in Capacities /\ quarantined = {}
  BY DEF Init
<1>2. wanted \in Config
  BY <1>1 DEF Config, Setting
<1>3. /\ work \in [Input -> Work]
      /\ \A i \in Input : /\ work[i].phase \in IF i \in Rising THEN RisingPhase ELSE BatchPhase
                          /\ work[i].revision \in Revisions \cup {None}
      /\ \A i \in Rising : ~ScanOpen(i)
  BY <1>1, RuntimeAssumption DEF Work, RisingPhase, BatchPhase, ScanOpen
<1>4. Active = {} /\ Range(launching) = {} /\ IsInjective(launching) /\ launching \in Seq(Input)
  BY <1>1 DEF Active, NoTasks, Range, IsInjective
<1>5. schedule.running = {} /\ Cardinality({}) <= capacity
  BY <1>1, FS_EmptySet, RuntimeAssumption DEF EmptySchedule
<1>6. pass \in Pass /\ Range(pass.left) = {} /\ pass.needs = {} /\ pass.committed = {}
  BY <1>1 DEF NoPass, Pass, Range
<1>7. events \in 0 .. MaxEvents
  BY <1>1, RuntimeAssumption
<1>8. Types
  BY <1>1, <1>2, <1>3, <1>4, <1>6, <1>7, EmptyIsSchedule DEF Types, TypeOK, NoTasks
<1>9. RunningMatch /\ LaunchingSound /\ BacklogIsQuiet
  BY <1>1, <1>4, <1>5 DEF RunningMatch, LaunchingSound, BacklogIsQuiet
<1>10. OnlyEnabled
  BY <1>1, <1>5, EmptyIsSchedule DEF OnlyEnabled
<1>11. RisingTasks /\ ScansEnabled /\ PassSound /\ WaveSound /\ DownSound
  BY <1>1, <1>3 DEF RisingTasks, ScansEnabled, PassSound, WaveSound, DownSound, NoTasks
<1> QED BY <1>8, <1>9, <1>10, <1>11 DEF LoopInv

(* Every step keeps the invariant.                                         *)
LEMMA LoopStep ==
  ASSUME LoopInv, [Next]_vars
  PROVE  LoopInv'
<1>1. CASE Start
  BY <1>1, StartStep
<1>2. CASE StartRefused
  BY <1>2, SameStep DEF StartRefused
<1>3. CASE Crash
  BY <1>3, EndStep
<1>4. CASE Signal
  BY <1>4, SignalStep
<1>5. CASE EditConfiguration
  BY <1>5, EditStep
<1>6. CASE \E i \in Input : Elapse(i)
  BY <1>6, ElapseStep
<1>7. CASE \E i \in Input : WorkerSeals(i)
  BY <1>7, WorkerSealsStep
<1>8. CASE \E i \in Input : WorkerEmpty(i)
  BY <1>8, WorkerEmptyStep
<1>9. CASE \E i \in Input : WorkerFails(i)
  BY <1>9, WorkerFailsStep
<1>10. CASE FinishWorkers
  BY <1>10, FinishStep
<1>11. CASE EnterBacklog
  BY <1>11, EnterStep
<1>12. CASE ReconcileInput
  BY <1>12, ReconcileStep
<1>13. CASE PassDone
  BY <1>13, PassDoneStep
<1>14. CASE ReloadPassDone
  BY <1>14, ReloadPassStep
<1>15. CASE \E i \in Input : DrainCompact(i)
  BY <1>15, CompactStep
<1>16. CASE \E i \in Input : DrainDeliver(i)
  BY <1>16, DeliverStep
<1>17. CASE DrainDone
  BY <1>17, DrainDoneStep
<1>18. CASE Activate
  BY <1>18, ActivateStep
<1>19. CASE WorkersStopped
  BY <1>19, WorkersStoppedStep
<1>20. CASE Launch
  BY <1>20, LaunchStep
<1>21. CASE SpawnWorker
  BY <1>21, SpawnWorkerStep
<1>22. CASE SpawnDone
  BY <1>22, SpawnDoneStep
<1>23. CASE Sleep
  BY <1>23, SleepStep
<1>24. CASE Quit
  BY <1>24, QuitStep
<1>25. CASE QuitStopped
  BY <1>25, EndStep
<1>26. CASE SkipReload
  BY <1>26, SkipReloadStep
<1>27. CASE BeginReload
  BY <1>27, BeginReloadStep
<1>28. CASE ReconcileFails
  BY <1>28, ReconcileFailsStep
<1>29. CASE DrainFails
  BY <1>29, DrainFailsStep
<1>30. CASE SpawnFails
  BY <1>30, SpawnFailsStep
<1>31. CASE UNCHANGED vars
  BY <1>31, SameStep
<1> QED BY <1>1, <1>2, <1>3, <1>4, <1>5, <1>6, <1>7, <1>8, <1>9, <1>10, <1>11, <1>12, <1>13, <1>14, <1>15, <1>16, <1>17,
           <1>18, <1>19, <1>20, <1>21, <1>22, <1>23, <1>24, <1>25, <1>26, <1>27, <1>28, <1>29, <1>30, <1>31
       DEF Next, Loop, WorkerStep

(* LoopInv in every reachable state.                                       *)
LEMMA LoopAlways == Spec => []LoopInv
<1>1. Init => LoopInv
  BY InitLoop
<1>2. LoopInv /\ [Next]_vars => LoopInv'
  BY LoopStep
<1> QED BY <1>1, <1>2, PTL DEF Spec

(* What the invariant says between the stages of the loop.                 *)
LEMMA LoopMeans ==
  ASSUME LoopInv
  PROVE  LoopConsistent
<1>1. RunningHaveTasks
  <2>1. schedule.running = Active \cup Range(launching) /\ Cardinality(schedule.running) <= capacity
    BY DEF LoopInv, RunningMatch, LaunchingSound
  <2>2. schedule.running \subseteq Input /\ capacity \in Nat
    BY CapacityNat, ScheduleFacts DEF LoopInv, Types, TypeOK
  <2>3. Active \subseteq schedule.running
    BY <2>1
  <2>4. Cardinality(Active) <= capacity
    BY <2>1, <2>2, <2>3, FewerRun
  <2> QED BY <2>1, <2>4 DEF RunningHaveTasks
<1>2. Active \cup Range(launching) \subseteq Enabled(config)
  BY DEF LoopInv, RunningMatch, OnlyEnabled
<1>3. NoInputMissing /\ DisabledNeverRuns
  BY <1>2, EnabledConfigured DEF NoInputMissing, DisabledNeverRuns
<1> QED BY <1>1, <1>3 DEF LoopConsistent, LoopInv, Types

LEMMA LoopFences ==
  ASSUME LoopInv
  PROVE  RisingFenced
<1> SUFFICES ASSUME pc # "down", NEW i \in Rising,
                    work[i].phase \in {"started", "page", "last", "done", "ready"}
             PROVE  i \in Configured(config) /\ work[i].revision = Revision(config, i)
  BY DEF RisingFenced, Fenced
<1>1. i \in Input /\ work[i].phase \in RisingPhase
  BY RuntimeAssumption DEF LoopInv, Types, TypeOK
<1>2. ScanOpen(i)
  BY <1>1 DEF RisingPhase, ScanOpen
<1> QED BY <1>2, EnabledConfigured DEF LoopInv, ScansEnabled

(***************************************************************************)
(* For any inputs and any capacity, in every interleaving of the loop, its *)
(* workers, the clock, edits, signals and crashes: no stanza overlaps with *)
(* its own previous run, what is marked as running has a task or is about  *)
(* to get one, never more than the capacity, and nothing runs that is not  *)
(* configured and enabled (finish_workers, spawn_due_workers and           *)
(* stop_workers_for_reload).                                               *)
(***************************************************************************)
THEOREM LoopStaysConsistent == Spec => []LoopConsistent
<1>1. LoopInv => LoopConsistent
  BY LoopMeans
<1> QED BY <1>1, LoopAlways, PTL

(***************************************************************************)
(* The work of a rising input is fenced to the configuration the process   *)
(* runs on: preflight_startup, apply_reload and start_or_resume_page agree *)
(* on the revision, so ensure_input never refuses it while it runs.        *)
(***************************************************************************)
THEOREM RisingStaysFenced == Spec => []RisingFenced
<1>1. LoopInv => RisingFenced
  BY LoopFences
<1> QED BY <1>1, LoopAlways, PTL

(* A task starts only where spawn_due_workers starts it.                   *)
LEMMA TaskStarts ==
  ASSUME LoopInv, [Next]_vars, NEW k \in Input, tasks[k] = "none", tasks'[k] = "running"
  PROVE  Undelivered \subseteq Active
<1>1. CASE Start
  BY <1>1 DEF Start
<1>2. CASE StartRefused
  BY <1>2 DEF StartRefused, vars
<1>3. CASE Crash
  BY <1>3 DEF Crash, Down, NoTasks
<1>4. CASE Signal
  BY <1>4 DEF Signal
<1>5. CASE EditConfiguration
  BY <1>5 DEF EditConfiguration
<1>6. CASE \E i \in Input : Elapse(i)
  BY <1>6 DEF Elapse, LoopInv, Types, TypeOK
<1>7. CASE \E i \in Input : WorkerSeals(i)
  BY <1>7 DEF WorkerSeals, LoopInv, Types, TypeOK
<1>8. CASE \E i \in Input : WorkerEmpty(i)
  BY <1>8 DEF WorkerEmpty, LoopInv, Types, TypeOK
<1>9. CASE \E i \in Input : WorkerFails(i)
  BY <1>9 DEF WorkerFails, GiveUp, LoopInv, Types, TypeOK
<1>10. CASE FinishWorkers
  BY <1>10 DEF FinishWorkers
<1>11. CASE EnterBacklog
  BY <1>11 DEF EnterBacklog
<1>12. CASE ReconcileInput
  BY <1>12 DEF ReconcileInput
<1>13. CASE PassDone
  BY <1>13 DEF PassDone
<1>14. CASE ReloadPassDone
  BY <1>14 DEF ReloadPassDone
<1>15. CASE \E i \in Input : DrainCompact(i)
  BY <1>15 DEF DrainCompact, LoopInv, Types, TypeOK
<1>16. CASE \E i \in Input : DrainDeliver(i)
  BY <1>16 DEF DrainDeliver, LoopInv, Types, TypeOK
<1>17. CASE DrainDone
  BY <1>17 DEF DrainDone
<1>18. CASE Activate
  BY <1>18 DEF Activate
<1>19. CASE WorkersStopped
  BY <1>19 DEF WorkersStopped, NoTasks
<1>20. CASE Launch
  BY <1>20 DEF Launch
<1>21. CASE SpawnWorker
  BY <1>21 DEF LoopInv, WaveSound, SpawnWorker, At
<1>22. CASE SpawnDone
  BY <1>22 DEF SpawnDone
<1>23. CASE Sleep
  BY <1>23 DEF Sleep
<1>24. CASE Quit
  BY <1>24 DEF Quit
<1>25. CASE QuitStopped
  BY <1>25 DEF QuitStopped, Down, NoTasks
<1>26. CASE SkipReload
  BY <1>26 DEF SkipReload
<1>27. CASE BeginReload
  BY <1>27 DEF BeginReload
<1>28. CASE ReconcileFails
  BY <1>28 DEF ReconcileFails, GiveUp
<1>29. CASE DrainFails
  BY <1>29 DEF DrainFails, GiveUp
<1>30. CASE SpawnFails
  BY <1>30 DEF SpawnFails, GiveUp
<1>31. CASE UNCHANGED vars
  BY <1>31 DEF vars
<1> QED BY <1>1, <1>2, <1>3, <1>4, <1>5, <1>6, <1>7, <1>8, <1>9, <1>10, <1>11, <1>12, <1>13, <1>14, <1>15, <1>16, <1>17,
           <1>18, <1>19, <1>20, <1>21, <1>22, <1>23, <1>24, <1>25, <1>26, <1>27, <1>28, <1>29, <1>30, <1>31
       DEF Next, Loop, WorkerStep

(* The work of a batch input that waits for delivery: it was there before, or this step sealed *)
(* it under the configuration the process runs on.                                            *)
LEMMA ReadyComesFrom ==
  ASSUME LoopInv, [Next]_vars, pc # "down", pc' # "down", NEW k \in Input \ Rising, work'[k].phase = "ready"
  PROVE  /\ config' = config
         /\ work'[k] = work[k] \/ (k \in Configured(config) /\ work'[k].revision = Revision(config, k))
<1>0. work[k] \in Work /\ work \in [Input -> Work]
  BY DEF LoopInv, Types
<1>1. CASE Start
  BY <1>1 DEF Start, At
<1>2. CASE StartRefused
  BY <1>2 DEF StartRefused, vars, durable
<1>3. CASE Crash
  BY <1>3 DEF Crash, At, Down, Goto
<1>4. CASE Signal
  BY <1>0, <1>4 DEF Signal, durable
<1>5. CASE EditConfiguration
  BY <1>0, <1>5 DEF EditConfiguration, durable
<1>6. CASE \E i \in Input : Elapse(i)
  BY <1>0, <1>6 DEF Elapse, durable
<1>7. CASE \E i \in Input : WorkerSeals(i)
  <2>1. PICK i \in Input : WorkerSeals(i)
    BY <1>7
  <2>2. config' = config
    BY <2>1 DEF WorkerSeals
  <2>3. CASE i = k
    <3>1. i \in Configured(config)
      BY <2>1, EnabledConfigured DEF WorkerSeals, LoopInv, RunningMatch, OnlyEnabled, Active
    <3>2. work' = [work EXCEPT ![k] = [phase |-> "ready", revision |-> Revision(config, k)]]
      BY <2>1, <2>3 DEF WorkerSeals
    <3> QED BY <1>0, <2>2, <2>3, <3>1, <3>2
  <2>4. CASE i # k
    BY <1>0, <2>1, <2>2, <2>4 DEF WorkerSeals, SetPhase
  <2> QED BY <2>3, <2>4
<1>8. CASE \E i \in Input : WorkerEmpty(i)
  BY <1>0, <1>8 DEF WorkerEmpty, durable
<1>9. CASE \E i \in Input : WorkerFails(i)
  BY <1>0, <1>9 DEF WorkerFails, durable
<1>10. CASE FinishWorkers
  BY <1>0, <1>10 DEF FinishWorkers, durable
<1>11. CASE EnterBacklog
  BY <1>0, <1>11 DEF EnterBacklog, durable
<1>12. CASE ReconcileInput
  <2> DEFINE i == Head(pass.left)
             e == Ensured(work, config, i)
  <2>1. i \in Rising
    BY <1>12, PassTyped, TailFacts DEF ReconcileInput, LoopInv, Types
  <2>2. PICK x : work' = [e EXCEPT ![i].phase = x] /\ config' = config
    BY <1>12 DEF ReconcileInput
  <2> HIDE DEF i
  <2>3. e[k] = work[k] /\ DOMAIN e = Input
    BY <1>0, <2>1 DEF Ensured
  <2> HIDE DEF e
  <2> QED BY <2>1, <2>2, <2>3
<1>13. CASE PassDone
  BY <1>0, <1>13 DEF PassDone, durable
<1>14. CASE ReloadPassDone
  BY <1>0, <1>14 DEF ReloadPassDone, durable
<1>15. CASE \E i \in Input : DrainCompact(i)
  BY <1>0, <1>15 DEF DrainCompact, durable
<1>16. CASE \E i \in Input : DrainDeliver(i)
  <2>1. PICK i \in Input : DrainDeliver(i)
    BY <1>16
  <2>2. work' = [work EXCEPT ![i].phase = "delivered"] /\ config' = config
    BY <2>1 DEF DrainDeliver, SetPhase
  <2>3. CASE i = k
    <3>1. work'[k] = [work[k] EXCEPT !.phase = "delivered"]
      BY <1>0, <2>2, <2>3
    <3>2. work'[k].phase = "delivered"
      BY <1>0, <3>1 DEF Work
    <3> QED BY <3>2
  <2>4. CASE i # k
    BY <1>0, <2>2, <2>4
  <2> QED BY <2>3, <2>4
<1>17. CASE DrainDone
  BY <1>0, <1>17 DEF DrainDone, durable
<1>18. CASE Activate
  <2>1. work'[k] = work[k] /\ Batch({"ready", "delivered"}) = {}
    BY <1>18 DEF Activate, durable
  <2> QED BY <2>1 DEF Batch
<1>19. CASE WorkersStopped
  BY <1>0, <1>19 DEF WorkersStopped, durable
<1>20. CASE Launch
  BY <1>0, <1>20 DEF Launch, durable
<1>21. CASE SpawnWorker
  BY <1>0, <1>21 DEF SpawnWorker, durable
<1>22. CASE SpawnDone
  BY <1>0, <1>22 DEF SpawnDone, durable
<1>23. CASE Sleep
  BY <1>0, <1>23 DEF Sleep, durable
<1>24. CASE Quit
  BY <1>0, <1>24 DEF Quit, durable
<1>25. CASE QuitStopped
  BY <1>25 DEF QuitStopped, At, Down, Goto
<1>26. CASE SkipReload
  BY <1>0, <1>26 DEF SkipReload, durable
<1>27. CASE BeginReload
  BY <1>0, <1>27 DEF BeginReload, durable
<1>28. CASE ReconcileFails
  BY <1>0, <1>28 DEF ReconcileFails, durable
<1>29. CASE DrainFails
  BY <1>0, <1>29 DEF DrainFails, durable
<1>30. CASE SpawnFails
  BY <1>0, <1>30 DEF SpawnFails, durable
<1>31. CASE UNCHANGED vars
  BY <1>31 DEF vars, durable
<1> QED BY <1>1, <1>2, <1>3, <1>4, <1>5, <1>6, <1>7, <1>8, <1>9, <1>10, <1>11, <1>12, <1>13, <1>14, <1>15, <1>16, <1>17,
           <1>18, <1>19, <1>20, <1>21, <1>22, <1>23, <1>24, <1>25, <1>26, <1>27, <1>28, <1>29, <1>30, <1>31
       DEF Next, Loop, WorkerStep

(***************************************************************************)
(* Ready segments are replayed before more database work is scheduled: when *)
(* a worker starts, whatever waits for delivery was sealed by a worker of   *)
(* the same wave (collection_wave_may_start).                               *)
(***************************************************************************)
THEOREM WavesStartDrained == Spec => WaveStartsDrained
<1>1. LoopInv /\ [Next]_vars =>
        [\A i \in Input : (tasks[i] = "none" /\ tasks'[i] = "running") => Undelivered \subseteq Active]_vars
  BY TaskStarts
<1> QED BY <1>1, LoopAlways, PTL DEF Spec, WaveStartsDrained

(***************************************************************************)
(* A reload strands nothing: no step of a running process, apply_reload    *)
(* included, puts durable work under a configuration that refuses it.      *)
(***************************************************************************)
THEOREM ReloadsStrandNothing == Spec => ReloadStrandsNothing
<1>1. ASSUME LoopInv, LoopInv', [Next]_vars, pc # "down", pc' # "down", NEW i \in Input,
             Fenced(work, config, i)
      PROVE  Fenced(work', config', i)
  <2>1. CASE i \in Rising
    <3>1. RisingFenced'
      <4>1. \A k \in Rising : work'[k].phase \in {"started", "page", "last", "done"} =>
               k \in Enabled(config') /\ work'[k].revision = Revision(config', k)
        BY <1>1 DEF LoopInv, ScansEnabled, ScanOpen, Enabled, Revision
      <4>2. ASSUME NEW k \in Rising PROVE work'[k].phase # "ready"
        <5>1. k \in Input /\ work'[k].phase \in RisingPhase
          BY <1>1, RuntimeAssumption DEF LoopInv, Types, TypeOK
        <5> QED BY <5>1 DEF RisingPhase
      <4> QED BY <4>1, <4>2, EnabledConfigured DEF RisingFenced, Fenced
    <3> QED BY <1>1, <2>1, <3>1 DEF RisingFenced, Fenced, Configured, Revision
  <2>2. CASE i \notin Rising
    <3>1. work'[i].phase \in BatchPhase
      BY <1>1, <2>2 DEF LoopInv, Types, TypeOK
    <3>2. CASE work'[i].phase = "ready"
      <4>1. /\ config' = config
            /\ work'[i] = work[i] \/ (i \in Configured(config) /\ work'[i].revision = Revision(config, i))
        BY <1>1, <2>2, <3>2, ReadyComesFrom
      <4> QED BY <1>1, <4>1 DEF Fenced
    <3>3. CASE work'[i].phase # "ready"
      BY <3>1, <3>3 DEF Fenced, BatchPhase
    <3> QED BY <3>2, <3>3
  <2> QED BY <2>1, <2>2
<1>2. LoopInv /\ LoopInv' /\ [Next]_vars =>
        [(pc # "down" /\ pc' # "down") =>
           \A i \in Input : Fenced(work, config, i) => Fenced(work', config', i)]_vars
  BY <1>1
<1> QED BY <1>2, LoopAlways, PTL DEF Spec, ReloadStrandsNothing

=============================================================================
