-------------------------- MODULE TimerQueueProofs --------------------------
(***************************************************************************)
(* TimerQueue for any number of timers and cancellations and any times:    *)
(* what an entry of the heap, a live timer and a queued addition know of   *)
(* each other, and from it the entries, the timerfd and the callbacks.     *)
(***************************************************************************)
EXTENDS TimerQueue, FiniteSetTheorems, SequenceTheorems, WellFoundedInduction, TLAPS

Entries(n) == [tp : Nat, seq : 1..n]

Functors(n) == [op : {"add", "cancel"}, seq : 1..n, tp : Nat]

TimerTypeOK ==
    /\ now \in Nat
    /\ created \in 0..MaxTimers
    /\ timers_ \subseteq 1..created
    /\ interval_ \in [SequenceNos -> Nat]
    /\ fired \in [SequenceNos -> Nat]
    /\ timer_queue_ \subseteq Entries(created) /\ batch \subseteq Entries(created)
    /\ tasks \in Seq(Functors(created))
    /\ cancelled \subseteq 1..created
    /\ lpc \in {"idle", "ready", "expired", "callback"}
    /\ lpc = "callback" => cur \in 1..created

EntriesOf(s) == {e \in timer_queue_ \cup batch : e.seq = s}

Running(s) == lpc = "callback" /\ cur = s

\* A live timer was not cancelled, and has one entry or runs; one that is not
\* repeated has not fired before.
LiveAt(s) ==
    /\ s \notin cancelled
    /\ Running(s) => EntriesOf(s) = {}
    /\ ~Running(s) =>
         /\ \E e : EntriesOf(s) = {e}
         /\ interval_[s] = 0 => fired[s] = 0

LiveOK == \A s \in timers_ : LiveAt(s)

\* Nothing is known yet of timer s but its interval.
Unknown(s) ==
    s \notin timers_ /\ s \notin cancelled /\ EntriesOf(s) = {} /\ fired[s] = 0 /\ ~Running(s)

\* The addition of timer s is in the queue q, and no addition is there twice.
HasAdd(q, s) == \E i \in 1..Len(q) : q[i].op = "add" /\ q[i].seq = s

OneAdd(q) ==
    \A i, j \in 1..Len(q) :
        q[i].op = "add" /\ q[j].op = "add" /\ q[i].seq = q[j].seq => i = j

\* A queued addition is the first and the only one of its timer.
AddsOK ==
    OneAdd(tasks) /\ \A s \in SequenceNos : HasAdd(tasks, s) => Unknown(s)

\* So is a timer that is not made yet.
FutureOK == \A s \in SequenceNos : s > created => fired[s] = 0

\* No entry is in the heap and among the expired ones, of which there are none
\* but while they are handled.
BatchOK ==
    /\ timer_queue_ \cap batch = {}
    /\ lpc \in {"idle", "ready"} => batch = {}

TimerInv ==
    /\ TimerTypeOK
    /\ LiveOK
    /\ AddsOK
    /\ FutureOK
    /\ BatchOK
    /\ OneShotFiresOnce

-----------------------------------------------------------------------------
(* Entries. *)

\* The least-number principle.
LEMMA LeastNat ==
  ASSUME NEW T, T \subseteq Nat, T # {}
  PROVE  \E n \in T : \A m \in T : n <= m
<1>1. PICK R : R = {p \in Nat \X Nat : p[1] < p[2]}
  OBVIOUS
<1>2. IsWellFoundedOn(R, Nat)
  BY <1>1, NatLessThanWellFounded DEF OpToRel
<1>3. PICK n \in T : \A m \in T : ~(<<m, n>> \in R)
  BY <1>2, WFMin
<1>4. \A m \in T : ~(m < n)
  BY <1>1, <1>3
<1> QED  BY <1>4

\* A heap that is not empty has a top: an entry with no other before it.
LEMMA TopIsFirst ==
  ASSUME NEW n \in Nat, NEW S, S \subseteq Entries(n), S # {}
  PROVE  Top(S) \in S /\ \A f \in S : Before(Top(S), f)
<1>1. \A e \in S : e.tp \in Nat /\ e.seq \in Nat
  BY DEF Entries
<1>2. PICK t \in {e.tp : e \in S} : \A u \in {e.tp : e \in S} : t <= u
  <2>1. {e.tp : e \in S} \subseteq Nat /\ {e.tp : e \in S} # {}
    BY <1>1
  <2> QED  BY <2>1, LeastNat
<1>3. PICK q \in {e.seq : e \in {f \in S : f.tp = t}} : \A u \in {e.seq : e \in {f \in S : f.tp = t}} : q <= u
  <2>1. /\ {e.seq : e \in {f \in S : f.tp = t}} \subseteq Nat
        /\ {e.seq : e \in {f \in S : f.tp = t}} # {}
    BY <1>1, <1>2
  <2> QED  BY <2>1, LeastNat
<1>4. PICK e \in S : e.tp = t /\ e.seq = q
  BY <1>3
<1>5. ASSUME NEW f \in S PROVE Before(e, f)
  <2>1. t <= f.tp
    BY <1>2
  <2>2. f.tp = t => q <= f.seq
    BY <1>3
  <2> QED  BY <1>1, <1>4, <2>1, <2>2 DEF Before
<1>6. \E x \in S : \A f \in S : Before(x, f)
  BY <1>5
<1> QED  BY <1>6, Zenon DEF Top

\* Its time is the least.
LEMMA TopTime ==
  ASSUME NEW n \in Nat, NEW S, S \subseteq Entries(n), S # {}
  PROVE  /\ Top(S).tp \in Nat
         /\ \A f \in S : Top(S).tp <= f.tp
         /\ \E f \in S : Top(S).tp = f.tp
<1>1. Top(S) \in S /\ \A f \in S : Before(Top(S), f)
  BY TopIsFirst
<1>2. \A e \in S : e.tp \in Nat
  BY DEF Entries
<1> QED  BY <1>1, <1>2 DEF Before

\* An entry of timer s in the heap.
LEMMA EntryAdded ==
  ASSUME NEW tp, NEW s, timer_queue_' = timer_queue_ \cup {Entry(tp, s)}, UNCHANGED batch
  PROVE  /\ EntriesOf(s)' = EntriesOf(s) \cup {Entry(tp, s)}
         /\ \A t : t # s => EntriesOf(t)' = EntriesOf(t)
<1>1. Entry(tp, s).seq = s
  BY DEF Entry
<1> QED  BY <1>1 DEF EntriesOf

\* A step that does not touch a live timer.
LEMMA LiveKept ==
  ASSUME NEW s, LiveAt(s), EntriesOf(s)' = EntriesOf(s), Running(s)' <=> Running(s),
         fired'[s] = fired[s], interval_'[s] = interval_[s], s \in cancelled' => s \in cancelled
  PROVE  LiveAt(s)'
  BY DEF LiveAt

\* A step that does not touch a timer that is to be added.
LEMMA UnknownKept ==
  ASSUME NEW s, Unknown(s), EntriesOf(s)' = EntriesOf(s), Running(s)' => Running(s),
         fired'[s] = fired[s], s \in timers_' => s \in timers_, s \in cancelled' => s \in cancelled
  PROVE  Unknown(s)'
  BY DEF Unknown

\* The functors stay functors when a timer is made.
LEMMA Growing ==
  ASSUME NEW n \in Nat
  PROVE  /\ Entries(n) \subseteq Entries(n + 1)
         /\ Functors(n) \subseteq Functors(n + 1)
         /\ Seq(Functors(n)) \subseteq Seq(Functors(n + 1))
<1>1. 1..n \subseteq 1..(n + 1)
  OBVIOUS
<1>2. Entries(n) \subseteq Entries(n + 1) /\ Functors(n) \subseteq Functors(n + 1)
  BY <1>1 DEF Entries, Functors
<1>3. ASSUME NEW A, NEW B, A \subseteq B PROVE Seq(A) \subseteq Seq(B)
  BY <1>3
<1> QED  BY <1>2, <1>3

\* The loop takes the first functor of its queue.
LEMMA TailFunctor ==
  ASSUME NEW n \in Nat, NEW q \in Seq(Functors(n)), q # << >>
  PROVE  /\ Tail(q) \in Seq(Functors(n)) /\ Head(q) \in Functors(n)
         /\ \A s : HasAdd(Tail(q), s) => HasAdd(q, s)
         /\ Head(q).op = "add" => HasAdd(q, Head(q).seq)
         /\ OneAdd(q) =>
              /\ OneAdd(Tail(q))
              /\ Head(q).op = "add" => ~HasAdd(Tail(q), Head(q).seq)
<1>1. /\ Tail(q) \in Seq(Functors(n)) /\ Head(q) \in Functors(n)
      /\ Head(q) = q[1] /\ 1 \in 1..Len(q)
  OBVIOUS
<1>2. \A i \in 1..Len(Tail(q)) :
        i \in Nat /\ i + 1 \in 1..Len(q) /\ i + 1 # 1 /\ Tail(q)[i] = q[i + 1]
  OBVIOUS
<1>3. \A s : HasAdd(Tail(q), s) => HasAdd(q, s)
  BY <1>2 DEF HasAdd
<1>4. Head(q).op = "add" => HasAdd(q, Head(q).seq)
  BY <1>1 DEF HasAdd
<1>5. ASSUME OneAdd(q) PROVE OneAdd(Tail(q))
  <2>1. ASSUME NEW i \in 1..Len(Tail(q)), NEW j \in 1..Len(Tail(q)),
               Tail(q)[i].op = "add", Tail(q)[j].op = "add", Tail(q)[i].seq = Tail(q)[j].seq
        PROVE  i = j
    <3>1. i + 1 = j + 1
      BY <1>2, <1>5, <2>1 DEF OneAdd
    <3> QED  BY <1>2, <3>1
  <2> QED  BY <2>1 DEF OneAdd
<1>6. ASSUME OneAdd(q), Head(q).op = "add" PROVE ~HasAdd(Tail(q), Head(q).seq)
  <2>1. ASSUME NEW i \in 1..Len(Tail(q)), Tail(q)[i].op = "add" PROVE Tail(q)[i].seq # Head(q).seq
    <3>1. i + 1 \in 1..Len(q) /\ i + 1 # 1 /\ Tail(q)[i] = q[i + 1]
      BY <1>2
    <3> QED  BY <1>1, <1>6, <2>1, <3>1 DEF OneAdd
  <2> QED  BY <2>1 DEF HasAdd
<1> QED  BY <1>1, <1>3, <1>4, <1>5, <1>6

\* A functor is queued.
LEMMA AppendFunctor ==
  ASSUME NEW n \in Nat, NEW q \in Seq(Functors(n)), NEW f \in Functors(n)
  PROVE  /\ Append(q, f) \in Seq(Functors(n))
         /\ \A s : HasAdd(Append(q, f), s) <=> HasAdd(q, s) \/ (f.op = "add" /\ f.seq = s)
         /\ OneAdd(q) /\ (f.op = "add" => ~HasAdd(q, f.seq)) => OneAdd(Append(q, f))
<1>1. /\ Append(q, f) \in Seq(Functors(n)) /\ Len(Append(q, f)) = Len(q) + 1 /\ Len(q) \in Nat
      /\ \A i \in 1..(Len(q) + 1) : Append(q, f)[i] = IF i <= Len(q) THEN q[i] ELSE f
  OBVIOUS
<1>2. /\ Len(q) + 1 \in 1..(Len(q) + 1) /\ Append(q, f)[Len(q) + 1] = f
      /\ \A i \in 1..Len(q) : i \in 1..(Len(q) + 1) /\ Append(q, f)[i] = q[i]
      /\ \A i \in 1..(Len(q) + 1) : i \in 1..Len(q) \/ i = Len(q) + 1
  BY <1>1
<1>3. \A s : HasAdd(Append(q, f), s) <=> HasAdd(q, s) \/ (f.op = "add" /\ f.seq = s)
  BY <1>1, <1>2 DEF HasAdd
<1>4. ASSUME OneAdd(q), f.op = "add" => ~HasAdd(q, f.seq) PROVE OneAdd(Append(q, f))
  <2>1. f.op = "add" => \A i \in 1..Len(q) : ~(q[i].op = "add" /\ q[i].seq = f.seq)
    BY <1>4 DEF HasAdd
  <2> QED  BY <1>1, <1>2, <1>4, <2>1 DEF OneAdd
<1> QED  BY <1>1, <1>3, <1>4

\* The timers whose addition is queued are made.
LEMMA AddedIsMade ==
  ASSUME TimerTypeOK, NEW s
  PROVE  /\ created \in Nat /\ tasks \in Seq(Functors(created))
         /\ Queued(s) <=> HasAdd(tasks, s)
         /\ HasAdd(tasks, s) => s \in 1..created /\ s \in SequenceNos
<1>1. created \in Nat /\ tasks \in Seq(Functors(created)) /\ created <= MaxTimers /\ MaxTimers \in Nat
  BY TimeAssumption DEF TimerTypeOK
<1>2. DOMAIN tasks = 1..Len(tasks) /\ \A i \in 1..Len(tasks) : tasks[i] \in Functors(created)
  BY <1>1
<1>3. Queued(s) <=> HasAdd(tasks, s)
  BY <1>2, Zenon DEF Queued, HasAdd
<1>4. HasAdd(tasks, s) => s \in 1..created
  BY <1>2 DEF HasAdd, Functors
<1> QED  BY <1>1, <1>3, <1>4 DEF SequenceNos

-----------------------------------------------------------------------------
(* The steps. *)

\* Steps of the clock and of the loop between the callbacks.
LEMMA TimerFrame ==
  ASSUME TimerInv, now' \in Nat,
         UNCHANGED <<timers_, interval_, timer_queue_, tasks, batch, cur, created, fired, cancelled>>,
         \/ lpc' = lpc
         \/ lpc # "callback" /\ lpc' \in {"idle", "ready", "expired"} /\ batch = {}
  PROVE  TimerInv'
<1> USE DEF TimerInv
<1>1. TimerTypeOK'
  BY DEF TimerTypeOK
<1>2. \A s : (Running(s)' <=> Running(s)) /\ EntriesOf(s)' = EntriesOf(s)
  BY DEF Running, EntriesOf
<1>3. LiveOK'
  BY <1>2, LiveKept DEF LiveOK
<1>4. AddsOK'
  BY <1>2, UnknownKept DEF AddsOK
<1>5. FutureOK' /\ OneShotFiresOnce'
  BY DEF FutureOK, OneShotFiresOnce
<1>6. BatchOK'
  BY DEF BatchOK
<1> QED  BY <1>1, <1>3, <1>4, <1>5, <1>6

\* Making a timer.
LEMMA CreateTimer ==
  ASSUME TimerInv, NEW d \in Intervals, Create(d)
  PROVE  \E n \in SequenceNos :
           /\ n = created + 1 /\ created' = n /\ created \in Nat /\ n \in 0..MaxTimers
           /\ interval_' \in [SequenceNos -> Nat]
           /\ \A s \in SequenceNos : s # n => interval_'[s] = interval_[s]
           /\ Unknown(n) /\ ~HasAdd(tasks, n)
           /\ \A s \in 1..created : s \in SequenceNos /\ s # n /\ s \in 1..n
           /\ Entries(created) \subseteq Entries(n) /\ tasks \in Seq(Functors(n))
<1> USE DEF TimerInv
<1>1. /\ created \in Nat /\ created < MaxTimers /\ created' = created + 1 /\ MaxTimers \in Nat
      /\ interval_ \in [SequenceNos -> Nat] /\ interval_' = [interval_ EXCEPT ![created + 1] = d]
      /\ d \in Nat
  BY TimeAssumption DEF Create, TimerTypeOK
<1>2. PICK n \in SequenceNos : n = created + 1
  BY <1>1 DEF SequenceNos
<1>3. /\ n \in Nat /\ n > created /\ n \in 0..MaxTimers
      /\ \A s \in 1..created : s \in SequenceNos /\ s # n /\ s \in 1..n
  BY <1>1, <1>2 DEF SequenceNos
<1>4. /\ interval_' \in [SequenceNos -> Nat]
      /\ \A s \in SequenceNos : s # n => interval_'[s] = interval_[s]
  BY <1>1, <1>2
<1>5. fired[n] = 0
  BY <1>3 DEF FutureOK
<1>6. n \notin timers_ /\ n \notin cancelled /\ ~Running(n)
  BY <1>3 DEF TimerTypeOK, Running
<1>7. EntriesOf(n) = {}
  <2>1. \A e \in timer_queue_ \cup batch : e.seq \in 1..created
    BY DEF TimerTypeOK, Entries
  <2> QED  BY <1>3, <2>1 DEF EntriesOf
<1>8. ~HasAdd(tasks, n) /\ tasks \in Seq(Functors(created))
  BY <1>3, AddedIsMade
<1>9. Entries(created) \subseteq Entries(n) /\ tasks \in Seq(Functors(n))
  BY <1>1, <1>2, <1>8, Growing
<1> QED  BY <1>1, <1>2, <1>3, <1>4, <1>5, <1>6, <1>7, <1>8, <1>9 DEF Unknown

\* A new timer does not change what is known of the others.
LEMMA NewInterval ==
  ASSUME TimerInv, NEW n \in SequenceNos, n = created + 1, created' = n, fired[n] = 0,
         \A s \in SequenceNos : s # n => interval_'[s] = interval_[s], UNCHANGED fired
  PROVE  FutureOK' /\ OneShotFiresOnce'
<1> USE DEF TimerInv
<1>1. created \in Nat
  BY DEF TimerTypeOK
<1>2. FutureOK'
  BY <1>1 DEF FutureOK, SequenceNos
<1>3. ASSUME NEW s \in SequenceNos, interval_'[s] = 0 PROVE fired'[s] <= 1
  <2>1. CASE s = n
    BY <2>1
  <2>2. CASE s # n
    BY <1>3, <2>2 DEF OneShotFiresOnce
  <2> QED  BY <2>1, <2>2
<1> QED  BY <1>2, <1>3 DEF OneShotFiresOnce

\* addTimer by another thread.
LEMMA ThreadAddStep ==
  ASSUME TimerInv, NEW tp \in TimePoints, NEW d \in Intervals, ThreadAdd(tp, d)
  PROVE  TimerInv'
<1> USE DEF TimerInv
<1>1. /\ Create(d)
      /\ tasks' = Append(tasks, [op |-> "add", seq |-> created + 1, tp |-> tp])
      /\ UNCHANGED <<now, timers_, timer_queue_, lpc, batch, cur, fired, cancelled>>
  BY DEF ThreadAdd
<1>2. PICK n \in SequenceNos :
        /\ n = created + 1 /\ created' = n /\ created \in Nat /\ n \in 0..MaxTimers
        /\ interval_' \in [SequenceNos -> Nat]
        /\ \A s \in SequenceNos : s # n => interval_'[s] = interval_[s]
        /\ Unknown(n) /\ ~HasAdd(tasks, n)
        /\ \A s \in 1..created : s \in SequenceNos /\ s # n /\ s \in 1..n
        /\ Entries(created) \subseteq Entries(n) /\ tasks \in Seq(Functors(n))
  BY <1>1, CreateTimer
<1>3. PICK f \in Functors(n) : f = [op |-> "add", seq |-> n, tp |-> tp]
  <2>1. n \in 1..n /\ tp \in Nat
    BY <1>2, TimeAssumption
  <2> QED  BY <2>1 DEF Functors
<1>4. f.op = "add" /\ f.seq = n /\ tasks' = Append(tasks, f)
  BY <1>1, <1>2, <1>3
<1>5. /\ tasks' \in Seq(Functors(n))
      /\ \A s : HasAdd(tasks', s) <=> HasAdd(tasks, s) \/ s = n
      /\ OneAdd(tasks) => OneAdd(tasks')
  <2>1. n \in Nat
    BY <1>2
  <2> QED  BY <1>2, <1>4, <2>1, AppendFunctor
<1>6. TimerTypeOK'
  <2>1. 1..created \subseteq 1..n
    BY <1>2
  <2> QED  BY <1>1, <1>2, <1>5, <2>1 DEF TimerTypeOK
<1>7. \A s : (Running(s)' <=> Running(s)) /\ EntriesOf(s)' = EntriesOf(s)
  BY <1>1 DEF Running, EntriesOf
<1>8. LiveOK'
  <2>1. ASSUME NEW s \in timers_ PROVE LiveAt(s)'
    <3>1. s \in SequenceNos /\ s # n /\ LiveAt(s)
      BY <1>2 DEF LiveOK, TimerTypeOK
    <3> QED  BY <1>1, <1>2, <1>7, <3>1, LiveKept
  <2> QED  BY <1>1, <2>1 DEF LiveOK
<1>9. AddsOK'
  <2>1. \A s : Unknown(s) => Unknown(s)'
    BY <1>1, <1>7, UnknownKept
  <2> QED  BY <1>2, <1>5, <2>1 DEF AddsOK
<1>10. FutureOK' /\ OneShotFiresOnce'
  BY <1>1, <1>2, NewInterval DEF Unknown
<1>11. BatchOK'
  BY <1>1 DEF BatchOK
<1> QED  BY <1>6, <1>8, <1>9, <1>10, <1>11

\* cancelTimer by another thread.
LEMMA ThreadCancelStep ==
  ASSUME TimerInv, NEW s \in SequenceNos, ThreadCancel(s)
  PROVE  TimerInv'
<1> USE DEF TimerInv
<1>1. /\ s <= created
      /\ tasks' = Append(tasks, [op |-> "cancel", seq |-> s, tp |-> 0])
      /\ UNCHANGED <<now, timers_, interval_, timer_queue_, lpc, batch, cur, created, fired, cancelled>>
  BY DEF ThreadCancel
<1>2. PICK f \in Functors(created) : f = [op |-> "cancel", seq |-> s, tp |-> 0]
  <2>1. s \in 1..created
    BY <1>1 DEF SequenceNos, TimerTypeOK
  <2> QED  BY <2>1 DEF Functors
<1>3. f.op = "cancel" /\ tasks' = Append(tasks, f)
  BY <1>1, <1>2
<1>4. tasks \in Seq(Functors(created)) /\ created \in Nat
  BY DEF TimerTypeOK
<1>5. /\ tasks' \in Seq(Functors(created))
      /\ \A t : HasAdd(tasks', t) <=> HasAdd(tasks, t)
      /\ OneAdd(tasks) => OneAdd(tasks')
  BY <1>3, <1>4, AppendFunctor
<1>6. TimerTypeOK'
  BY <1>1, <1>5 DEF TimerTypeOK
<1>7. \A t : (Running(t)' <=> Running(t)) /\ EntriesOf(t)' = EntriesOf(t)
  BY <1>1 DEF Running, EntriesOf
<1>8. LiveOK'
  BY <1>1, <1>7, LiveKept DEF LiveOK
<1>9. AddsOK'
  <2>1. \A t : Unknown(t) => Unknown(t)'
    BY <1>1, <1>7, UnknownKept
  <2> QED  BY <1>5, <2>1 DEF AddsOK
<1>10. FutureOK' /\ OneShotFiresOnce' /\ BatchOK'
  BY <1>1 DEF FutureOK, OneShotFiresOnce, BatchOK
<1> QED  BY <1>6, <1>8, <1>9, <1>10

\* The functor of addTimer, for a timer of which nothing is known.
LEMMA AddTimer ==
  ASSUME TimerInv, NEW tp \in Nat, NEW s, Unknown(s),
         timers_' = timers_ \cup {s},
         timer_queue_' = timer_queue_ \cup {Entry(tp, s)},
         UNCHANGED <<lpc, batch, cur, fired, cancelled>>,
         \A t \in timers_ : interval_'[t] = interval_[t]
  PROVE  /\ LiveOK' /\ BatchOK'
         /\ \A t : t # s /\ Unknown(t) => Unknown(t)'
<1> USE DEF TimerInv
<1>1. /\ EntriesOf(s)' = EntriesOf(s) \cup {Entry(tp, s)}
      /\ \A t : t # s => EntriesOf(t)' = EntriesOf(t)
  BY EntryAdded
<1>2. \A t : Running(t)' <=> Running(t)
  BY DEF Running
<1>3. LiveAt(s)'
  <2>1. EntriesOf(s)' = {Entry(tp, s)} /\ ~Running(s)' /\ s \notin cancelled' /\ fired'[s] = 0
    BY <1>1, <1>2 DEF Unknown
  <2>2. \E e : EntriesOf(s)' = {e}
    BY <2>1, Zenon
  <2> QED  BY <2>1, <2>2 DEF LiveAt
<1>4. ASSUME NEW t \in timers_ PROVE LiveAt(t)'
  <2>1. t # s /\ LiveAt(t)
    BY DEF Unknown, LiveOK
  <2> QED  BY <1>1, <1>2, <2>1, LiveKept
<1>5. LiveOK'
  BY <1>3, <1>4 DEF LiveOK
<1>6. BatchOK'
  <2>1. Entry(tp, s) \notin batch
    BY DEF Unknown, EntriesOf, Entry
  <2> QED  BY <2>1 DEF BatchOK
<1>7. ASSUME NEW t, t # s, Unknown(t) PROVE Unknown(t)'
  BY <1>1, <1>2, <1>7, UnknownKept
<1> QED  BY <1>5, <1>6, <1>7

\* addTimer in the loop thread.
LEMMA LoopAddStep ==
  ASSUME TimerInv, NEW tp \in TimePoints, NEW d \in Intervals, LoopAdd(tp, d)
  PROVE  TimerInv'
<1> USE DEF TimerInv
<1>1. /\ Create(d) /\ timers_' = timers_ \cup {created + 1}
      /\ timer_queue_' = timer_queue_ \cup {Entry(tp, created + 1)}
      /\ UNCHANGED <<now, tasks, lpc, batch, cur, fired, cancelled>>
  BY DEF LoopAdd, Add
<1>2. PICK n \in SequenceNos :
        /\ n = created + 1 /\ created' = n /\ created \in Nat /\ n \in 0..MaxTimers
        /\ interval_' \in [SequenceNos -> Nat]
        /\ \A s \in SequenceNos : s # n => interval_'[s] = interval_[s]
        /\ Unknown(n) /\ ~HasAdd(tasks, n)
        /\ \A s \in 1..created : s \in SequenceNos /\ s # n /\ s \in 1..n
        /\ Entries(created) \subseteq Entries(n) /\ tasks \in Seq(Functors(n))
  BY <1>1, CreateTimer
<1>3. /\ timers_' = timers_ \cup {n} /\ timer_queue_' = timer_queue_ \cup {Entry(tp, n)}
      /\ tp \in Nat
  BY <1>1, <1>2, TimeAssumption
<1>4. \A t \in timers_ : interval_'[t] = interval_[t]
  BY <1>2 DEF TimerTypeOK
<1>5. /\ LiveOK' /\ BatchOK'
      /\ \A t : t # n /\ Unknown(t) => Unknown(t)'
  BY <1>1, <1>2, <1>3, <1>4, AddTimer
<1>6. TimerTypeOK'
  <2>1. 1..created \subseteq 1..n /\ n \in 1..n
    BY <1>2
  <2>2. Entry(tp, n) \in Entries(n)
    BY <1>3, <2>1 DEF Entry, Entries
  <2> QED  BY <1>1, <1>2, <1>3, <2>1, <2>2 DEF TimerTypeOK
<1>7. AddsOK'
  BY <1>1, <1>2, <1>5 DEF AddsOK
<1>8. FutureOK' /\ OneShotFiresOnce'
  BY <1>1, <1>2, NewInterval DEF Unknown
<1> QED  BY <1>5, <1>6, <1>7, <1>8

\* The functor of cancelTimer, run at once or from the queue.
LEMMA CancelStep ==
  ASSUME TimerInv, NEW s \in 1..created, Cancel(s),
         UNCHANGED <<now, interval_, timer_queue_, lpc, batch, cur, created, fired>>,
         tasks' \in Seq(Functors(created)), OneAdd(tasks'),
         \A t : HasAdd(tasks', t) => HasAdd(tasks, t)
  PROVE  TimerInv'
<1> USE DEF TimerInv
<1>1. /\ timers_' = timers_ \ {s}
      /\ cancelled' \subseteq cancelled \cup {s}
      /\ HasAdd(tasks, s) => cancelled' = cancelled
  BY AddedIsMade DEF Cancel
<1>2. TimerTypeOK'
  BY <1>1 DEF TimerTypeOK
<1>3. \A t : (Running(t)' <=> Running(t)) /\ EntriesOf(t)' = EntriesOf(t)
  BY DEF Running, EntriesOf
<1>4. LiveOK'
  <2>1. ASSUME NEW t \in timers_, t # s PROVE LiveAt(t)'
    <3>1. LiveAt(t) /\ (t \in cancelled' => t \in cancelled)
      BY <1>1, <2>1 DEF LiveOK
    <3> QED  BY <1>3, <3>1, LiveKept
  <2> QED  BY <1>1, <2>1 DEF LiveOK
<1>5. AddsOK'
  <2>1. ASSUME NEW t \in SequenceNos, HasAdd(tasks, t) PROVE Unknown(t)'
    <3>1. Unknown(t) /\ (t \in cancelled' => t \in cancelled) /\ (t \in timers_' => t \in timers_)
      BY <1>1, <2>1 DEF AddsOK
    <3> QED  BY <1>3, <3>1, UnknownKept
  <2> QED  BY <2>1 DEF AddsOK
<1>6. FutureOK' /\ OneShotFiresOnce' /\ BatchOK'
  BY DEF FutureOK, OneShotFiresOnce, BatchOK
<1> QED  BY <1>2, <1>4, <1>5, <1>6

\* cancelTimer in the loop thread.
LEMMA LoopCancelStep ==
  ASSUME TimerInv, NEW s \in SequenceNos, LoopCancel(s)
  PROVE  TimerInv'
<1>1. /\ s <= created /\ Cancel(s)
      /\ UNCHANGED <<now, interval_, timer_queue_, tasks, lpc, batch, cur, created, fired>>
  BY DEF LoopCancel
<1>2. s \in 1..created /\ tasks \in Seq(Functors(created)) /\ OneAdd(tasks)
  BY <1>1 DEF TimerInv, TimerTypeOK, SequenceNos, AddsOK
<1> QED  BY <1>1, <1>2, CancelStep

\* The loop runs a functor.
LEMMA RunTaskStep ==
  ASSUME TimerInv, RunTask
  PROVE  TimerInv'
<1>1. /\ tasks # << >> /\ tasks' = Tail(tasks)
      /\ UNCHANGED <<now, interval_, created, lpc, batch, cur, fired>>
      /\ \/ /\ Head(tasks).op = "add" /\ Add(Head(tasks).tp, Head(tasks).seq)
            /\ UNCHANGED cancelled
         \/ /\ Head(tasks).op = "cancel" /\ Cancel(Head(tasks).seq)
            /\ UNCHANGED timer_queue_
  BY DEF RunTask, userVars
<1>2. created \in Nat /\ tasks \in Seq(Functors(created)) /\ OneAdd(tasks)
  BY DEF TimerInv, TimerTypeOK, AddsOK
<1>3. /\ tasks' \in Seq(Functors(created)) /\ Head(tasks) \in Functors(created)
      /\ \A s : HasAdd(tasks', s) => HasAdd(tasks, s)
      /\ Head(tasks).op = "add" => HasAdd(tasks, Head(tasks).seq)
      /\ OneAdd(tasks') /\ (Head(tasks).op = "add" => ~HasAdd(tasks', Head(tasks).seq))
  BY <1>1, <1>2, TailFunctor
<1>4. PICK s \in 1..created : s = Head(tasks).seq
  BY <1>3 DEF Functors
<1>5. PICK tp \in Nat : tp = Head(tasks).tp
  BY <1>3 DEF Functors
<1>6. CASE Head(tasks).op = "cancel"
  <2>1. Cancel(s) /\ UNCHANGED timer_queue_
    BY <1>1, <1>4, <1>6
  <2> QED  BY <1>1, <1>3, <2>1, CancelStep
<1>7. CASE Head(tasks).op = "add"
  <2> USE DEF TimerInv
  <2>1. /\ timers_' = timers_ \cup {s} /\ timer_queue_' = timer_queue_ \cup {Entry(tp, s)}
        /\ UNCHANGED cancelled
    BY <1>1, <1>4, <1>5, <1>7 DEF Add
  <2>2. s \in SequenceNos /\ Unknown(s)
    BY <1>3, <1>4, <1>7, AddedIsMade DEF AddsOK
  <2>3. /\ LiveOK' /\ BatchOK'
        /\ \A t : t # s /\ Unknown(t) => Unknown(t)'
    BY <1>1, <2>1, <2>2, AddTimer
  <2>4. TimerTypeOK'
    <3>1. Entry(tp, s) \in Entries(created)
      BY DEF Entry, Entries
    <3> QED  BY <1>1, <1>3, <2>1, <3>1 DEF TimerTypeOK
  <2>5. AddsOK'
    BY <1>3, <1>4, <1>7, <2>3 DEF AddsOK
  <2>6. FutureOK' /\ OneShotFiresOnce'
    BY <1>1 DEF FutureOK, OneShotFiresOnce
  <2> QED  BY <2>3, <2>4, <2>5, <2>6
<1> QED  BY <1>1, <1>6, <1>7

\* getExpiredTimers_ moves entries from the heap.
LEMMA GetExpiredStep ==
  ASSUME TimerInv, GetExpired
  PROVE  TimerInv'
<1> USE DEF TimerInv
<1>1. /\ lpc = "ready" /\ lpc' = "expired" /\ batch' = {e \in timer_queue_ : e.tp <= now}
      /\ timer_queue_' = {e \in timer_queue_ : e.tp > now}
      /\ UNCHANGED <<now, timers_, interval_, created, tasks, cur, fired, cancelled>>
  BY DEF GetExpired, userVars
<1>2. batch = {} /\ \A e \in timer_queue_ : e.tp \in Nat /\ now \in Nat
  BY <1>1 DEF BatchOK, TimerTypeOK, Entries
<1>3. timer_queue_' \cup batch' = timer_queue_ \cup batch /\ timer_queue_' \cap batch' = {}
  BY <1>1, <1>2
<1>4. \A s : (Running(s)' <=> Running(s)) /\ EntriesOf(s)' = EntriesOf(s)
  BY <1>1, <1>3 DEF Running, EntriesOf
<1>5. TimerTypeOK'
  BY <1>1 DEF TimerTypeOK
<1>6. LiveOK'
  BY <1>1, <1>4, LiveKept DEF LiveOK
<1>7. AddsOK'
  BY <1>1, <1>4, UnknownKept DEF AddsOK
<1>8. FutureOK' /\ OneShotFiresOnce'
  BY <1>1 DEF FutureOK, OneShotFiresOnce
<1>9. BatchOK'
  BY <1>1, <1>3 DEF BatchOK
<1> QED  BY <1>5, <1>6, <1>7, <1>8, <1>9

\* The next expired entry.
LEMMA FireStep ==
  ASSUME TimerInv, Fire
  PROVE  TimerInv'
<1> USE DEF TimerInv
<1>1. /\ lpc = "expired" /\ batch # {} /\ batch' = batch \ {Top(batch)}
      /\ UNCHANGED <<now, timers_, interval_, created, timer_queue_, tasks, cancelled>>
      /\ \/ /\ Top(batch).seq \in timers_ /\ lpc' = "callback" /\ cur' = Top(batch).seq
            /\ fired' = [fired EXCEPT ![Top(batch).seq] = @ + 1]
         \/ Top(batch).seq \notin timers_ /\ UNCHANGED <<lpc, cur, fired>>
  BY DEF Fire, userVars
<1>2. created \in Nat /\ batch \subseteq Entries(created)
  BY DEF TimerTypeOK
<1>3. PICK e \in batch : e = Top(batch)
  BY <1>1, <1>2, TopIsFirst
<1>4. PICK s \in 1..created : s = e.seq
  BY <1>2, <1>3 DEF Entries
<1>5. e \notin timer_queue_ /\ batch' = batch \ {e} /\ s \in SequenceNos
  BY <1>1, <1>2, <1>3, TimeAssumption DEF BatchOK, SequenceNos, TimerTypeOK
<1>6. /\ EntriesOf(s)' = EntriesOf(s) \ {e} /\ e \in EntriesOf(s)
      /\ \A t : t # s => EntriesOf(t)' = EntriesOf(t)
  BY <1>1, <1>3, <1>4, <1>5 DEF EntriesOf
<1>7. \A t : ~Running(t) /\ (Running(t)' => t = s)
  BY <1>1, <1>3, <1>4 DEF Running
<1>8. CASE s \in timers_
  <2>1. lpc' = "callback" /\ cur' = s /\ fired' = [fired EXCEPT ![s] = @ + 1]
    BY <1>1, <1>3, <1>4, <1>8
  <2>2. /\ fired' \in [SequenceNos -> Nat] /\ fired'[s] = fired[s] + 1
        /\ \A t \in SequenceNos : t # s => fired'[t] = fired[t]
    BY <1>5, <2>1 DEF TimerTypeOK
  <2>3. TimerTypeOK'
    BY <1>1, <1>5, <2>1, <2>2 DEF TimerTypeOK
  <2>4. LiveAt(s) /\ EntriesOf(s)' = {}
    BY <1>6, <1>7, <1>8 DEF LiveOK, LiveAt
  <2>5. LiveAt(s)'
    <3>1. Running(s)' /\ s \notin cancelled'
      BY <1>1, <2>1, <2>4 DEF Running, LiveAt
    <3> QED  BY <2>4, <3>1 DEF LiveAt
  <2>6. ASSUME NEW t \in timers_, t # s PROVE LiveAt(t)'
    <3>1. LiveAt(t) /\ t \in SequenceNos
      BY TimeAssumption DEF LiveOK, TimerTypeOK, SequenceNos
    <3> QED  BY <1>1, <1>6, <1>7, <2>2, <2>6, <3>1, LiveKept
  <2>7. LiveOK'
    BY <1>1, <2>5, <2>6 DEF LiveOK
  <2>8. AddsOK'
    <3>1. ASSUME NEW t \in SequenceNos, HasAdd(tasks, t) PROVE Unknown(t)'
      <4>1. Unknown(t) /\ t # s
        BY <1>6, <3>1 DEF AddsOK, Unknown
      <4> QED  BY <1>1, <1>6, <1>7, <2>2, <4>1, UnknownKept
    <3> QED  BY <1>1, <3>1 DEF AddsOK
  <2>9. FutureOK'
    <3>1. \A t \in SequenceNos : t > created => t # s
      BY <1>2, <1>4
    <3> QED  BY <1>1, <2>2, <3>1 DEF FutureOK
  <2>10. OneShotFiresOnce'
    <3>1. interval_[s] = 0 => fired[s] = 0
      BY <1>7, <2>4 DEF LiveAt
    <3> QED  BY <1>1, <2>2, <3>1 DEF OneShotFiresOnce
  <2>11. BatchOK'
    BY <1>1, <2>1 DEF BatchOK
  <2> QED  BY <2>3, <2>7, <2>8, <2>9, <2>10, <2>11
<1>9. CASE s \notin timers_
  <2>1. UNCHANGED <<lpc, cur, fired>>
    BY <1>1, <1>3, <1>4, <1>9
  <2>2. TimerTypeOK'
    BY <1>1, <2>1 DEF TimerTypeOK
  <2>3. \A t : Running(t)' <=> Running(t)
    BY <2>1 DEF Running
  <2>4. LiveOK'
    <3>1. ASSUME NEW t \in timers_ PROVE LiveAt(t)'
      <4>1. t # s /\ LiveAt(t)
        BY <1>9 DEF LiveOK
      <4> QED  BY <1>1, <1>6, <2>1, <2>3, <4>1, LiveKept
    <3> QED  BY <1>1, <3>1 DEF LiveOK
  <2>5. AddsOK'
    <3>1. ASSUME NEW t \in SequenceNos, HasAdd(tasks, t) PROVE Unknown(t)'
      <4>1. Unknown(t) /\ t # s
        BY <1>6, <3>1 DEF AddsOK, Unknown
      <4> QED  BY <1>1, <1>6, <2>1, <2>3, <4>1, UnknownKept
    <3> QED  BY <1>1, <3>1 DEF AddsOK
  <2>6. FutureOK' /\ OneShotFiresOnce' /\ BatchOK'
    BY <1>1, <2>1 DEF FutureOK, OneShotFiresOnce, BatchOK
  <2> QED  BY <2>2, <2>4, <2>5, <2>6
<1> QED  BY <1>8, <1>9

\* A callback returns.
LEMMA CallbackReturnsStep ==
  ASSUME TimerInv, CallbackReturns
  PROVE  TimerInv'
<1> USE DEF TimerInv
<1>1. /\ lpc = "callback" /\ lpc' = "expired"
      /\ UNCHANGED <<now, interval_, created, tasks, batch, fired, cancelled>>
      /\ \/ /\ cur \in timers_ /\ interval_[cur] > 0
            /\ timer_queue_' = timer_queue_ \cup {Entry(now + interval_[cur], cur)}
            /\ UNCHANGED timers_
         \/ /\ cur \in timers_ /\ interval_[cur] = 0
            /\ timers_' = timers_ \ {cur} /\ UNCHANGED timer_queue_
         \/ cur \notin timers_ /\ UNCHANGED <<timers_, timer_queue_>>
  BY DEF CallbackReturns, userVars
<1>2. PICK s \in 1..created : s = cur
  BY <1>1 DEF TimerTypeOK
<1>3. s \in SequenceNos /\ interval_[s] \in Nat /\ now \in Nat /\ created \in Nat
  BY TimeAssumption DEF TimerTypeOK, SequenceNos
<1>4. \A t : ~Running(t)' /\ (Running(t) <=> t = s)
  BY <1>1, <1>2 DEF Running
<1>5. ASSUME NEW t, t # s, EntriesOf(t)' = EntriesOf(t), t \in timers_' => t \in timers_
      PROVE  (LiveAt(t) => LiveAt(t)') /\ (Unknown(t) => Unknown(t)')
  BY <1>1, <1>4, <1>5, LiveKept, UnknownKept
<1>6. \A t \in SequenceNos : HasAdd(tasks, t) => Unknown(t) /\ t # s
  BY <1>4 DEF AddsOK, Unknown
<1>7. FutureOK' /\ OneShotFiresOnce'
  BY <1>1 DEF FutureOK, OneShotFiresOnce
<1>8. CASE s \in timers_ /\ interval_[s] > 0
  <2>1. timer_queue_' = timer_queue_ \cup {Entry(now + interval_[s], s)} /\ UNCHANGED timers_
    BY <1>1, <1>2, <1>8
  <2>2. PICK tp \in Nat : tp = now + interval_[s]
    BY <1>3
  <2>3. timer_queue_' = timer_queue_ \cup {Entry(tp, s)} /\ Entry(tp, s) \in Entries(created)
    BY <2>1, <2>2 DEF Entry, Entries
  <2>4. /\ EntriesOf(s)' = EntriesOf(s) \cup {Entry(tp, s)}
        /\ \A t : t # s => EntriesOf(t)' = EntriesOf(t)
    BY <1>1, <2>3, EntryAdded
  <2>5. LiveAt(s) /\ EntriesOf(s) = {}
    BY <1>4, <1>8 DEF LiveOK, LiveAt
  <2>6. LiveAt(s)'
    <3>1. \E e : EntriesOf(s)' = {e}
      BY <2>4, <2>5
    <3>2. s \notin cancelled' /\ interval_'[s] # 0
      BY <1>1, <1>3, <1>8, <2>5 DEF LiveAt
    <3> QED  BY <1>4, <3>1, <3>2 DEF LiveAt
  <2>7. LiveOK'
    BY <1>5, <2>1, <2>4, <2>6 DEF LiveOK
  <2>8. AddsOK'
    BY <1>1, <1>5, <1>6, <2>1, <2>4 DEF AddsOK
  <2>9. TimerTypeOK'
    BY <1>1, <2>1, <2>3 DEF TimerTypeOK
  <2>10. BatchOK'
    <3>1. Entry(tp, s) \notin batch
      BY <2>5 DEF EntriesOf, Entry
    <3> QED  BY <1>1, <2>3, <3>1 DEF BatchOK
  <2> QED  BY <1>7, <2>7, <2>8, <2>9, <2>10
<1>9. CASE ~(s \in timers_ /\ interval_[s] > 0)
  <2>1. UNCHANGED timer_queue_ /\ timers_' = timers_ \ {s}
    BY <1>1, <1>2, <1>3, <1>9
  <2>2. \A t : EntriesOf(t)' = EntriesOf(t)
    BY <1>1, <2>1 DEF EntriesOf
  <2>3. LiveOK'
    BY <1>5, <2>1, <2>2 DEF LiveOK
  <2>4. AddsOK'
    BY <1>1, <1>5, <1>6, <2>1, <2>2 DEF AddsOK
  <2>5. TimerTypeOK' /\ BatchOK'
    BY <1>1, <2>1 DEF TimerTypeOK, BatchOK
  <2> QED  BY <1>7, <2>3, <2>4, <2>5
<1> QED  BY <1>8, <1>9


\* TimerInv is inductive.
LEMMA TimerInvariant == Spec => []TimerInv
<1>1. Init => TimerInv
  <2> SUFFICES ASSUME Init PROVE TimerInv
    OBVIOUS
  <2>1. Len(tasks) = 0 /\ tasks \in Seq(Functors(created)) /\ 1..Len(tasks) = {}
    BY DEF Init
  <2>2. TimerTypeOK
    BY <2>1, TimeAssumption DEF Init, TimerTypeOK
  <2>3. AddsOK
    BY <2>1 DEF AddsOK, OneAdd, HasAdd
  <2>4. LiveOK /\ FutureOK /\ BatchOK /\ OneShotFiresOnce
    BY DEF Init, LiveOK, FutureOK, BatchOK, OneShotFiresOnce
  <2> QED  BY <2>2, <2>3, <2>4 DEF TimerInv
<1>2. TimerInv /\ [Next]_vars => TimerInv'
  <2> SUFFICES ASSUME TimerInv, [Next]_vars PROVE TimerInv'
    OBVIOUS
  <2>1. now \in Nat /\ (lpc \in {"idle", "ready"} => batch = {})
    BY DEF TimerInv, TimerTypeOK, BatchOK
  <2>2. CASE RunTask
    BY <2>2, RunTaskStep
  <2>3. CASE PollTimerFd
    BY <2>1, <2>3, TimerFrame DEF PollTimerFd, userVars
  <2>4. CASE ReadFails
    BY <2>1, <2>4, TimerFrame DEF ReadFails, userVars
  <2>5. CASE GetExpired
    BY <2>5, GetExpiredStep
  <2>6. CASE Fire
    BY <2>6, FireStep
  <2>7. CASE CallbackReturns
    BY <2>7, CallbackReturnsStep
  <2>8. CASE BatchEnds
    BY <2>1, <2>8, TimerFrame DEF BatchEnds, userVars
  <2>9. CASE Tick
    BY <2>1, <2>9, TimerFrame DEF Tick, userVars
  <2>10. ASSUME NEW tp \in TimePoints, NEW d \in Intervals, ThreadAdd(tp, d) \/ LoopAdd(tp, d)
         PROVE  TimerInv'
    BY <2>10, ThreadAddStep, LoopAddStep
  <2>11. ASSUME NEW s \in SequenceNos, ThreadCancel(s) \/ LoopCancel(s) PROVE TimerInv'
    BY <2>11, ThreadCancelStep, LoopCancelStep
  <2>12. CASE UNCHANGED vars
    BY <2>1, <2>12, TimerFrame DEF vars
  <2> QED  BY <2>2, <2>3, <2>4, <2>5, <2>6, <2>7, <2>8, <2>9, <2>10, <2>11, <2>12 DEF Next, LoopStep
<1> QED  BY <1>1, <1>2, PTL DEF Spec

-----------------------------------------------------------------------------
(* What it shows. *)

\* A live timer has exactly one entry, and none while its callback runs,
\* whatever the callbacks and the other threads add and cancel.
THEOREM TimersHaveOneEntry == Spec => []OneEntryPerTimer
<1>1. TimerInv => OneEntryPerTimer
  <2> SUFFICES ASSUME TimerInv, NEW s \in timers_
               PROVE  Cardinality(EntriesOf(s)) = IF Running(s) THEN 0 ELSE 1
    BY DEF OneEntryPerTimer, EntriesOf, Running
  <2>1. LiveAt(s)
    BY DEF TimerInv, LiveOK
  <2>2. CASE Running(s)
    BY <2>1, <2>2, FS_EmptySet DEF LiveAt
  <2>3. CASE ~Running(s)
    <3>1. PICK e : EntriesOf(s) = {e}
      BY <2>1, <2>3 DEF LiveAt
    <3> QED  BY <2>3, <3>1, FS_Singleton
  <2> QED  BY <2>2, <2>3
<1> QED  BY <1>1, TimerInvariant, PTL

\* A timer that is not repeated fires once.
THEOREM OneShotTimersFireOnce == Spec => []OneShotFiresOnce
<1>1. TimerInv => OneShotFiresOnce
  BY DEF TimerInv
<1> QED  BY <1>1, TimerInvariant, PTL

\* No callback begins after the cancellation of its timer has taken effect.
THEOREM CancelledNeverFires == Spec => CancelIsFinal
<1>1. ASSUME TimerInv, [Next]_vars, NEW s \in SequenceNos, fired'[s] > fired[s]
      PROVE  s \notin cancelled
  <2>1. fired \in [SequenceNos -> Nat]
    BY <1>1 DEF TimerInv, TimerTypeOK
  <2>2. fired' # fired
    BY <1>1, <2>1
  <2>3. Fire
    <3>1. CASE LoopStep
      BY <2>2, <3>1 DEF LoopStep, RunTask, PollTimerFd, ReadFails, GetExpired, CallbackReturns, BatchEnds
    <3>2. CASE UNCHANGED vars
      BY <2>2, <3>2 DEF vars
    <3>3. CASE Tick
      BY <2>2, <3>3 DEF Tick
    <3>4. ~(\E tp \in TimePoints, d \in Intervals : ThreadAdd(tp, d) \/ LoopAdd(tp, d))
      BY <2>2 DEF ThreadAdd, LoopAdd
    <3>5. ~(\E t \in SequenceNos : ThreadCancel(t) \/ LoopCancel(t))
      BY <2>2 DEF ThreadCancel, LoopCancel
    <3> QED  BY <1>1, <3>1, <3>2, <3>3, <3>4, <3>5 DEF Next
  <2>4. PICK t \in timers_ : fired' = [fired EXCEPT ![t] = @ + 1]
    BY <2>2, <2>3 DEF Fire
  <2>5. t = s
    BY <1>1, <2>1, <2>4
  <2> QED  BY <1>1, <2>5 DEF TimerInv, LiveOK, LiveAt
<1>2. TimerInv /\ [Next]_vars =>
        [\A s \in SequenceNos : fired'[s] > fired[s] => s \notin cancelled]_vars
  BY <1>1
<1> QED  BY <1>2, TimerInvariant, PTL DEF Spec, CancelIsFinal

\* addTimer keeps the timerfd armed for the earliest entry: when the new entry
\* is not as early as the top, the top is the old one.
LEMMA AddArms ==
  ASSUME NEW n \in Nat, NEW tp \in Nat, NEW s \in 1..n, timer_queue_ \subseteq Entries(n),
         Add(tp, s), timer_queue_ # {} => armed = Top(timer_queue_).tp
  PROVE  armed' = Top(timer_queue_').tp
<1>1. /\ timer_queue_' = timer_queue_ \cup {Entry(tp, s)}
      /\ IF tp = Top(timer_queue_').tp
           THEN armed' = IF timer_queue_' = {} THEN 0 ELSE Top(timer_queue_').tp
           ELSE armed' = armed
  BY DEF Add, ResetTimerFd
<1>2. PICK q : q = timer_queue_'
  OBVIOUS
<1>3. Entry(tp, s).tp = tp /\ Entry(tp, s) \in Entries(n)
  BY DEF Entry, Entries
<1>4. q \subseteq Entries(n) /\ q # {} /\ q = timer_queue_ \cup {Entry(tp, s)}
  BY <1>1, <1>2, <1>3
<1>5. Top(q).tp \in Nat /\ (\A f \in q : Top(q).tp <= f.tp) /\ \E f \in q : Top(q).tp = f.tp
  BY <1>4, TopTime
<1>6. CASE tp = Top(q).tp
  BY <1>1, <1>2, <1>4, <1>6
<1>7. CASE tp # Top(q).tp
  <2>1. PICK f \in timer_queue_ : Top(q).tp = f.tp
    BY <1>3, <1>4, <1>5, <1>7
  <2>2. /\ Top(timer_queue_).tp \in Nat /\ (\A g \in timer_queue_ : Top(timer_queue_).tp <= g.tp)
        /\ \E g \in timer_queue_ : Top(timer_queue_).tp = g.tp
    BY <2>1, TopTime
  <2>3. Top(timer_queue_).tp = Top(q).tp
    BY <1>4, <1>5, <2>1, <2>2
  <2> QED  BY <1>1, <1>2, <1>7, <2>1, <2>3
<1> QED  BY <1>6, <1>7

\* Whenever no expired timers are being handled, the timerfd is armed for the
\* earliest entry, over failed reads, additions by callbacks and cancellations.
THEOREM TimerFdIsArmed == Spec => []ArmedForEarliest
<1>1. Init => ArmedForEarliest
  BY DEF Init, ArmedForEarliest
<1>2. ArmedForEarliest /\ TimerInv /\ [Next]_vars => ArmedForEarliest'
  <2> SUFFICES ASSUME ArmedForEarliest, TimerInv, [Next]_vars,
                      lpc' \in {"idle", "ready"}, timer_queue_' # {}
               PROVE  armed' = Top(timer_queue_').tp
    BY DEF ArmedForEarliest
  <2>1. /\ created \in Nat /\ timer_queue_ \subseteq Entries(created)
        /\ tasks \in Seq(Functors(created))
        /\ lpc = lpc' => (timer_queue_ # {} => armed = Top(timer_queue_).tp)
    BY DEF TimerInv, TimerTypeOK, ArmedForEarliest
  <2>2. CASE RunTask
    <3>1. /\ tasks # << >> /\ lpc' = lpc
          /\ \/ Head(tasks).op = "add" /\ Add(Head(tasks).tp, Head(tasks).seq)
             \/ Head(tasks).op = "cancel" /\ UNCHANGED <<timer_queue_, armed>>
      BY <2>2 DEF RunTask
    <3>2. Head(tasks).tp \in Nat /\ Head(tasks).seq \in 1..created
      <4>1. Head(tasks) \in Functors(created)
        BY <2>1, <3>1, TailFunctor
      <4> QED  BY <4>1 DEF Functors
    <3> QED  BY <2>1, <3>1, <3>2, AddArms
  <2>3. CASE PollTimerFd
    BY <2>3 DEF PollTimerFd, ArmedForEarliest
  <2>4. CASE ReadFails
    BY <2>4 DEF ReadFails, ArmedForEarliest
  <2>5. CASE GetExpired \/ Fire \/ CallbackReturns
    BY <2>5 DEF GetExpired, Fire, CallbackReturns
  <2>6. CASE BatchEnds
    BY <2>6 DEF BatchEnds, ResetTimerFd
  <2>7. ASSUME NEW tp \in TimePoints, NEW d \in Intervals, LoopAdd(tp, d)
        PROVE  armed' = Top(timer_queue_').tp
    <3>1. Add(tp, created + 1) /\ lpc' = lpc
      BY <2>7 DEF LoopAdd
    <3>2. tp \in Nat /\ created + 1 \in Nat /\ created + 1 \in 1..(created + 1)
      BY <2>1, TimeAssumption
    <3>3. timer_queue_ \subseteq Entries(created + 1)
      BY <2>1, Growing
    <3> QED  BY <2>1, <3>1, <3>2, <3>3, AddArms
  <2>8. CASE UNCHANGED <<timer_queue_, armed, lpc>>
    BY <2>1, <2>8
  <2>9. ASSUME NEW tp \in TimePoints, NEW d \in Intervals, ThreadAdd(tp, d)
        PROVE  UNCHANGED <<timer_queue_, armed, lpc>>
    BY <2>9 DEF ThreadAdd
  <2>10. ASSUME NEW s \in SequenceNos, ThreadCancel(s) \/ LoopCancel(s)
         PROVE  UNCHANGED <<timer_queue_, armed, lpc>>
    BY <2>10 DEF ThreadCancel, LoopCancel
  <2>11. Tick \/ UNCHANGED vars => UNCHANGED <<timer_queue_, armed, lpc>>
    BY DEF Tick, vars
  <2> QED  BY <2>2, <2>3, <2>4, <2>5, <2>6, <2>7, <2>8, <2>9, <2>10, <2>11 DEF Next, LoopStep
<1> QED  BY <1>1, <1>2, TimerInvariant, PTL DEF Spec
=============================================================================
