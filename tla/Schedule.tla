------------------------------ MODULE Schedule ------------------------------
(***************************************************************************)
(* ScheduleState of crates/dbx-rs-daemon/src/runtime.rs, as operators.     *)
(*                                                                         *)
(* Instants are abstracted to what take_due tells apart: an entry of       *)
(* next_due lies in the future (waiting) or has come due (queue, oldest    *)
(* first).  An instant that passes appends its entry to the queue, so the  *)
(* queue is the order of the due times, ties in name order.                *)
(***************************************************************************)
EXTENDS Naturals, Sequences, FiniteSets, SequencesExt

CONSTANT Order   \* the inputs, in the order of their names

Input == Range(Order)
ASSUME OrderAssumption == Order \in Seq(Input) /\ IsInjective(Order)

IsSchedule(s) ==
  /\ s \in [waiting: SUBSET Input, queue: Seq(Input), running: SUBSET Input]
  /\ IsInjective(s.queue)
  /\ s.waiting \cap Range(s.queue) = {}

\* The inputs of q that are among names, in their order.
Only(q, names) ==
  LET upTo[n \in 0 .. Len(q)] ==
        IF n = 0 THEN <<>>
        ELSE IF q[n] \in names THEN Append(upTo[n - 1], q[n]) ELSE upTo[n - 1]
  IN upTo[Len(q)]
Entered(s) == s.waiting \cup Range(s.queue)

EmptySchedule == [waiting |-> {}, queue |-> <<>>, running |-> {}]

\* sync: entries of other inputs go, and a missing entry is due at once.
Sync(s, names) ==
  [waiting |-> s.waiting \cap names,
   queue |-> Only(s.queue, names) \o Only(Order, names \ Entered(s)),
   running |-> s.running]

\* Mutant: the due inputs in the order of their names.
DueByName(s, capacity) ==
  LET idle == Only(Order, Range(s.queue) \ s.running)
      free == capacity - Cardinality(s.running) IN
  SubSeq(idle, 1, IF free < Len(idle) THEN free ELSE Len(idle))

\* take_due: the oldest due inputs that are not running, as many as there are workers free.
Due(s, capacity) ==
  LET idle == Only(s.queue, Input \ s.running)
      free == capacity - Cardinality(s.running) IN
  SubSeq(idle, 1, IF free < Len(idle) THEN free ELSE Len(idle))

Run(s, names) == [s EXCEPT !.running = @ \cup names]

\* complete with an interval, without one, and with the interval zero.
CompleteLater(s, names) ==
  [waiting |-> s.waiting \cup names, queue |-> Only(s.queue, Input \ names),
   running |-> s.running \ names]
CompleteOut(s, names) ==
  [waiting |-> s.waiting \ names, queue |-> Only(s.queue, Input \ names),
   running |-> s.running \ names]
CompleteNow(s, names) ==
  [waiting |-> s.waiting \ names, queue |-> Only(s.queue, Input \ names) \o Only(Order, names),
   running |-> s.running \ names]

ReleaseAll(s) == [s EXCEPT !.running = {}]

\* The due time of an entry passes.
ComeDue(s, i) ==
  [waiting |-> s.waiting \ {i}, queue |-> Append(s.queue, i), running |-> s.running]

=============================================================================
