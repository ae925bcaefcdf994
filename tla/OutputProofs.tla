---------------------------- MODULE OutputProofs ----------------------------
(***************************************************************************)
(* What the Hub has of the output of an operation when it learns that the  *)
(* operation has succeeded: if nothing failed, all of it.                  *)
(***************************************************************************)
EXTENDS HubLinkProofs

-----------------------------------------------------------------------------
(* The output in a queue, without gaps. *)

Success(f, op) == f.type = "agent_op_status" /\ f.op = op /\ f.status = "succeeded"

\* How much of the output of op there is before each place of the queue q, and at its end: n
\* in all, of which o is at the Hub.
Marked(q, o, op, n, mark) ==
    /\ mark \in [1..(Len(q) + 1) -> Nat]
    /\ mark[1] = Len(o)
    /\ mark[Len(q) + 1] = n
    /\ \A j \in 1..Len(q) :
          IF Content(q[j], op)
          THEN q[j].from = mark[j] /\ q[j].to = mark[j + 1]
          ELSE mark[j + 1] = mark[j]

\* From the frame that tells of the success on there is all of it; told: the Hub knows.
Complete(q, op, total, told, mark) ==
    /\ \A j \in 1..Len(q) : Success(q[j], op) => \A k \in j..(Len(q) + 1) : mark[k] = total
    /\ told => \A k \in 1..(Len(q) + 1) : mark[k] = total

Whole(q, o, op, n, total, told) ==
    /\ \A i \in 1..Len(o) : o[i] = i
    /\ \E mark : Marked(q, o, op, n, mark) /\ Complete(q, op, total, told, mark)

Untold(q, op) == \A j \in 1..Len(q) : ~Success(q[j], op)

\* A frame more that has none of it, and does not tell of the success too early.
LEMMA WholeQuietly ==
    ASSUME NEW q, IsQueue(q), NEW o, NEW op, NEW n \in Nat, NEW total, NEW told,
           NEW e, ~Content(e, op), Success(e, op) => n = total,
           Whole(q, o, op, n, total, told)
    PROVE  Whole(Append(q, e), o, op, n, total, told)
<1> DEFINE r == Append(q, e)
<1>1. Len(q) \in Nat /\ Len(r) = Len(q) + 1 /\ (\A i \in 1..Len(q) : r[i] = q[i])
      /\ r[Len(q) + 1] = e
  BY AppendFacts
<1> HIDE DEF r
<1>2. PICK mark : Marked(q, o, op, n, mark) /\ Complete(q, op, total, told, mark)
  BY DEF Whole
<1> DEFINE new == [k \in 1..(Len(r) + 1) |-> IF k \in 1..(Len(q) + 1) THEN mark[k] ELSE n]
<1>3. /\ new \in [1..(Len(r) + 1) -> Nat]
      /\ \A k \in 1..(Len(q) + 1) : k \in 1..(Len(r) + 1) /\ new[k] = mark[k]
      /\ new[Len(r) + 1] = n
  <2>1. /\ \A k \in 1..(Len(q) + 1) : k \in 1..(Len(r) + 1)
        /\ Len(r) + 1 \notin 1..(Len(q) + 1)
        /\ Len(r) + 1 \in 1..(Len(r) + 1)
    BY <1>1
  <2>2. mark \in [1..(Len(q) + 1) -> Nat]
    BY <1>2 DEF Marked
  <2> QED
    BY <2>1, <2>2
<1>4. \A k \in 1..(Len(r) + 1) : k \in 1..(Len(q) + 1) \/ k = Len(r) + 1
  BY <1>1
<1> HIDE DEF new
<1>5. mark[1] = Len(o) /\ mark[Len(q) + 1] = n
  BY <1>2 DEF Marked
<1>6. 1 \in 1..(Len(q) + 1) /\ Len(q) + 1 \in 1..(Len(q) + 1)
  BY <1>1
<1>7. Marked(r, o, op, n, new)
  <2>1. ASSUME NEW j \in 1..Len(r)
        PROVE  IF Content(r[j], op)
               THEN r[j].from = new[j] /\ r[j].to = new[j + 1]
               ELSE new[j + 1] = new[j]
    <3>1. CASE j \in 1..Len(q)
      <4>1. j \in 1..(Len(q) + 1) /\ j + 1 \in 1..(Len(q) + 1)
        BY <1>1, <3>1
      <4> QED
        BY <1>1, <1>2, <1>3, <3>1, <4>1 DEF Marked
    <3>2. CASE j \notin 1..Len(q)
      <4>1. j = Len(q) + 1 /\ j + 1 = Len(r) + 1
        BY <1>1, <3>2
      <4> QED
        BY <1>1, <1>3, <1>5, <1>6, <4>1
    <3> QED
      BY <3>1, <3>2
  <2>2. new[1] = Len(o)
    BY <1>3, <1>5, <1>6
  <2> QED
    BY <1>3, <2>1, <2>2 DEF Marked
<1>8. Complete(r, op, total, told, new)
  <2>1. ASSUME NEW j \in 1..Len(r), Success(r[j], op), NEW k \in j..(Len(r) + 1)
        PROVE  new[k] = total
    <3>1. CASE j \in 1..Len(q)
      <4>1. \A i \in j..(Len(q) + 1) : mark[i] = total
        BY <1>1, <1>2, <2>1, <3>1 DEF Complete
      <4>2. Len(q) + 1 \in j..(Len(q) + 1)
        BY <1>1, <3>1
      <4>3. (k \in j..(Len(q) + 1) /\ k \in 1..(Len(q) + 1)) \/ k = Len(r) + 1
        BY <1>1, <2>1, <3>1
      <4> QED
        BY <1>3, <1>5, <4>1, <4>2, <4>3
    <3>2. CASE j \notin 1..Len(q)
      <4>1. j = Len(q) + 1 /\ (k = Len(q) + 1 \/ k = Len(r) + 1)
        BY <1>1, <2>1, <3>2
      <4>2. n = total
        BY <1>1, <2>1, <4>1
      <4> QED
        BY <1>3, <1>5, <1>6, <4>1, <4>2
    <3> QED
      BY <3>1, <3>2
  <2>2. ASSUME told, NEW k \in 1..(Len(r) + 1) PROVE new[k] = total
    <3>1. \A i \in 1..(Len(q) + 1) : mark[i] = total
      BY <1>2, <2>2 DEF Complete
    <3> QED
      BY <1>3, <1>4, <1>5, <1>6, <3>1
  <2> QED
    BY <2>1, <2>2 DEF Complete
<1> QED
  BY <1>7, <1>8 DEF Whole, r

\* A frame more with what comes next, while the success is not told.
LEMMA WholeMore ==
    ASSUME NEW q, IsQueue(q), NEW o, NEW op, NEW n \in Nat, NEW m \in Nat, NEW total,
           NEW told, NEW e, Content(e, op), e.from = n, e.to = m, Untold(q, op), ~told,
           Whole(q, o, op, n, total, told)
    PROVE  Whole(Append(q, e), o, op, m, total, told)
<1> DEFINE r == Append(q, e)
<1>1. Len(q) \in Nat /\ Len(r) = Len(q) + 1 /\ (\A i \in 1..Len(q) : r[i] = q[i])
      /\ r[Len(q) + 1] = e
  BY AppendFacts
<1> HIDE DEF r
<1>2. PICK mark : Marked(q, o, op, n, mark)
  BY DEF Whole
<1> DEFINE new == [k \in 1..(Len(r) + 1) |-> IF k \in 1..(Len(q) + 1) THEN mark[k] ELSE m]
<1>3. /\ new \in [1..(Len(r) + 1) -> Nat]
      /\ \A k \in 1..(Len(q) + 1) : k \in 1..(Len(r) + 1) /\ new[k] = mark[k]
      /\ new[Len(r) + 1] = m
  <2>1. /\ \A k \in 1..(Len(q) + 1) : k \in 1..(Len(r) + 1)
        /\ Len(r) + 1 \notin 1..(Len(q) + 1)
        /\ Len(r) + 1 \in 1..(Len(r) + 1)
    BY <1>1
  <2>2. mark \in [1..(Len(q) + 1) -> Nat]
    BY <1>2 DEF Marked
  <2> QED
    BY <2>1, <2>2
<1> HIDE DEF new
<1>5. mark[1] = Len(o) /\ mark[Len(q) + 1] = n
  BY <1>2 DEF Marked
<1>6. 1 \in 1..(Len(q) + 1) /\ Len(q) + 1 \in 1..(Len(q) + 1)
  BY <1>1
<1>7. Marked(r, o, op, m, new)
  <2>1. ASSUME NEW j \in 1..Len(r)
        PROVE  IF Content(r[j], op)
               THEN r[j].from = new[j] /\ r[j].to = new[j + 1]
               ELSE new[j + 1] = new[j]
    <3>1. CASE j \in 1..Len(q)
      <4>1. j \in 1..(Len(q) + 1) /\ j + 1 \in 1..(Len(q) + 1)
        BY <1>1, <3>1
      <4> QED
        BY <1>1, <1>2, <1>3, <3>1, <4>1 DEF Marked
    <3>2. CASE j \notin 1..Len(q)
      <4>1. j = Len(q) + 1 /\ j + 1 = Len(r) + 1
        BY <1>1, <3>2
      <4> QED
        BY <1>1, <1>3, <1>5, <1>6, <4>1
    <3> QED
      BY <3>1, <3>2
  <2>2. new[1] = Len(o)
    BY <1>3, <1>5, <1>6
  <2> QED
    BY <1>3, <2>1, <2>2 DEF Marked
<1>8. \A j \in 1..Len(r) : ~Success(r[j], op)
  <2>1. \A j \in 1..Len(r) : j \in 1..Len(q) \/ j = Len(q) + 1
    BY <1>1
  <2>2. ~Success(e, op)
    BY DEF Success, Content
  <2> QED
    BY <1>1, <2>1, <2>2 DEF Untold
<1>9. Complete(r, op, total, told, new)
  BY <1>8 DEF Complete
<1> QED
  BY <1>7, <1>9 DEF Whole, r

\* What the marks are once the first frame was taken.
LEMMA MarksMoveUp ==
    ASSUME NEW q, IsQueue(q), q # << >>, NEW o, NEW op, NEW n, NEW total, NEW told, NEW mark,
           Marked(q, o, op, n, mark), Complete(q, op, total, told, mark)
    PROVE  /\ mark[1] \in Nat /\ mark[2] \in Nat
           /\ \A p, t : /\ Len(p) = mark[2]
                        /\ t => told \/ Success(Head(q), op)
                        => \E new : /\ Marked(Tail(q), p, op, n, new)
                                    /\ Complete(Tail(q), op, total, t, new)
<1> DEFINE r == Tail(q)
<1>1. Len(q) \in Nat \ {0} /\ Len(r) = Len(q) - 1 /\ (\A i \in 1..(Len(q) - 1) : r[i] = q[i + 1])
      /\ Head(q) = q[1]
  BY TailFacts
<1> HIDE DEF r
<1> DEFINE new == [k \in 1..(Len(r) + 1) |-> mark[k + 1]]
<1>2. mark \in [1..(Len(q) + 1) -> Nat]
  BY DEF Marked
<1>3. /\ \A k \in 1..(Len(r) + 1) : k + 1 \in 1..(Len(q) + 1)
      /\ 1 \in 1..(Len(q) + 1) /\ 2 \in 1..(Len(q) + 1)
  BY <1>1
<1>4. /\ new \in [1..(Len(r) + 1) -> Nat]
      /\ \A k \in 1..(Len(r) + 1) : new[k] = mark[k + 1]
  BY <1>2, <1>3
<1> HIDE DEF new
<1>5. \A j \in 1..Len(r) : /\ j + 1 \in 1..Len(q) /\ r[j] = q[j + 1]
                           /\ j \in 1..(Len(r) + 1) /\ j + 1 \in 1..(Len(r) + 1)
  BY <1>1
<1>6. mark[Len(q) + 1] = n /\ Len(r) + 1 \in 1..(Len(r) + 1) /\ (Len(r) + 1) + 1 = Len(q) + 1
      /\ 1 \in 1..(Len(r) + 1) /\ 1 + 1 = 2
  BY <1>1 DEF Marked
<1>7. \A j \in 1..Len(r) : IF Content(r[j], op)
                           THEN r[j].from = new[j] /\ r[j].to = new[j + 1]
                           ELSE new[j + 1] = new[j]
  <2>1. \A j \in 1..Len(r) : new[j] = mark[j + 1] /\ new[j + 1] = mark[(j + 1) + 1]
    BY <1>4, <1>5
  <2> QED
    BY <1>5, <2>1 DEF Marked
<1>8. \A p : Len(p) = mark[2] => Marked(r, p, op, n, new)
  <2>1. new[1] = mark[2]
    BY <1>4, <1>6
  <2>2. new[Len(r) + 1] = n
    BY <1>4, <1>6
  <2> QED
    BY <1>4, <1>7, <2>1, <2>2 DEF Marked
<1>9. ASSUME NEW t, t => told \/ Success(Head(q), op) PROVE Complete(r, op, total, t, new)
  <2>1. ASSUME NEW j \in 1..Len(r), Success(r[j], op), NEW k \in j..(Len(r) + 1)
        PROVE  new[k] = total
    <3>1. k + 1 \in (j + 1)..(Len(q) + 1) /\ k \in 1..(Len(r) + 1)
      BY <1>1, <2>1
    <3>2. \A i \in (j + 1)..(Len(q) + 1) : mark[i] = total
      BY <1>5, <2>1 DEF Complete
    <3> QED
      BY <1>4, <3>1, <3>2
  <2>2. ASSUME t, NEW k \in 1..(Len(r) + 1) PROVE new[k] = total
    <3>1. 1 \in 1..Len(q)
      BY <1>1
    <3>2. \A i \in 1..(Len(q) + 1) : mark[i] = total
      BY <1>1, <1>9, <2>2, <3>1 DEF Complete
    <3> QED
      BY <1>3, <1>4, <3>2
  <2> QED
    BY <2>1, <2>2 DEF Complete
<1> QED
  BY <1>2, <1>3, <1>8, <1>9 DEF r

\* The first frame goes to the Hub, and has none of it.
LEMMA WholeTaken ==
    ASSUME NEW q, IsQueue(q), q # << >>, NEW o, NEW op, NEW n, NEW total, NEW told, NEW t,
           ~Content(Head(q), op), t => told \/ Success(Head(q), op),
           Whole(q, o, op, n, total, told)
    PROVE  Whole(Tail(q), o, op, n, total, t)
<1>1. PICK mark : Marked(q, o, op, n, mark) /\ Complete(q, op, total, told, mark)
  BY DEF Whole
<1>2. Len(o) = mark[2]
  <2>1. 1 \in 1..Len(q) /\ Head(q) = q[1] /\ 1 + 1 = 2
    BY TailFacts
  <2>2. mark[1] = Len(o) /\ mark[1 + 1] = mark[1]
    BY <1>1, <2>1 DEF Marked
  <2> QED
    BY <2>1, <2>2
<1>3. \E new : Marked(Tail(q), o, op, n, new) /\ Complete(Tail(q), op, total, t, new)
  BY <1>1, <1>2, MarksMoveUp
<1> QED
  BY <1>3 DEF Whole

\* The first frame goes to the Hub with what comes next.
LEMMA WholeHeard ==
    ASSUME NEW q, Numbered(q), q # << >>, NEW o \in Seq(Nat), NEW op, NEW n, NEW total,
           NEW told, Content(Head(q), op), Whole(q, o, op, n, total, told)
    PROVE  Whole(Tail(q), o \o Piece(Head(q)), op, n, total, told)
<1> DEFINE f == Head(q)
           p == o \o Piece(f)
<1>1. PICK mark : Marked(q, o, op, n, mark) /\ Complete(q, op, total, told, mark)
  BY DEF Whole
<1>2. IsQueue(q) /\ Len(q) \in Nat \ {0} /\ f = q[1] /\ 1 \in 1..Len(q) /\ 1 + 1 = 2
  BY TailFacts DEF Numbered
<1>3. Content(f, op) /\ Content(q[1], op)
  BY <1>2
<1> HIDE DEF f
<1>4. f.from \in Nat /\ f.to \in Nat /\ f.from < f.to
  BY <1>2, <1>3 DEF Numbered, Content
<1>5. f.from = mark[1] /\ f.to = mark[2] /\ mark[1] = Len(o)
  BY <1>1, <1>2, <1>3 DEF Marked
<1>6. Piece(f) \in Seq(Nat) /\ Len(Piece(f)) = f.to - f.from
      /\ \A i \in 1..(f.to - f.from) : Piece(f)[i] = f.from + i
  BY <1>4, PieceFacts
<1>7. /\ Len(p) = Len(o) + Len(Piece(f))
      /\ \A i \in 1..(Len(o) + Len(Piece(f))) :
            p[i] = IF i <= Len(o) THEN o[i] ELSE Piece(f)[i - Len(o)]
  BY <1>6, ConcatProperties
<1> HIDE DEF p
<1>8. Len(o) \in Nat /\ Len(p) = f.to
  BY <1>4, <1>5, <1>6, <1>7
<1>9. ASSUME NEW i \in 1..Len(p) PROVE p[i] = i
  <2>1. i \in 1..(Len(o) + Len(Piece(f)))
    BY <1>7
  <2>2. CASE i <= Len(o)
    <3>1. i \in 1..Len(o) /\ p[i] = o[i]
      BY <1>7, <1>8, <2>1, <2>2
    <3> QED
      BY <3>1 DEF Whole
  <2>3. CASE ~(i <= Len(o))
    <3>1. i - Len(o) \in 1..(f.to - f.from)
      BY <1>4, <1>6, <1>8, <2>1, <2>3
    <3>2. p[i] = Piece(f)[i - Len(o)]
      BY <1>7, <2>1, <2>3
    <3>3. p[i] = f.from + (i - Len(o))
      BY <1>6, <3>1, <3>2
    <3> QED
      BY <1>4, <1>5, <1>8, <2>1, <3>3
  <2> QED
    BY <2>2, <2>3
<1>10. \E new : Marked(Tail(q), p, op, n, new) /\ Complete(Tail(q), op, total, told, new)
  <2>1. Len(p) = mark[2]
    BY <1>5, <1>8
  <2> QED
    BY <1>1, <1>2, <2>1, MarksMoveUp
<1>11. \A i \in 1..Len(p) : p[i] = i
  BY <1>9
<1> QED
  BY <1>10, <1>11 DEF Whole, p, f

\* The queue is lost.
LEMMA WholeLost ==
    ASSUME NEW q, IsQueue(q), NEW o, Len(o) \in Nat, NEW op, NEW n, NEW total, NEW told,
           Whole(q, o, op, n, total, told)
    PROVE  Whole(<< >>, o, op, Len(o), total, told)
<1>1. PICK mark : Marked(q, o, op, n, mark) /\ Complete(q, op, total, told, mark)
  BY DEF Whole
<1>2. Len(q) \in Nat
  BY AppendFacts
<1>3. 1 \in 1..(Len(q) + 1) /\ mark[1] = Len(o)
  BY <1>1, <1>2 DEF Marked
<1> DEFINE new == [k \in 1..1 |-> Len(o)]
<1>4. Len(<< >>) = 0 /\ 0 + 1 = 1 /\ 1..0 = {} /\ 1..1 = {1}
  OBVIOUS
<1>5. new \in [1..1 -> Nat] /\ new[1] = Len(o)
  OBVIOUS
<1>6. told => Len(o) = total
  BY <1>1, <1>3 DEF Complete
<1> HIDE DEF new
<1>7. Marked(<< >>, o, op, Len(o), new)
  BY <1>4, <1>5 DEF Marked
<1>8. Complete(<< >>, op, total, told, new)
  BY <1>4, <1>5, <1>6 DEF Complete
<1> QED
  BY <1>7, <1>8 DEF Whole

\* While the success is not told, the total is any.
LEMMA WholeUntold ==
    ASSUME NEW q, NEW o, NEW op, NEW n, NEW total, NEW other, NEW told, ~told, Untold(q, op),
           Whole(q, o, op, n, total, told)
    PROVE  Whole(q, o, op, n, other, told)
BY DEF Whole, Complete, Untold

\* There is nothing yet.
LEMMA WholeNothing ==
    ASSUME NEW q, IsQueue(q), NEW o, NEW op, Nothing(q, o, op), Untold(q, op), NEW total,
           NEW told, ~told
    PROVE  Whole(q, o, op, 0, total, told)
<1> DEFINE new == [k \in 1..(Len(q) + 1) |-> 0]
<1>1. Len(q) \in Nat
  BY AppendFacts
<1>2. /\ 1 \in 1..(Len(q) + 1) /\ Len(q) + 1 \in 1..(Len(q) + 1)
      /\ \A j \in 1..Len(q) : j \in 1..(Len(q) + 1) /\ j + 1 \in 1..(Len(q) + 1)
  BY <1>1
<1>3. new \in [1..(Len(q) + 1) -> Nat] /\ \A k \in 1..(Len(q) + 1) : new[k] = 0
  OBVIOUS
<1> HIDE DEF new
<1>4. Marked(q, o, op, 0, new)
  BY <1>2, <1>3 DEF Marked, Nothing
<1>5. Complete(q, op, total, told, new)
  BY DEF Complete, Untold
<1>6. \A i \in 1..Len(o) : o[i] = i
  BY DEF Nothing
<1> QED
  BY <1>4, <1>5, <1>6 DEF Whole
-----------------------------------------------------------------------------
(* The goroutine of a delivery, and the output of its Job. *)

\* The output may still grow.
Open == {"started", "create"} \cup Watching

\* The offsets of a goroutine that has got as far as e, of a Job like this.
OffsetsOK(e, job) ==
    /\ e.step \in {"none", "started", "create"} => e.sent = 0
    /\ e.step \in Watching => e.sent <= job.output
    /\ e.step = "ship" => e.upto <= job.output /\ (e.seen = "succeeded" => e.upto = job.output)

SameOutput == \A d \in Deliveries : execJob'[d].output = execJob[d].output

\* The goroutine of delivery d goes on; output up to mark has then been sent.
Goes(d, mark) ==
    /\ Moves(d)
    /\ SameOutput
    /\ exec[d].step # "done"
    /\ OffsetsOK(exec'[d], execJob'[d])
    /\ exec'[d].step \in Open => exec[d].step \in Open /\ exec'[d].sent = mark
    /\ exec'[d].step = "report" /\ exec'[d].outcome = "succeeded" =>
          exec[d].step \in Open /\ mark = execJob[d].output

\* It does so in silence, or with a word that is no output, or sends what it has read.
GoesSilently(d) == Goes(d, exec[d].sent) /\ UNCHANGED outbox

Speaks(d) ==
    /\ Goes(d, exec[d].sent)
    /\ \E frame :
          /\ Send(frame) /\ Quiet(frame)
          /\ \A op : Success(frame, op) =>
                /\ op = exec[d].op
                /\ exec[d].step = "report" /\ exec[d].outcome = "succeeded"
                /\ exec'[d].step = "done"

Sends(d) ==
    /\ Goes(d, exec[d].upto)
    /\ exec[d].step = "ship"
    /\ Send(OpLog(exec[d].op, exec[d].sent, exec[d].upto))

\* The goroutine ends, or goes on to something that has nothing to do with output.
LEMMA GoesElsewhere ==
    ASSUME NEW d \in Deliveries, Moves(d), SameOutput, exec[d].step # "done",
           exec'[d].step \in {"probe", "tell", "createUpgrade", "done", "report"},
           exec'[d].step = "report" => exec'[d].outcome # "succeeded", NEW mark
    PROVE  Goes(d, mark)
BY DEF Goes, OffsetsOK, Open, Watching

LEMMA FailsGoes ==
    ASSUME OpsKept, NEW d \in Deliveries, NEW from, Fail(d, from), from \notin {"none", "done"},
           Moves(d), SameOutput, NEW mark
    PROVE  Goes(d, mark)
<1>1. exec[d].op \in Ops
  BY DEF OpsKept, ExecRecords
<1>2. exec' = [exec EXCEPT ![d] = Execution(exec[d].op, "report", "failed")] /\ exec[d].step = from
  BY DEF Fail
<1>3. exec'[d] = Execution(exec[d].op, "report", "failed")
  BY <1>2 DEF OpsKept
<1>4. exec'[d].step = "report" /\ exec'[d].outcome = "failed"
  BY <1>1, <1>3, ExecutionRecord DEF ExecSteps, Outcomes
<1> QED
  BY <1>2, <1>4, GoesElsewhere

\* The end of a tick.
LEMMA DrainedGoes ==
    ASSUME OpsKept, NEW d \in Deliveries, NEW sent \in Nat, LogsDrained(d, sent),
           UNCHANGED <<execJob, ledger>>, exec[d].step \in {"drain", "ship"},
           sent <= execJob[d].output,
           exec[d].seen = "succeeded" => sent = execJob[d].output
    PROVE  Goes(d, sent)
<1>1. Moves(d)
  BY DrainedMoves
<1>2. exec[d] \in ExecRecords
  BY DEF OpsKept
<1> DEFINE f == [exec[d] EXCEPT !.sent = sent]
<1>3. f \in ExecRecords /\ f.op = exec[d].op /\ f.seen = exec[d].seen /\ f.sent = sent
  BY <1>2 DEF ExecRecords
<1>4. exec'[d] = After(f)
  BY DEF LogsDrained, OpsKept
<1> HIDE DEF f
<1>5. CASE f.seen \in Outcomes
  <2>1. exec'[d] = Execution(f.op, "report", f.seen) /\ f.op \in Ops
    BY <1>3, <1>4, <1>5 DEF After, ExecRecords
  <2>2. exec'[d].step = "report" /\ exec'[d].outcome = f.seen
    BY <1>5, <2>1, ExecutionRecord DEF ExecSteps
  <2> QED
    BY <1>1, <1>3, <2>2 DEF Goes, SameOutput, OffsetsOK, Open, Watching
<1>6. CASE f.seen \notin Outcomes
  <2>1. exec'[d] = [f EXCEPT !.step = "watch", !.seen = "Absent", !.upto = 0]
    BY <1>4, <1>6 DEF After
  <2>2. exec'[d].step = "watch" /\ exec'[d].sent = sent
    BY <1>3, <2>1 DEF ExecRecords
  <2> QED
    BY <1>1, <2>2 DEF Goes, SameOutput, OffsetsOK, Open, Watching
<1> QED
  BY <1>5, <1>6

LEMMA SpeaksOrSends ==
    ASSUME OpsKept, NEW d \in Deliveries, OffsetsOK(exec[d], execJob[d]), OpSends(d)
    PROVE  Speaks(d) \/ Sends(d)
<1>1. exec[d] \in ExecRecords /\ exec[d].op \in Ops /\ DeliveryOK(d) /\ execJob[d].output \in Nat
  BY DEF OpsKept, ExecRecords, JobRecords
<1>2. Moves(d)
  BY SendsMove DEF Tells, Ships
<1>3. CASE Announce(d)
  <2>1. PICK to \in {"create", "probe", "report"} : Step(d, "started", to)
    BY <1>3 DEF Announce
  <2>2. exec'[d].step = to /\ exec'[d].sent = exec[d].sent /\ exec[d].step = "started"
    BY <1>3, <2>1, StepMoves DEF Announce, Step, ExecSteps
  <2>3. exec'[d].outcome # "succeeded"
    <3>1. execJob'[d].status = "Absent"
      BY <1>1, <1>3, <2>2 DEF Announce, DeliveryOK
    <3> QED
      BY <1>2, <3>1 DEF Moves, OpsKept, DeliveryOK
  <2>4. Goes(d, exec[d].sent)
    BY <1>2, <1>3, <2>2, <2>3 DEF Announce, Goes, SameOutput, OffsetsOK, Open, Watching
  <2>5. Quiet(OpStatus(exec[d].op, "running"))
    BY <1>1, OpStatusQuiet DEF Outcomes
  <2>6. \A op : ~Success(OpStatus(exec[d].op, "running"), op)
    BY DEF Success, OpStatus
  <2> QED
    BY <1>3, <2>4, <2>5, <2>6 DEF Announce, Speaks
<1>4. CASE ShipLogs(d)
  <2>1. exec[d].upto \in Nat /\ exec[d].step = "ship" /\ UNCHANGED <<execJob, ledger>>
        /\ LogsDrained(d, exec[d].upto)
    BY <1>1, <1>4 DEF ShipLogs, ExecRecords
  <2>2. Goes(d, exec[d].upto)
    BY <2>1, DrainedGoes DEF OffsetsOK
  <2> QED
    BY <1>4, <2>2 DEF ShipLogs, Sends
<1>5. CASE ReportOutcome(d)
  <2>1. exec'[d] = Execution(exec[d].op, "done", "failed") /\ exec[d].step = "report"
    BY <1>5 DEF ReportOutcome, OpsKept
  <2>2. exec'[d].step = "done"
    BY <1>1, <2>1, ExecutionRecord DEF ExecSteps, Outcomes
  <2>3. Goes(d, exec[d].sent)
    BY <1>2, <1>5, <2>1, <2>2, GoesElsewhere DEF ReportOutcome, SameOutput
  <2>4. exec[d].outcome \in Outcomes /\ (exec[d].outcome = "succeeded" => Earned(exec[d].op))
    BY <1>1 DEF ExecRecords, DeliveryOK, Earned
  <2>5. Quiet(OpStatus(exec[d].op, exec[d].outcome))
    BY <1>1, <2>4, OpStatusQuiet
  <2>6. \A op : Success(OpStatus(exec[d].op, exec[d].outcome), op) =>
                   op = exec[d].op /\ exec[d].outcome = "succeeded"
    BY DEF Success, OpStatus
  <2> QED
    BY <1>5, <2>1, <2>2, <2>3, <2>5, <2>6 DEF ReportOutcome, Speaks
<1>6. CASE TellInFlight(d)
  <2>1. exec'[d].step = "done" /\ exec[d].step = "tell"
    BY <1>6, StepMoves DEF TellInFlight, Step, ExecSteps
  <2>2. Goes(d, exec[d].sent)
    BY <1>2, <1>6, <2>1, GoesElsewhere DEF TellInFlight, SameOutput
  <2>3. Quiet(OpLog(exec[d].op, 0, 0))
    BY <1>1, OpLogOK
  <2>4. \A op : ~Success(OpLog(exec[d].op, 0, 0), op)
    BY DEF Success, OpLog
  <2> QED
    BY <1>6, <2>2, <2>3, <2>4 DEF TellInFlight, Speaks
<1> QED
  BY <1>3, <1>4, <1>5, <1>6 DEF OpSends

\* A step that is no fault, and says nothing.
LEMMA WorksGo ==
    ASSUME OpsKept, NEW d \in Deliveries, OffsetsOK(exec[d], execJob[d]), UNCHANGED outbox,
           OpWorks(d) \/ GiveUp(d) \/ CreateUpgradeJobFails(d)
    PROVE  GoesSilently(d)
<1>1. exec[d] \in ExecRecords /\ exec[d].sent \in Nat /\ DeliveryOK(d) /\ execJob[d].output \in Nat
  BY DEF OpsKept, ExecRecords, JobRecords
<1>2. Moves(d)
  BY WorksMove DEF Works
<1> SUFFICES Goes(d, exec[d].sent)
  BY DEF GoesSilently
<1>3. execJob' = [execJob EXCEPT ![d].status = "Active"] => SameOutput
  <2>1. \A job \in JobRecords : [job EXCEPT !.status = "Active"].output = job.output
    BY DEF JobRecords
  <2> QED
    BY <2>1 DEF SameOutput, OpsKept
<1>4. CASE CreateExecJob(d)
  <2>1. exec'[d] = [exec[d] EXCEPT !.step = "watch"] /\ exec[d].step = "create"
    BY <1>4 DEF CreateExecJob, Step, OpsKept
  <2>2. exec'[d].step = "watch" /\ exec'[d].sent = exec[d].sent
    BY <1>1, <2>1 DEF ExecRecords
  <2>3. exec[d].sent = 0 /\ SameOutput
    BY <1>3, <1>4, <2>1 DEF OffsetsOK, CreateExecJob
  <2> QED
    BY <1>1, <1>2, <2>1, <2>2, <2>3 DEF Goes, SameOutput, OffsetsOK, Open, Watching
<1>5. CASE CreateExecJobFails(d)
  <2>1. SameOutput
    BY <1>3, <1>5 DEF CreateExecJobFails, SameOutput
  <2> QED
    BY <1>2, <1>5, <2>1, FailsGoes DEF CreateExecJobFails
<1>6. CASE GetJob(d)
  <2>1. exec'[d] = [exec[d] EXCEPT !.step = "drain", !.seen = execJob[d].status]
        /\ exec[d].step = "watch" /\ UNCHANGED execJob
    BY <1>6 DEF GetJob, OpsKept
  <2>2. exec'[d].step = "drain" /\ exec'[d].sent = exec[d].sent
    BY <1>1, <2>1 DEF ExecRecords
  <2> QED
    BY <1>2, <2>1, <2>2 DEF Goes, SameOutput, OffsetsOK, Open, Watching
<1>7. CASE ReadLogs(d) /\ execJob[d].output > exec[d].sent
  <2>1. exec'[d] = [exec[d] EXCEPT !.step = "ship", !.upto = execJob[d].output]
        /\ exec[d].step = "drain" /\ UNCHANGED execJob
    BY <1>7 DEF ReadLogs, OpsKept
  <2>2. exec'[d].step = "ship" /\ exec'[d].sent = exec[d].sent /\ exec'[d].upto = execJob[d].output
    BY <1>1, <2>1 DEF ExecRecords
  <2> QED
    BY <1>1, <1>2, <2>1, <2>2 DEF Goes, SameOutput, OffsetsOK, Open, Watching
<1>8. CASE ReadLogs(d) /\ ~(execJob[d].output > exec[d].sent)
  <2>1. exec[d].step = "drain" /\ LogsDrained(d, exec[d].sent) /\ UNCHANGED <<execJob, ledger>>
    BY <1>8 DEF ReadLogs
  <2>2. exec[d].sent = execJob[d].output
    BY <1>1, <1>8, <2>1 DEF OffsetsOK, Watching
  <2> QED
    BY <1>1, <2>1, <2>2, DrainedGoes
<1>9. CASE ProbeUpgrade(d) \/ CreateUpgradeJob(d)
  <2>1. PICK from \in {"probe", "createUpgrade"}, to \in {"tell", "createUpgrade", "done"} :
           Step(d, from, to)
    BY <1>9 DEF ProbeUpgrade, CreateUpgradeJob
  <2>2. exec'[d].step = to /\ exec[d].step = from /\ SameOutput
    BY <1>9, <2>1, StepMoves DEF ProbeUpgrade, CreateUpgradeJob, Step, ExecSteps, SameOutput
  <2> QED
    BY <1>2, <2>1, <2>2, GoesElsewhere
<1>10. CASE GiveUp(d) \/ CreateUpgradeJobFails(d)
  <2>1. PICK from \in {"watch", "createUpgrade"} : Fail(d, from)
    BY <1>10 DEF GiveUp, CreateUpgradeJobFails
  <2>2. SameOutput
    BY <1>10 DEF GiveUp, CreateUpgradeJobFails, SameOutput
  <2> QED
    BY <1>2, <2>1, <2>2, FailsGoes
<1> QED
  BY <1>4, <1>5, <1>6, <1>7, <1>8, <1>9, <1>10 DEF OpWorks

\* What the goroutine of a delivery does when nothing fails.
LEMMA GoesOn ==
    ASSUME OpsKept, NEW d \in Deliveries, OffsetsOK(exec[d], execJob[d]),
           faults \in Nat, faults' = 0, Operating(d) \/ Timeout(d) \/ OperationFails(d)
    PROVE  GoesSilently(d) \/ Speaks(d) \/ Sends(d)
<1>1. CASE OpSends(d)
  BY <1>1, SpeaksOrSends
<1>2. CASE ~OpSends(d)
  <2>1. ~Fault
    BY DEF Fault
  <2>2. UNCHANGED outbox
    BY <1>2 DEF Operating, Timeout, OperationFails
  <2>3. OpWorks(d) \/ GiveUp(d) \/ CreateUpgradeJobFails(d)
    BY <1>2, <2>1 DEF Operating, Timeout, OperationFails, ReadLogsFails, ProbeUpgradeFails
  <2> QED
    BY <2>2, <2>3, WorksGo
<1> QED
  BY <1>1, <1>2
-----------------------------------------------------------------------------
(* Nothing is missing, and nothing is told before its time. *)

Told(op) == ledger[op].status = "succeeded"

\* What there is of the output of op, which delivery d runs: what has been sent, and all of
\* it when the success is reported, which nobody tells before.
AllThere(d, op) ==
    /\ \E n \in Nat :
          /\ Whole(outbox, ledger[op].output, op, n, execJob[d].output, Told(op))
          /\ exec[d].step \in Open => n = exec[d].sent
          /\ exec[d].step = "report" /\ exec[d].outcome = "succeeded" => n = execJob[d].output
    /\ exec[d].step # "done" => ~Told(op) /\ Untold(outbox, op)

\* What keeps OutputComplete, as long as nothing fails.
OutputKept(d) ==
    faults = 0 =>
       /\ OffsetsOK(exec[d], execJob[d])
       /\ \A op \in Ops :
             exec[d].op = op /\ exec[d].step # "none" /\ DeliveredOnce(op) => AllThere(d, op)

\* A frame that has no output of the operation, and does not tell of its success.
Silent(frame, op) == ~Content(frame, op) /\ ~Success(frame, op)

LEMMA UntoldMore ==
    ASSUME NEW q, IsQueue(q), NEW op, NEW e, ~Success(e, op), Untold(q, op)
    PROVE  Untold(Append(q, e), op)
<1>1. Len(q) \in Nat /\ Len(Append(q, e)) = Len(q) + 1
      /\ (\A i \in 1..Len(q) : Append(q, e)[i] = q[i]) /\ Append(q, e)[Len(q) + 1] = e
  BY AppendFacts
<1>2. \A j \in 1..Len(Append(q, e)) : j \in 1..Len(q) \/ j = Len(q) + 1
  BY <1>1
<1> QED
  BY <1>1, <1>2 DEF Untold

LEMMA UntoldTaken ==
    ASSUME NEW q, IsQueue(q), q # << >>, NEW op, Untold(q, op)
    PROVE  Untold(Tail(q), op) /\ ~Success(Head(q), op)
<1>1. Len(q) \in Nat \ {0} /\ Len(Tail(q)) = Len(q) - 1 /\ Head(q) = q[1]
      /\ \A i \in 1..(Len(q) - 1) : Tail(q)[i] = q[i + 1]
  BY TailFacts
<1>2. 1 \in 1..Len(q) /\ \A j \in 1..Len(Tail(q)) : j + 1 \in 1..Len(q) /\ Tail(q)[j] = q[j + 1]
  BY <1>1
<1> QED
  BY <1>1, <1>2 DEF Untold

\* The delivery is left alone, and nothing is said of its operation.
LEMMA UnmovedKeeps ==
    ASSUME NEW d \in Deliveries, IsQueue(outbox), OutputKept(d), faults = 0,
           exec'[d] = exec[d], execJob'[d].output = execJob[d].output,
           \A op \in Ops :
              exec[d].op = op /\ exec[d].step # "none" /\ DeliveredOnce(op)' =>
                 /\ DeliveredOnce(op)
                 /\ ledger'[op] = ledger[op]
                 /\ UNCHANGED outbox \/ \E frame : Send(frame) /\ Silent(frame, op)
    PROVE  OutputKept(d)'
<1>1. OffsetsOK(exec'[d], execJob'[d])
  BY DEF OutputKept, OffsetsOK
<1>2. ASSUME NEW op \in Ops, exec[d].op = op, exec[d].step # "none", DeliveredOnce(op)'
      PROVE  AllThere(d, op)'
  <2>1. AllThere(d, op) /\ ledger'[op] = ledger[op]
    BY <1>2 DEF OutputKept
  <2>2. CASE UNCHANGED outbox
    BY <2>1, <2>2 DEF AllThere, Told
  <2>3. ASSUME NEW frame, Send(frame), Silent(frame, op) PROVE AllThere(d, op)'
    <3>1. outbox' = Append(outbox, frame)
      BY <2>3 DEF Send
    <3>2. PICK n \in Nat :
             /\ Whole(outbox, ledger[op].output, op, n, execJob[d].output, Told(op))
             /\ exec[d].step \in Open => n = exec[d].sent
             /\ exec[d].step = "report" /\ exec[d].outcome = "succeeded" => n = execJob[d].output
      BY <2>1 DEF AllThere
    <3>3. Whole(Append(outbox, frame), ledger[op].output, op, n, execJob[d].output, Told(op))
      BY <2>3, <3>2, WholeQuietly DEF Silent
    <3>4. Untold(outbox, op) => Untold(outbox', op)
      BY <2>3, <3>1, UntoldMore DEF Silent
    <3> QED
      BY <2>1, <3>1, <3>2, <3>3, <3>4 DEF AllThere, Told
  <2> QED
    BY <1>2, <2>2, <2>3
<1> QED
  BY <1>1, <1>2 DEF OutputKept

\* The goroutine of delivery d goes on.
LEMMA GoesKeeps ==
    ASSUME EarnedKept, faults = 0, NEW d \in Deliveries, OutputKept(d),
           GoesSilently(d) \/ Speaks(d) \/ Sends(d)
    PROVE  OutputKept(d)'
<1>1. PICK mark : Goes(d, mark) /\ (Sends(d) => mark = exec[d].upto)
                                /\ (~Sends(d) => mark = exec[d].sent)
  BY DEF GoesSilently, Speaks, Sends
<1>2. /\ ledger' = ledger /\ execJob'[d].output = execJob[d].output
      /\ exec'[d].op = exec[d].op /\ exec[d].step \notin {"none", "done"}
      /\ \A e \in Deliveries : e # d => exec'[e] = exec[e]
      /\ exec'[d].step # "none"
  BY <1>1 DEF Goes, Moves, SameOutput
<1>3. OffsetsOK(exec'[d], execJob'[d])
  BY <1>1 DEF Goes
<1>4. ASSUME NEW op \in Ops, exec'[d].op = op, DeliveredOnce(op)' PROVE AllThere(d, op)'
  <2>1. DeliveredOnce(op)
    <3>1. \A e \in Deliveries : /\ exec'[e].op = exec[e].op
                                /\ exec'[e].step = "none" <=> exec[e].step = "none"
      BY <1>2
    <3> QED
      BY <1>4, <3>1 DEF DeliveredOnce
  <2>2. exec[d].op = op /\ AllThere(d, op) /\ ~Told(op) /\ Untold(outbox, op)
    BY <1>2, <1>4, <2>1 DEF OutputKept, AllThere
  <2> DEFINE o == ledger[op].output
             total == execJob[d].output
  <2>3. PICK n \in Nat :
           /\ Whole(outbox, o, op, n, total, Told(op))
           /\ exec[d].step \in Open => n = exec[d].sent
           /\ exec[d].step = "report" /\ exec[d].outcome = "succeeded" => n = total
    BY <2>2 DEF AllThere
  <2>4. o' = o /\ total' = total /\ (Told(op)' <=> Told(op)) /\ IsQueue(outbox)
    BY <1>2 DEF Told, EarnedKept
  <2>5. SUFFICES
           /\ \E m \in Nat :
                 /\ Whole(outbox', o, op, m, total, Told(op))
                 /\ exec'[d].step \in Open => m = exec'[d].sent
                 /\ exec'[d].step = "report" /\ exec'[d].outcome = "succeeded" => m = total
           /\ exec'[d].step # "done" => Untold(outbox', op)
    BY <1>2, <2>2 DEF AllThere, Told
  <2> HIDE DEF o, total
  <2>6. CASE GoesSilently(d)
    <3>1. UNCHANGED outbox /\ Goes(d, exec[d].sent)
      BY <2>6 DEF GoesSilently
    <3> QED
      BY <2>2, <2>3, <3>1 DEF Goes, total
  <2>7. CASE Speaks(d)
    <3>1. PICK frame :
             /\ Send(frame) /\ Quiet(frame)
             /\ \A p : Success(frame, p) =>
                   /\ p = exec[d].op
                   /\ exec[d].step = "report" /\ exec[d].outcome = "succeeded"
                   /\ exec'[d].step = "done"
      BY <2>7 DEF Speaks
    <3>2. outbox' = Append(outbox, frame) /\ ~Content(frame, op)
      BY <3>1 DEF Send, Quiet
    <3>3. Success(frame, op) => n = total
      BY <2>3, <3>1
    <3>4. Whole(outbox', o, op, n, total, Told(op))
      BY <2>3, <2>4, <3>2, <3>3, WholeQuietly
    <3>5. exec'[d].step # "done" => Untold(outbox', op)
      BY <2>2, <2>4, <3>1, <3>2, UntoldMore
    <3>6. Goes(d, exec[d].sent)
      BY <2>7 DEF Speaks
    <3> QED
      BY <2>3, <3>4, <3>5, <3>6 DEF Goes, total
  <2>8. CASE Sends(d)
    <3> DEFINE frame == OpLog(exec[d].op, exec[d].sent, exec[d].upto)
    <3>1. exec[d].sent \in Nat /\ exec[d].upto \in Nat /\ exec[d].sent < exec[d].upto
      BY <2>8 DEF Sends, EarnedKept, OpsKept, ExecRecords, DeliveryOK
    <3>2. Content(frame, op) /\ frame.from = exec[d].sent /\ frame.to = exec[d].upto
          /\ ~Success(frame, op)
      BY <2>2, <3>1 DEF Content, OpLog, Success
    <3>3. n = exec[d].sent
      BY <2>3, <2>8 DEF Sends, Open, Watching
    <3>4. outbox' = Append(outbox, frame)
      BY <2>8 DEF Sends, Send
    <3> HIDE DEF frame
    <3>5. Whole(outbox', o, op, exec[d].upto, total, Told(op))
      BY <2>2, <2>3, <2>4, <3>1, <3>2, <3>3, <3>4, WholeMore
    <3>6. Untold(outbox', op)
      BY <2>2, <2>4, <3>2, <3>4, UntoldMore
    <3>7. Goes(d, exec[d].upto)
      BY <2>8 DEF Sends
    <3> QED
      BY <3>1, <3>5, <3>6, <3>7 DEF Goes, total
  <2> QED
    BY <2>6, <2>7, <2>8
<1> QED
  BY <1>2, <1>3, <1>4 DEF OutputKept

\* The Hub takes a frame.
LEMMA HearKeepsOutput ==
    ASSUME EarnedKept, faults = 0, NEW d \in Deliveries, OutputKept(d), Delivering
    PROVE  OutputKept(d)'
<1>1. /\ outbox # << >> /\ outbox' = Tail(outbox)
      /\ UNCHANGED <<exec, execJob>>
  BY DEF Delivering, WriteArrives, TakeFrame, HearOp
<1>2. OffsetsOK(exec'[d], execJob'[d])
  BY <1>1 DEF OutputKept
<1>3. ASSUME NEW op \in Ops, exec[d].op = op, exec[d].step # "none", DeliveredOnce(op)'
      PROVE  AllThere(d, op)'
  <2> DEFINE o == ledger[op].output
             p == ledger'[op].output
             total == execJob[d].output
             frame == Head(outbox)
  <2>1. AllThere(d, op)
    BY <1>1, <1>3 DEF OutputKept, DeliveredOnce
  <2>2. PICK n \in Nat :
           /\ Whole(outbox, o, op, n, total, Told(op))
           /\ exec[d].step \in Open => n = exec[d].sent
           /\ exec[d].step = "report" /\ exec[d].outcome = "succeeded" => n = total
    BY <2>1 DEF AllThere
  <2>3. Numbered(outbox) /\ IsQueue(outbox) /\ o \in Seq(Nat)
    BY OutboxNumbered, LedgerTypes DEF EarnedKept
  <2>4. /\ ~Content(frame, op) => p = o
        /\ Content(frame, op) => p = o \o Piece(frame)
        /\ Told(op)' => Told(op) \/ Success(frame, op)
    BY LedgerHears DEF Told, Success
  <2>5. Whole(outbox', p, op, n, total, Told(op)')
    <3> HIDE DEF o, p, total
    <3>1. CASE Content(frame, op)
      <4>1. ~Success(frame, op)
        BY <3>1 DEF Content, Success
      <4>2. Whole(Tail(outbox), o \o Piece(frame), op, n, total, Told(op))
        BY <1>1, <2>2, <2>3, <3>1, WholeHeard
      <4>3. Told(op)' => Told(op)
        BY <2>4, <4>1
      <4> QED
        BY <1>1, <2>4, <3>1, <4>2, <4>3 DEF Whole, Complete
    <3>2. CASE ~Content(frame, op)
      <4>1. Whole(Tail(outbox), o, op, n, total, Told(op)')
        BY <1>1, <2>2, <2>3, <2>4, <3>2, WholeTaken
      <4> QED
        BY <1>1, <2>4, <3>2, <4>1
    <3> QED
      BY <3>1, <3>2
  <2>6. exec[d].step # "done" => ~Told(op)' /\ Untold(outbox', op)
    <3>1. ASSUME exec[d].step # "done" PROVE ~Told(op)' /\ Untold(outbox', op)
      <4>1. ~Told(op) /\ Untold(outbox, op)
        BY <2>1, <3>1 DEF AllThere
      <4>2. Untold(outbox', op) /\ ~Success(frame, op)
        BY <1>1, <2>3, <4>1, UntoldTaken
      <4> QED
        BY <2>4, <4>1, <4>2
    <3> QED
      BY <3>1
  <2> QED
    BY <1>1, <2>2, <2>5, <2>6 DEF AllThere
<1> QED
  BY <1>1, <1>2, <1>3 DEF OutputKept

\* A command comes in, or a Job runs.
LEMMA CommandingKeepsOutput ==
    ASSUME EarnedKept, \A op \in Ops : OrderKept(op), faults = 0,
           NEW d \in Deliveries, OutputKept(d), Commanding
    PROVE  OutputKept(d)'
<1>0. OpsKept /\ IsQueue(outbox)
  BY DEF EarnedKept
<1>1. UNCHANGED <<outbox, ledger>>
  BY <1>0, CommandingKeeps
<1>2. ASSUME NEW e \in Deliveries, NEW p \in Ops, Deliver(e, p) PROVE OutputKept(d)'
  <2>1. exec[e].step = "none" /\ UNCHANGED execJob
    <3>1. e \in Nat
      BY DEF Deliveries
    <3> QED
      BY <1>2, <3>1 DEF Deliver
  <2>2. /\ exec' = [exec EXCEPT ![e] = [exec[e] EXCEPT !.op = p, !.step = "started"]]
        /\ exec[e] \in ExecRecords
    BY <1>0, <1>2 DEF Deliver, OpsKept
  <2>3. /\ exec'[e].step = "started" /\ exec'[e].op = p /\ exec'[e].sent = exec[e].sent
        /\ \A f \in Deliveries : f # e => exec'[f] = exec[f]
    BY <1>0, <2>2 DEF OpsKept, ExecRecords
  <2>4. CASE d # e
    <3>1. \A op : DeliveredOnce(op)' => DeliveredOnce(op)
      BY <2>1, <2>3 DEF DeliveredOnce
    <3> QED
      BY <1>0, <1>1, <2>1, <2>3, <2>4, <3>1, UnmovedKeeps
  <2>5. CASE d = e
    <3>1. OffsetsOK(exec'[d], execJob'[d])
      BY <2>1, <2>3, <2>5 DEF OutputKept, OffsetsOK, Watching
    <3>2. ASSUME DeliveredOnce(p)' PROVE AllThere(d, p)'
      <4>1. \A f \in Deliveries : exec[f].op = p => exec[f].step = "none"
        BY <2>1, <2>3, <2>5, <3>2 DEF DeliveredOnce
      <4>2. ~Earned(p)
        BY <1>0, <4>1 DEF Earned, OpsKept, DeliveryOK
      <4>3. ~Told(p)
        BY <4>2 DEF EarnedKept, OutcomeEarned, Earned, Told
      <4>4. Untold(outbox, p)
        <5>1. \A j \in 1..Len(outbox) : outbox[j] \in Range(outbox)
          <6>1. PICK S : outbox \in Seq(S)
            BY <1>0 DEF IsQueue
          <6>2. DOMAIN outbox = 1..Len(outbox)
            BY <6>1
          <6> QED
            BY <6>2 DEF Range
        <5> QED
          BY <4>2, <5>1 DEF EarnedKept, FrameOK, Untold, Success
      <4>5. Nothing(outbox, ledger[p].output, p)
        BY <2>1, <2>3, <4>1 DEF OrderKept, DeliveredOnce
      <4>6. Whole(outbox, ledger[p].output, p, 0, execJob[d].output, Told(p))
        BY <1>0, <4>3, <4>4, <4>5, WholeNothing
      <4>7. exec[d].sent = 0
        BY <2>1, <2>5 DEF OutputKept, OffsetsOK
      <4> QED
        BY <1>1, <2>1, <2>3, <2>5, <4>3, <4>4, <4>6, <4>7 DEF AllThere, Told
    <3> QED
      BY <2>3, <2>5, <3>1, <3>2 DEF OutputKept
  <2> QED
    BY <2>4, <2>5
<1>3. ASSUME NEW e \in Deliveries, ExecJobRuns(e) PROVE OutputKept(d)'
  <2>1. exec' = exec /\ execJob[e].status = "Active" /\ exec[e].step \in Watching
    BY <1>3 DEF ExecJobRuns, Watching
  <2>2. /\ execJob'[e].output \in {execJob[e].output, execJob[e].output + 1}
        /\ execJob[e].output \in Nat
        /\ \A f \in Deliveries : f # e => execJob'[f] = execJob[f]
    <3>1. execJob \in [Deliveries -> JobRecords]
      BY <1>0 DEF OpsKept
    <3>2. CASE execJob' = [execJob EXCEPT ![e].output = @ + 1]
      BY <3>1, <3>2 DEF JobRecords
    <3>3. ASSUME NEW outcome \in Outcomes, execJob' = [execJob EXCEPT ![e].status = outcome]
          PROVE  /\ execJob'[e].output = execJob[e].output /\ execJob[e].output \in Nat
                 /\ \A f \in Deliveries : f # e => execJob'[f] = execJob[f]
      BY <3>1, <3>3 DEF JobRecords
    <3> QED
      BY <1>3, <3>2, <3>3 DEF ExecJobRuns
  <2>3. CASE d # e
    BY <1>0, <1>1, <2>1, <2>2, <2>3, UnmovedKeeps DEF DeliveredOnce
  <2>4. CASE d = e
    <3>1. exec[d].sent \in Nat /\ exec[d].upto \in Nat /\ exec[d].seen # "succeeded"
      BY <1>0, <2>1, <2>4 DEF OpsKept, ExecRecords, DeliveryOK
    <3>2. OffsetsOK(exec'[d], execJob'[d])
      BY <2>1, <2>2, <2>4, <3>1 DEF OutputKept, OffsetsOK, Watching
    <3>3. ASSUME NEW op \in Ops, exec[d].op = op, DeliveredOnce(op) PROVE AllThere(d, op)'
      <4>1. AllThere(d, op) /\ ~Told(op) /\ Untold(outbox, op)
        BY <2>1, <2>4, <3>3 DEF OutputKept, AllThere, Watching
      <4>2. PICK n \in Nat :
               /\ Whole(outbox, ledger[op].output, op, n, execJob[d].output, Told(op))
               /\ exec[d].step \in Open => n = exec[d].sent
        BY <4>1 DEF AllThere
      <4>3. Whole(outbox, ledger[op].output, op, n, execJob'[d].output, Told(op))
        BY <4>1, <4>2, WholeUntold
      <4> QED
        BY <1>1, <2>1, <2>4, <4>1, <4>2, <4>3 DEF AllThere, Told, Watching
    <3> QED
      BY <2>1, <3>2, <3>3 DEF OutputKept, DeliveredOnce
  <2> QED
    BY <2>3, <2>4
<1>4. ASSUME NEW op \in Ops, UpgradeJobFails(op) \/ ReapUpgradeJob(op) PROVE OutputKept(d)'
  <2>1. UNCHANGED <<exec, execJob>>
    BY <1>4 DEF UpgradeJobFails, ReapUpgradeJob
  <2> QED
    BY <1>0, <1>1, <2>1, UnmovedKeeps DEF DeliveredOnce
<1> QED
  BY <1>2, <1>3, <1>4 DEF Commanding

\* The process is replaced by one of the new version: what was not sent is not told either.
LEMMA EndKeepsOutput ==
    ASSUME EarnedKept, faults = 0, NEW d \in Deliveries, OutputKept(d), Restart \/ Upgrade
    PROVE  OutputKept(d)'
<1>1. exec' = Killed /\ outbox' = << >> /\ UNCHANGED <<execJob, ledger>>
  BY ProcessEnds
<1>2. /\ \A e \in Deliveries : /\ exec'[e].op = exec[e].op
                               /\ exec[e].step = "none" => exec'[e] = exec[e]
                               /\ exec[e].step # "none" => exec'[e].step = "done"
  BY <1>1, KilledKeeps DEF EarnedKept
<1>3. OffsetsOK(exec'[d], execJob'[d])
  BY <1>1, <1>2 DEF OutputKept, OffsetsOK, Watching
<1>4. ASSUME NEW op \in Ops, exec[d].op = op, exec[d].step # "none", DeliveredOnce(op)'
      PROVE  AllThere(d, op)'
  <2>1. DeliveredOnce(op)
    BY <1>2, <1>4 DEF DeliveredOnce
  <2>2. AllThere(d, op)
    BY <1>4, <2>1 DEF OutputKept
  <2> DEFINE o == ledger[op].output
  <2>3. PICK n \in Nat : Whole(outbox, o, op, n, execJob[d].output, Told(op))
    BY <2>2 DEF AllThere
  <2>4. Len(o) \in Nat /\ IsQueue(outbox)
    BY LedgerTypes, LenProperties DEF EarnedKept
  <2> HIDE DEF o
  <2>5. Whole(<< >>, o, op, Len(o), execJob[d].output, Told(op))
    BY <2>3, <2>4, WholeLost
  <2> QED
    BY <1>1, <1>2, <1>4, <2>4, <2>5 DEF AllThere, Told, Open, Watching, o
<1> QED
  BY <1>2, <1>3, <1>4 DEF OutputKept

LEMMA InitOutput == ASSUME Init, NEW d \in Deliveries PROVE OutputKept(d)
<1>1. exec[d].step = "none" /\ exec[d].sent = 0
  BY DEF Init, OpsInit, Execution
<1> QED
  BY <1>1 DEF OutputKept, OffsetsOK, Watching

LEMMA StepKeepsOutput ==
    ASSUME ReportsKept, LedgerKept, \A e \in Deliveries : OutputKept(e), [Next]_vars,
           NEW d \in Deliveries
    PROVE  OutputKept(d)'
<1>0. faults \in Nat /\ EarnedKept /\ OpsKept /\ IsQueue(outbox)
  BY DEF ReportsKept, LedgerKept, EarnedKept
<1>1. SUFFICES ASSUME faults' = 0 PROVE OutputKept(d)'
  BY DEF OutputKept
<1>2. faults = 0
  <2>1. faults' \in Nat /\ faults' >= faults
    <3>1. CASE UNCHANGED vars
      BY <1>0, <3>1 DEF vars, connector
    <3>2. CASE Next
      <4>1. Fault \/ NoFault
        BY <3>2 DEF Next, Refused, Connecting, BurnToken, Announcing, Resyncing, Ticking, Beating,
              Noticing, Breaking, Delivering, Losing, Reconciling, Queueing, Operating, Timeout,
              OperationFails, Commanding, Streaming, JobStarts, Restart, Upgrade, DialFails,
              DialSucceeds, DialBurnsToken, Identify, HeartbeatDue, SendHeartbeat, ReadFails,
              ConnectionBreaks, WriteArrives, WriteIsLost, TakeFrame, ReadLogsFails,
              ProbeUpgradeFails, CreateUpgradeJobFails
      <4> QED
        BY <1>0, <4>1, FaultFacts
    <3> QED
      BY <3>1, <3>2
  <2> QED
    BY <1>0, <1>1, <2>1
<1>3. CASE Aside
  <2>1. UNCHANGED <<exec, execJob, ledger>>
    BY <1>3 DEF Aside, Elsewhere
  <2>2. UNCHANGED outbox \/ \E frame : Send(frame) /\ \A op : Silent(frame, op)
    BY <1>3 DEF Aside, OtherFrame, Silent, Content, Success
  <2> QED
    BY <1>0, <1>2, <2>1, <2>2, UnmovedKeeps DEF DeliveredOnce
<1>4. CASE Delivering
  BY <1>0, <1>2, <1>4, HearKeepsOutput
<1>5. CASE Losing
  BY <1>2, <1>5 DEF Losing, WriteIsLost, TakeFrame, ReportsKept
<1>6. ASSUME NEW e \in Deliveries, Operating(e) \/ Timeout(e) \/ OperationFails(e)
      PROVE  OutputKept(d)'
  <2>1. GoesSilently(e) \/ Speaks(e) \/ Sends(e)
    BY <1>0, <1>1, <1>2, <1>6, GoesOn DEF OutputKept
  <2>2. CASE d = e
    BY <1>0, <1>2, <2>1, <2>2, GoesKeeps
  <2>3. CASE d # e
    <3>1. /\ ledger' = ledger /\ SameOutput
          /\ exec'[e].op = exec[e].op /\ exec[e].step # "none" /\ exec'[e].step # "none"
          /\ \A f \in Deliveries : f # e => exec'[f] = exec[f]
      BY <2>1 DEF GoesSilently, Speaks, Sends, Goes, Moves
    <3>2. ASSUME NEW op \in Ops, exec[d].op = op, exec[d].step # "none", DeliveredOnce(op)'
          PROVE  DeliveredOnce(op) /\ exec[e].op # op
      BY <2>3, <3>1, <3>2 DEF DeliveredOnce
    <3>3. \A op \in Ops : exec[e].op # op =>
                     UNCHANGED outbox \/ \E frame : Send(frame) /\ Silent(frame, op)
      <4>1. CASE GoesSilently(e)
        BY <4>1 DEF GoesSilently
      <4>2. CASE Speaks(e)
        BY <4>2 DEF Speaks, Silent, Quiet
      <4>3. CASE Sends(e)
        BY <4>3 DEF Sends, Silent, Content, Success, OpLog
      <4> QED
        BY <2>1, <4>1, <4>2, <4>3
    <3> QED
      BY <1>0, <1>2, <2>3, <3>1, <3>2, <3>3, UnmovedKeeps DEF SameOutput
  <2> QED
    BY <2>2, <2>3
<1>7. CASE Commanding
  BY <1>0, <1>2, <1>7, CommandingKeepsOutput DEF LedgerKept
<1>8. CASE Restart \/ Upgrade
  BY <1>0, <1>2, <1>8, EndKeepsOutput
<1> QED
  BY <1>3, <1>4, <1>5, <1>6, <1>7, <1>8, StepsAside DEF Next, LedgerKept

\* All that OutputComplete rests on.
OutputHolds == ReportsKept /\ LedgerKept /\ \A d \in Deliveries : OutputKept(d)

(* When the Hub learns that an operation it commanded once has succeeded, it has all of the
   output of its Job, in order, if nothing failed: for any number of operations, commands and
   lines, and every capacity of the outbox (OutputComplete; watchJob reads the Job's status
   before its logs, and the outcome follows the last of them through the outbox). *)
THEOREM NoOutputMissing == Spec => []OutputComplete
<1>1. Init => OutputHolds
  <2>1. Init => LedgerKept
    BY InitReports, InitEarned, InitOrder DEF LedgerKept
  <2> QED
    BY <2>1, InitKept, InitOutput DEF OutputHolds
<1>2. OutputHolds /\ [Next]_vars => OutputHolds'
  <2> SUFFICES ASSUME OutputHolds, [Next]_vars PROVE OutputHolds'
    OBVIOUS
  <2>1. LedgerKept'
    <3>1. \A op \in Ops : OrderKept(op)'
      BY StepKeepsOrder DEF OutputHolds, LedgerKept
    <3> QED
      BY <3>1, StepKeepsReportTypes, StepKeepsEarned DEF OutputHolds, LedgerKept
  <2>2. \A d \in Deliveries : OutputKept(d)'
    BY StepKeepsOutput DEF OutputHolds
  <2> QED
    BY <2>1, <2>2, StepKeepsReports DEF OutputHolds
<1>3. OutputHolds => OutputComplete
  <2> SUFFICES ASSUME OutputHolds, NEW d \in Deliveries, NEW op, op = exec[d].op,
                      exec[d].step # "none", DeliveredOnce(op), Told(op), faults = 0
               PROVE  ledger[op].output = [i \in 1..execJob[d].output |-> i]
    BY DEF OutputComplete, Told
  <2> DEFINE o == ledger[op].output
             total == execJob[d].output
  <2>1. op \in Ops /\ o \in Seq(Nat) /\ total \in Nat
    <3>1. op \in Ops /\ total \in Nat
      BY DEF OutputHolds, LedgerKept, EarnedKept, OpsKept, ExecRecords, JobRecords
    <3> QED
      BY <3>1, LedgerTypes DEF OutputHolds, LedgerKept
  <2>2. PICK n \in Nat : Whole(outbox, o, op, n, total, Told(op))
    BY <2>1 DEF OutputHolds, OutputKept, AllThere
  <2>3. PICK mark : Marked(outbox, o, op, n, mark) /\ Complete(outbox, op, total, Told(op), mark)
    BY <2>2 DEF Whole
  <2>4. Len(outbox) \in Nat
    BY AppendFacts DEF OutputHolds, LedgerKept, EarnedKept
  <2>5. mark[1] = Len(o) /\ 1 \in 1..(Len(outbox) + 1)
    BY <2>3, <2>4 DEF Marked
  <2>6. Len(o) = total
    BY <2>3, <2>5 DEF Complete
  <2>7. \A i \in 1..Len(o) : o[i] = i
    BY <2>2 DEF Whole
  <2> HIDE DEF o, total
  <2>8. o = [i \in 1..Len(o) |-> o[i]]
    BY <2>1
  <2> QED
    BY <2>6, <2>7, <2>8 DEF o, total
<1> QED
  BY <1>1, <1>2, <1>3, PTL DEF Spec
=============================================================================
