--------------------------- MODULE TaskRunProofs ---------------------------
(***************************************************************************)
(* Proofs about the TaskRuns, for every pipeline and every bound: what any *)
(* version of a TaskRun is, however old it is when it is read, and what a  *)
(* step may do to one.                                                     *)
(***************************************************************************)
EXTENDS RunnerProofs, FiniteSetTheorems

\* Every version of t's TaskRun that may still be read.
Versions(t) ==
    {tr[t], trCache[t]}
        \cup {trWatch[i].obj : i \in {j \in 1..Len(trWatch) : trWatch[j].task = t}}

\* The last event of t in the stream, or the cached TaskRun if there is none, is the TaskRun.
CatchesUp(t) ==
    \/ TaskRunCacheCurrent(t) /\ trCache[t] = tr[t]
    \/ \E i \in 1..Len(trWatch) :
          /\ trWatch[i].task = t
          /\ trWatch[i].obj = tr[t]
          /\ \A j \in (i + 1)..Len(trWatch) : trWatch[j].task # t

\* The Hub's approvals in a version suffice to make the task Succeeded: SignedOff, of any
\* version.
Signed(t, v) == Cardinality(v.approvedBy) >= Required[t]

\* What a version of t's TaskRun is: none at all, or one of the `born' that were created; a
\* Job that failed has used up its retries or was rejected, an approval that succeeded has
\* its signatures, a Canary task that succeeded has them or its Rollout.
Sound(t, born, v) ==
    /\ v.phase = "Absent" => v = NoTaskRun
    /\ v.phase # "Absent" => v.uid \in 1..born
    /\ v.retries <= MaxRetries
    /\ Type[t] = "Job" /\ v.phase = "Failed" /\ v.rejectedBy = {} => v.retries = MaxRetries
    /\ IsFiniteSet(v.approvedBy)
    /\ Type[t] = "Approval" /\ v.phase = "Succeeded" => Signed(t, v)
    /\ Type[t] = "Canary" /\ v.phase = "Succeeded" => v.ref \/ Signed(t, v)

\* A later version of the same TaskRun that was not reset in between: it has the signatures
\* v had, and a rejection if v had one; a finished Job is still finished, its outcome
\* overruled only by the Hub; a Rollout is still referred to.
Follows(t, v, w) ==
    /\ w.phase # "Absent"
    /\ w.uid = v.uid
    /\ v.approvedBy \subseteq w.approvedBy
    /\ Signed(t, v) => Signed(t, w)
    /\ v.rejectedBy # {} => w.rejectedBy # {}
    /\ Type[t] = "Job" /\ v.phase \in {"Succeeded", "Failed"} =>
          w.phase \in {"Succeeded", "Failed"}
    /\ Type[t] = "Job" /\ v.phase = "Succeeded" => w.phase = "Succeeded" \/ w.rejectedBy # {}
    /\ Type[t] = "Job" /\ v.phase = "Failed" => w.phase = "Failed" \/ Signed(t, w)
    /\ Type[t] = "Canary" /\ v.ref => w.ref

\* A finished Job has the outcome it had: what a reconcile writes, but not what the Hub
\* decides, is always so.
SameOutcome(t, v, w) ==
    Type[t] = "Job" /\ v.phase \in {"Succeeded", "Failed"} => w.phase = v.phase

\* A reconcile in hand writes a sound version, and if its copy is current one that follows
\* the TaskRun.
TaskRunCopyHolds ==
    trc.step # "idle" =>
       /\ Sound(trc.task, births[trc.task], trc.next)
       /\ trc.next.phase # "Absent"
       /\ "TaskRun" \in trCurrent[trc.task] =>
             /\ Exists(tr, trc.task)
             /\ Follows(trc.task, tr[trc.task], trc.next)
             /\ SameOutcome(trc.task, tr[trc.task], trc.next)

\* The rerun handler resets a TaskRun that is there.
RerunTaskHolds ==
    rerun.step \in {"deleteChild", "reset"} /\ "Rerun" \in trCurrent[rerun.task]
        => Exists(tr, rerun.task)

TaskRunsHold ==
    /\ \A t \in Tasks : CatchesUp(t)
    /\ \A t \in Tasks : \A v \in Versions(t) : Sound(t, births[t], v)
    /\ \A t \in Tasks : Exists(tr, t) => tr[t].uid = births[t]
    /\ \A t \in Tasks : child[t].status # "Absent" => births[t] >= 1
    /\ TaskRunCopyHolds
    /\ RerunTaskHolds
-----------------------------------------------------------------------------
(* The stream of TaskRun events. *)

Events == [task : Tasks, obj : TaskRuns]

\* Membership in Versions, without the nested sets.
LEMMA VersionCases ==
    ASSUME NEW t, NEW v
    PROVE  v \in Versions(t) <=>
              \/ v = tr[t]
              \/ v = trCache[t]
              \/ \E i \in 1..Len(trWatch) : trWatch[i].task = t /\ v = trWatch[i].obj
BY DEF Versions

\* A write of a TaskRun, and be it of the version there is.
Writes(t, obj, client) == PutTaskRun(t, obj, client) \/ (RestampTaskRun(t) /\ obj = tr[t])

\* It adds one version to those of its task, and the stream ends with it.
LEMMA PutTaskRunVersions ==
    ASSUME tr \in [Tasks -> TaskRuns], trWatch \in Seq(Events),
           trCurrent \in [Tasks -> SUBSET Clients], \A u \in Tasks : CatchesUp(u),
           NEW t \in Tasks, NEW obj \in TaskRuns, NEW client,
           Writes(t, obj, client), UNCHANGED trCache
    PROVE  /\ \A u \in Tasks : CatchesUp(u)'
           /\ \A u \in Tasks : \A v \in Versions(u)' : v \in Versions(u) \/ (u = t /\ v = obj)
           /\ tr' = [tr EXCEPT ![t] = obj]
           /\ \A u \in Tasks : trCurrent'[u] \subseteq trCurrent[u]
           /\ obj # tr[t] => trCurrent'[t] = {}
<1>1. CASE PutTaskRun(t, obj, client) /\ obj = tr[t]
  <2>1. UNCHANGED <<tr, trWatch>> /\ trCurrent' = [trCurrent EXCEPT ![t] = @ \ {client}]
    BY <1>1 DEF PutTaskRun
  <2>2. \A u \in Tasks : CatchesUp(u)' /\ Versions(u)' = Versions(u)
    BY <2>1 DEF CatchesUp, TaskRunCacheCurrent, Versions
  <2> QED
    BY <1>1, <2>1, <2>2
<1>2. CASE (PutTaskRun(t, obj, client) /\ obj # tr[t]) \/ (RestampTaskRun(t) /\ obj = tr[t])
  <2> DEFINE event == [task |-> t, obj |-> obj]
             n == Len(trWatch)
  <2>1. /\ tr' = [tr EXCEPT ![t] = obj]
        /\ trWatch' = Append(trWatch, event)
        /\ trCurrent' = [trCurrent EXCEPT ![t] = {}]
    BY <1>2 DEF PutTaskRun, RestampTaskRun
  <2>2. event \in Events /\ event.task = t /\ event.obj = obj
    BY DEF Events
  <2>3. n \in Nat
    BY LenProperties
  <2> HIDE DEF event, n
  <2>4. /\ Len(trWatch') = n + 1
        /\ \A i \in 1..n : trWatch'[i] = trWatch[i]
        /\ trWatch'[n + 1] = event
    BY <2>1, <2>2, AppendProperties DEF n
  <2>5. ASSUME NEW u \in Tasks PROVE CatchesUp(u)'
    <3>1. CASE u = t
      <4>1. n + 1 \in 1..Len(trWatch')
        BY <2>3, <2>4
      <4>2. trWatch'[n + 1].task = u /\ trWatch'[n + 1].obj = tr'[u]
        BY <2>1, <2>2, <2>4, <3>1
      <4>3. \A j \in ((n + 1) + 1)..Len(trWatch') : FALSE
        BY <2>3, <2>4
      <4> QED
        BY <4>1, <4>2, <4>3 DEF CatchesUp
    <3>2. CASE u # t
      <4>1. tr'[u] = tr[u]
        BY <2>1, <3>2
      <4>2. \A i \in 1..Len(trWatch') : i \in 1..n \/ (i = n + 1 /\ trWatch'[i].task # u)
        BY <2>2, <2>3, <2>4, <3>2
      <4>3. CASE TaskRunCacheCurrent(u) /\ trCache[u] = tr[u]
        <5>1. TaskRunCacheCurrent(u)'
          BY <2>4, <4>2, <4>3 DEF TaskRunCacheCurrent, n
        <5> QED
          BY <4>1, <4>3, <5>1 DEF CatchesUp
      <4>4. ASSUME NEW i \in 1..n, trWatch[i].task = u, trWatch[i].obj = tr[u],
                   \A j \in (i + 1)..n : trWatch[j].task # u
            PROVE  CatchesUp(u)'
        <5>1. i \in 1..Len(trWatch') /\ trWatch'[i] = trWatch[i]
          BY <2>3, <2>4
        <5>2. ASSUME NEW j \in (i + 1)..Len(trWatch') PROVE trWatch'[j].task # u
          <6>1. j \in 1..Len(trWatch')
            BY <2>3, <2>4
          <6> QED
            BY <2>3, <2>4, <4>2, <4>4, <6>1
        <5> QED
          BY <4>1, <4>4, <5>1, <5>2 DEF CatchesUp
      <4> QED
        BY <4>3, <4>4 DEF CatchesUp, n
    <3> QED
      BY <3>1, <3>2
  <2>6. ASSUME NEW u \in Tasks, NEW v \in Versions(u)'
        PROVE  v \in Versions(u) \/ (u = t /\ v = obj)
    <3>1. \/ v = tr'[u]
          \/ v = trCache[u]
          \/ \E i \in 1..Len(trWatch') : trWatch'[i].task = u /\ v = trWatch'[i].obj
      BY <2>6 DEF Versions
    <3>2. CASE v = tr'[u]
      BY <2>1, <3>2, VersionCases
    <3>3. CASE v = trCache[u]
      BY <3>3, VersionCases
    <3>4. ASSUME NEW i \in 1..Len(trWatch'), trWatch'[i].task = u, v = trWatch'[i].obj
          PROVE  v \in Versions(u) \/ (u = t /\ v = obj)
      <4>1. CASE i \in 1..n
        BY <2>4, <3>4, <4>1, VersionCases DEF n
      <4>2. CASE i = n + 1
        BY <2>2, <2>4, <3>4, <4>2
      <4> QED
        BY <2>3, <2>4, <4>1, <4>2
    <3> QED
      BY <3>1, <3>2, <3>3, <3>4
  <2> QED
    BY <1>2, <2>1, <2>5, <2>6
<1> QED
  BY <1>1, <1>2 DEF Writes

\* The delivery of an event loses versions, and gains none.
LEMMA SyncTaskRunVersions ==
    ASSUME tr \in [Tasks -> TaskRuns], trCache \in [Tasks -> TaskRuns], trWatch \in Seq(Events),
           \A u \in Tasks : CatchesUp(u), SyncTaskRun
    PROVE  \A u \in Tasks : CatchesUp(u)' /\ Versions(u)' \subseteq Versions(u)
<1> DEFINE n == Len(trWatch)
<1>1. /\ trWatch # << >> /\ trWatch' = Tail(trWatch)
      /\ trCache' = [trCache EXCEPT ![Head(trWatch).task] = Head(trWatch).obj]
      /\ UNCHANGED tr
  BY DEF SyncTaskRun, objects
<1>2. /\ n \in Nat /\ n >= 1
      /\ Head(trWatch) = trWatch[1]
      /\ Len(trWatch') = n - 1
      /\ \A i \in 1..(n - 1) : trWatch'[i] = trWatch[i + 1]
  BY <1>1, HeadTailProperties, LenProperties, EmptySeq
<1> HIDE DEF n
<1>3. trWatch[1].task \in Tasks
  <2>1. trWatch[1] \in Events
    BY <1>1, <1>2, HeadTailProperties
  <2> QED
    BY <2>1 DEF Events
<1>4. \A u \in Tasks : trCache'[u] = IF u = trWatch[1].task THEN trWatch[1].obj ELSE trCache[u]
  BY <1>1, <1>2, <1>3
<1>5. ASSUME NEW u \in Tasks PROVE CatchesUp(u)'
  <2>1. CASE TaskRunCacheCurrent(u) /\ trCache[u] = tr[u]
    <3>1. \A i \in 1..n : trWatch[i].task # u
      BY <2>1 DEF TaskRunCacheCurrent, n
    <3>2. trCache'[u] = tr'[u]
      BY <1>1, <1>2, <1>4, <2>1, <3>1
    <3>3. \A i \in 1..(n - 1) : trWatch'[i].task # u
      BY <1>2, <3>1
    <3> QED
      BY <1>2, <3>2, <3>3 DEF CatchesUp, TaskRunCacheCurrent
  <2>2. ASSUME NEW i \in 1..n, trWatch[i].task = u, trWatch[i].obj = tr[u],
               \A j \in (i + 1)..n : trWatch[j].task # u
        PROVE  CatchesUp(u)'
    <3>1. CASE i = 1
      <4>1. trCache'[u] = tr'[u]
        BY <1>1, <1>4, <2>2, <3>1
      <4>2. \A k \in 1..(n - 1) : trWatch'[k].task # u
        BY <1>2, <2>2, <3>1
      <4> QED
        BY <1>2, <4>1, <4>2 DEF CatchesUp, TaskRunCacheCurrent
    <3>2. CASE i # 1
      <4>1. i - 1 \in 1..Len(trWatch') /\ trWatch'[i - 1] = trWatch[i]
        BY <1>2, <3>2
      <4>2. ASSUME NEW j \in ((i - 1) + 1)..Len(trWatch') PROVE trWatch'[j].task # u
        BY <1>2, <2>2
      <4> QED
        BY <1>1, <2>2, <4>1, <4>2 DEF CatchesUp
    <3> QED
      BY <3>1, <3>2
  <2> QED
    BY <2>1, <2>2 DEF CatchesUp, n
<1>6. ASSUME NEW u \in Tasks, NEW v \in Versions(u)' PROVE v \in Versions(u)
  <2>1. \/ v = tr'[u]
        \/ v = trCache'[u]
        \/ \E i \in 1..Len(trWatch') : trWatch'[i].task = u /\ v = trWatch'[i].obj
    BY <1>6 DEF Versions
  <2>2. CASE v = tr'[u]
    BY <1>1, <2>2, VersionCases
  <2>3. CASE v = trCache'[u]
    BY <1>2, <1>4, <2>3, VersionCases DEF n
  <2>4. ASSUME NEW i \in 1..Len(trWatch'), trWatch'[i].task = u, v = trWatch'[i].obj
        PROVE  v \in Versions(u)
    <3>1. i + 1 \in 1..n /\ trWatch'[i] = trWatch[i + 1]
      BY <1>2
    <3> QED
      BY <2>4, <3>1, VersionCases DEF n
  <2> QED
    BY <2>1, <2>2, <2>3, <2>4
<1> QED
  BY <1>5, <1>6
-----------------------------------------------------------------------------
(* What keeps TaskRunsHold. *)

LEMMA SoundGrows ==
    ASSUME NEW t, NEW m \in Nat, NEW n \in Nat, m <= n, NEW v \in TaskRuns, Sound(t, m, v)
    PROVE  Sound(t, n, v)
BY DEF Sound, TaskRuns

LEMMA FollowsItself ==
    ASSUME NEW t, NEW v, v.phase # "Absent"
    PROVE  Follows(t, v, v) /\ SameOutcome(t, v, v)
BY DEF Follows, SameOutcome

\* The versions of a TaskRun are TaskRuns.
LEMMA VersionType ==
    ASSUME ClusterTypeOK, NEW t \in Tasks, NEW v \in Versions(t)
    PROVE  v \in TaskRuns
<1>1. CASE v = tr[t] \/ v = trCache[t]
  BY <1>1 DEF ClusterTypeOK
<1>2. ASSUME NEW i \in 1..Len(trWatch), v = trWatch[i].obj PROVE v \in TaskRuns
  <2>1. trWatch \in Seq(Events)
    BY DEF ClusterTypeOK, Events
  <2>2. trWatch[i] \in Events
    BY <2>1
  <2> QED
    BY <1>2, <2>2 DEF Events
<1> QED
  BY <1>1, <1>2, VersionCases

\* What is in hand is still in hand, or no more, or one call further.
HandKept ==
    /\ trc'.step # "idle" => trc.step # "idle" /\ trc'.task = trc.task /\ trc'.next = trc.next
    /\ rerun'.step \in {"deleteChild", "reset"} =>
          rerun.step \in {"deleteChild", "reset"} /\ rerun'.task = rerun.task

\* A child that appears is that of a task whose TaskRun was created.
ChildrenKept ==
    \A t \in Tasks : child'[t].status # "Absent" => child[t].status # "Absent" \/ births[t] >= 1

\* A step that writes and delivers no TaskRun, and reads none.
LEMMA QuietHolds ==
    ASSUME TypeOK, TaskRunsHold, UNCHANGED <<tr, trWatch, trCache, births>>,
           \A t \in Tasks : trCurrent'[t] \subseteq trCurrent[t],
           HandKept, ChildrenKept
    PROVE  TaskRunsHold'
<1>1. trc.task \in Tasks /\ rerun.task \in Tasks
  BY DEF TypeOK, TrcTypeOK, DispatchTypeOK
<1>2. \A t \in Tasks : CatchesUp(t)' /\ Versions(t)' = Versions(t)
  BY DEF TaskRunsHold, CatchesUp, TaskRunCacheCurrent, Versions
<1>3. TaskRunCopyHolds'
  BY <1>1 DEF TaskRunsHold, TaskRunCopyHolds, HandKept, Exists
<1>4. RerunTaskHolds'
  BY <1>1 DEF TaskRunsHold, RerunTaskHolds, HandKept, Exists
<1> QED
  BY <1>2, <1>3, <1>4 DEF TaskRunsHold, ChildrenKept, Exists

\* A write of a TaskRun by anybody.
LEMMA WriteTaskRunHolds ==
    ASSUME TypeOK, TaskRunsHold, NEW t \in Tasks, NEW obj \in TaskRuns, NEW client,
           Writes(t, obj, client), UNCHANGED <<trCache, child>>, HandKept,
           births' \in [Tasks -> Nat],
           \A u \in Tasks : births'[u] = births[u] \/ (u = t /\ births'[u] = births[u] + 1),
           Sound(t, births'[t], obj), obj.phase # "Absent" => obj.uid = births'[t]
    PROVE  TaskRunsHold'
<1>1. /\ trc.task \in Tasks /\ trc.next \in TaskRuns /\ rerun.task \in Tasks
      /\ tr \in [Tasks -> TaskRuns] /\ trWatch \in Seq(Events)
      /\ trCurrent \in [Tasks -> SUBSET Clients] /\ births \in [Tasks -> Nat]
  BY DEF TypeOK, ClusterTypeOK, TrcTypeOK, DispatchTypeOK, Events
<1>2. /\ \A u \in Tasks : CatchesUp(u)'
      /\ \A u \in Tasks : \A v \in Versions(u)' : v \in Versions(u) \/ (u = t /\ v = obj)
      /\ tr' = [tr EXCEPT ![t] = obj]
      /\ \A u \in Tasks : trCurrent'[u] \subseteq trCurrent[u]
      /\ obj # tr[t] => trCurrent'[t] = {}
  BY <1>1, PutTaskRunVersions DEF TaskRunsHold
<1>3. \A u \in Tasks : births[u] \in Nat /\ births'[u] \in Nat /\ births[u] <= births'[u]
  BY <1>1
<1>4. ASSUME NEW u \in Tasks, NEW v \in Versions(u)' PROVE Sound(u, births'[u], v)
  <2>1. CASE v \in Versions(u)
    <3>1. v \in TaskRuns /\ Sound(u, births[u], v)
      BY <2>1, VersionType DEF TypeOK, TaskRunsHold
    <3> QED
      BY <1>3, <3>1, SoundGrows
  <2> QED
    BY <1>2, <1>4, <2>1
<1>5. \A u \in Tasks : Exists(tr', u) => tr'[u].uid = births'[u]
  BY <1>1, <1>2 DEF TaskRunsHold, Exists
<1>6. \A u \in Tasks : child'[u].status # "Absent" => births'[u] >= 1
  BY <1>3 DEF TaskRunsHold
<1>7. TaskRunCopyHolds'
  <2>1. SUFFICES ASSUME trc'.step # "idle"
                 PROVE  /\ Sound(trc.task, births'[trc.task], trc.next)
                        /\ trc.next.phase # "Absent"
                        /\ "TaskRun" \in trCurrent'[trc.task] =>
                              /\ Exists(tr', trc.task)
                              /\ Follows(trc.task, tr'[trc.task], trc.next)
                              /\ SameOutcome(trc.task, tr'[trc.task], trc.next)
    BY DEF TaskRunCopyHolds, HandKept, Exists
  <2>2. /\ Sound(trc.task, births[trc.task], trc.next)
        /\ trc.next.phase # "Absent"
        /\ "TaskRun" \in trCurrent[trc.task] =>
              /\ Exists(tr, trc.task)
              /\ Follows(trc.task, tr[trc.task], trc.next)
              /\ SameOutcome(trc.task, tr[trc.task], trc.next)
    BY <2>1 DEF TaskRunsHold, TaskRunCopyHolds, HandKept
  <2>3. Sound(trc.task, births'[trc.task], trc.next)
    BY <1>1, <1>3, <2>2, SoundGrows
  <2>4. "TaskRun" \in trCurrent'[trc.task] =>
            "TaskRun" \in trCurrent[trc.task] /\ tr'[trc.task] = tr[trc.task]
    BY <1>1, <1>2
  <2> QED
    BY <2>2, <2>3, <2>4 DEF Exists
<1>8. RerunTaskHolds'
  <2>1. "Rerun" \in trCurrent'[rerun.task] =>
            "Rerun" \in trCurrent[rerun.task] /\ tr'[rerun.task] = tr[rerun.task]
    BY <1>1, <1>2
  <2> QED
    BY <2>1 DEF TaskRunsHold, RerunTaskHolds, HandKept, Exists
<1> QED
  BY <1>2, <1>4, <1>5, <1>6, <1>7, <1>8 DEF TaskRunsHold, Exists
-----------------------------------------------------------------------------
(* The steps. *)

\* What a step may do to the TaskRun of a task: write a version that follows it, with another
\* outcome of a finished Job only if the Hub decides on it, create one where there is none,
\* delete it on a cancel or a rerun, or reset it on a rerun.
TaskRunMove(t) ==
    \/ tr'[t] = tr[t] /\ births'[t] = births[t]
    \/ /\ Exists(tr, t)
       /\ Follows(t, tr[t], tr'[t])
       /\ SameOutcome(t, tr[t], tr'[t]) \/ Decides(t)
       /\ births'[t] = births[t]
    \/ /\ ~Exists(tr, t)
       /\ tr'[t] = NewTaskRun(t)
       /\ births'[t] = births[t] + 1
       /\ prc.step = "create" /\ t \in prc.todo
    \/ /\ tr'[t] = NoTaskRun /\ births'[t] = births[t]
       /\ \/ prc.step = "delete"
          \/ rerun.step = "downstream" /\ t \in rerun.todo /\ t \notin rerun'.todo
    \/ /\ Resets(t)
       /\ Exists(tr, t)
       /\ tr'[t] = Reset(tr[t])
       /\ births'[t] = births[t]

\* A step that writes one TaskRun, as TaskRunMove says.
LEMMA OneMove ==
    ASSUME TypeOK, NEW t \in Tasks, NEW obj \in TaskRuns, NEW client, Writes(t, obj, client),
           births' = births \/ births' = [births EXCEPT ![t] = @ + 1],
           tr' = [tr EXCEPT ![t] = obj] => TaskRunMove(t)
    PROVE  \A u \in Tasks : TaskRunMove(u)
<1>1. tr \in [Tasks -> TaskRuns] /\ births \in [Tasks -> Nat]
  BY DEF TypeOK, ClusterTypeOK
<1>2. tr' = [tr EXCEPT ![t] = obj]
  BY <1>1 DEF Writes, PutTaskRun, RestampTaskRun
<1>3. ASSUME NEW u \in Tasks, u # t PROVE tr'[u] = tr[u] /\ births'[u] = births[u]
  BY <1>1, <1>2, <1>3
<1> QED
  BY <1>2, <1>3 DEF TaskRunMove

\* What the clients write is sound.
LEMMA NewTaskRunSound ==
    ASSUME TypeOK, NEW t \in Tasks
    PROVE  /\ NewTaskRun(t) \in TaskRuns
           /\ NewTaskRun(t).uid = births[t] + 1 /\ NewTaskRun(t).phase = ""
           /\ Sound(t, births[t] + 1, NewTaskRun(t))
           /\ Sound(t, births[t], NoTaskRun) /\ NoTaskRun.phase = "Absent"
<1>1. births[t] \in Nat /\ births[t] + 1 \in Nat
  <2>1. births[t] \in Nat
    BY DEF TypeOK, ClusterTypeOK
  <2> QED
    BY <2>1
<1>2. /\ NewTaskRun(t) \in TaskRuns
      /\ NewTaskRun(t).uid = births[t] + 1 /\ NewTaskRun(t).phase = ""
      /\ NewTaskRun(t).retries = 0 /\ NewTaskRun(t).approvedBy = {}
      /\ NewTaskRun(t).rejectedBy = {}
  BY <1>1 DEF NewTaskRun, NoTaskRun, TaskRuns, TaskRunPhases
<1>3. NoTaskRun.retries = 0 /\ NoTaskRun.approvedBy = {} /\ NoTaskRun.phase = "Absent"
  BY DEF NoTaskRun
<1>4. IsFiniteSet({})
  BY FS_EmptySet
<1>5. Sound(t, births[t] + 1, NewTaskRun(t))
  <2>1. births[t] + 1 \in 1..(births[t] + 1) /\ 0 <= MaxRetries
    BY <1>1, RetriesAssumption
  <2> HIDE DEF NewTaskRun
  <2> QED
    BY <1>2, <1>4, <2>1 DEF Sound
<1>6. Sound(t, births[t], NoTaskRun)
  BY <1>3, <1>4, RetriesAssumption DEF Sound
<1> QED
  BY <1>2, <1>3, <1>5, <1>6

LEMMA ClusterHolds ==
    ASSUME TypeOK, TaskRunsHold, ClusterStep
    PROVE  TaskRunsHold' /\ \A t \in Tasks : TaskRunMove(t)
<1>1. UNCHANGED <<prc, trc, rerun>>
  BY DEF ClusterStep, local, dispatchVars
<1>2. UNCHANGED <<tr, births>>
  BY DEF ClusterStep, ClusterNext, SyncPipelineRun, SyncTaskRun, SyncChild, ChildProgress,
         CollectGarbage, objects
<1>3. HandKept
  BY <1>1 DEF HandKept
<1>4. \A t \in Tasks : TaskRunMove(t)
  BY <1>2 DEF TaskRunMove
<1>5. CASE SyncTaskRun
  <2>1. /\ tr \in [Tasks -> TaskRuns] /\ trCache \in [Tasks -> TaskRuns]
        /\ trWatch \in Seq(Events)
    BY DEF TypeOK, ClusterTypeOK, Events
  <2>2. \A t \in Tasks : CatchesUp(t)' /\ Versions(t)' \subseteq Versions(t)
    BY <1>5, <2>1, SyncTaskRunVersions DEF TaskRunsHold
  <2>3. UNCHANGED <<child, trCurrent>>
    BY <1>5 DEF SyncTaskRun, objects, versions
  <2>4. TaskRunCopyHolds' /\ RerunTaskHolds'
    BY <1>1, <1>2, <2>3 DEF TaskRunsHold, TaskRunCopyHolds, RerunTaskHolds, Exists
  <2> QED
    BY <1>2, <1>4, <2>2, <2>3, <2>4 DEF TaskRunsHold, Exists
<1>6. CASE SyncPipelineRun \/ \E t \in Tasks : SyncChild(t)
  <2>1. UNCHANGED <<tr, trWatch, trCache, births, trCurrent, child>>
    BY <1>6 DEF SyncPipelineRun, SyncChild, objects, watches, versions
  <2> QED
    BY <1>3, <1>4, <2>1, QuietHolds DEF ChildrenKept
<1>7. ASSUME NEW t \in Tasks, ChildProgress(t) \/ CollectGarbage(t)
      PROVE  TaskRunsHold'
  <2>1. UNCHANGED <<tr, trWatch, trCache, births, trCurrent>>
    BY <1>7 DEF ChildProgress, CollectGarbage, caches, watches, versions
  <2>2. ChildrenKept
    <3>1. child \in [Tasks -> Children]
      BY DEF TypeOK, ClusterTypeOK
    <3>2. CASE ChildProgress(t)
      <4>1. child[t].status # "Absent"
        BY <3>2 DEF ChildProgress
      <4>2. PICK status : child' = [child EXCEPT ![t].status = status]
        BY <3>2 DEF ChildProgress
      <4>3. \A u \in Tasks : u # t => child'[u] = child[u]
        BY <3>1, <4>2
      <4> QED
        BY <4>1, <4>3 DEF ChildrenKept
    <3>3. CASE CollectGarbage(t)
      BY <3>1, <3>3 DEF CollectGarbage, ChildrenKept, NoChild
    <3> QED
      BY <1>7, <3>2, <3>3
  <2> QED
    BY <1>3, <2>1, <2>2, QuietHolds
<1> QED
  BY <1>4, <1>5, <1>6, <1>7 DEF ClusterStep, ClusterNext

LEMMA PipelineRunHolds ==
    ASSUME TypeOK, TaskRunsHold, PipelineRunStep
    PROVE  TaskRunsHold' /\ \A t \in Tasks : TaskRunMove(t)
<1>1. /\ PrcNext /\ UNCHANGED <<trc, rerun>>
      /\ prc \in [step : PrSteps, todo : SUBSET Tasks, next : PipelineRuns]
      /\ births \in [Tasks -> Nat] /\ tr \in [Tasks -> TaskRuns]
  BY DEF PipelineRunStep, dispatchVars, TypeOK, PrcTypeOK, ClusterTypeOK
<1>2. HandKept
  BY <1>1 DEF HandKept
<1>3. CASE CreateNext
  <2>1. PICK t \in prc.todo : CreateTaskRun(t)
    BY <1>3 DEF CreateNext
  <2>2. t \in Tasks /\ prc.step = "create" /\ UNCHANGED <<trCache, child>>
    BY <1>1, <1>3 DEF CreateNext, caches
  <2>3. CASE Exists(tr, t)
    <3>1. UNCHANGED <<tr, trWatch, trCurrent, births>>
      BY <2>1, <2>3 DEF CreateTaskRun, trVars
    <3>2. \A u \in Tasks : TaskRunMove(u)
      BY <3>1 DEF TaskRunMove
    <3> QED
      BY <1>2, <2>2, <3>1, <3>2, QuietHolds DEF ChildrenKept
  <2>4. CASE ~Exists(tr, t)
    <3>1. /\ PutTaskRun(t, NewTaskRun(t), "")
          /\ births' = [births EXCEPT ![t] = @ + 1]
      BY <2>1, <2>4 DEF CreateTaskRun
    <3>2. births[t] \in Nat /\ births'[t] = births[t] + 1 /\ births' \in [Tasks -> Nat]
      <4>1. births[t] \in Nat /\ births[t] + 1 \in Nat
        <5>1. births[t] \in Nat
          BY <1>1, <2>2
        <5> QED
          BY <5>1
      <4> QED
        BY <1>1, <2>2, <3>1, <4>1
    <3>3. \A u \in Tasks : births'[u] = births[u] \/ (u = t /\ births'[u] = births[u] + 1)
      BY <1>1, <3>1
    <3>4. tr' = [tr EXCEPT ![t] = NewTaskRun(t)] => TaskRunMove(t)
      BY <1>1, <2>2, <2>4, <3>2 DEF TaskRunMove
    <3>5. \A u \in Tasks : TaskRunMove(u)
      BY <2>2, <3>1, <3>4, NewTaskRunSound, OneMove DEF Writes
    <3>6. TaskRunsHold'
      BY <1>2, <2>2, <3>1, <3>2, <3>3, NewTaskRunSound, WriteTaskRunHolds DEF Writes
    <3> QED
      BY <3>5, <3>6
  <2> QED
    BY <2>3, <2>4
<1>4. CASE DeleteNext
  <2>1. PICK t \in prc.todo : PutTaskRun(t, NoTaskRun, "")
    BY <1>4 DEF DeleteNext, DeleteTaskRun
  <2>2. t \in Tasks /\ prc.step = "delete" /\ UNCHANGED <<trCache, child, births>>
    BY <1>1, <1>4 DEF DeleteNext, caches
  <2>3. tr' = [tr EXCEPT ![t] = NoTaskRun] => TaskRunMove(t)
    BY <1>1, <2>2 DEF TaskRunMove
  <2>4. \A u \in Tasks : TaskRunMove(u)
    BY <2>1, <2>2, <2>3, RecordTypes, OneMove DEF Writes
  <2>5. TaskRunsHold'
    BY <1>1, <1>2, <2>1, <2>2, NewTaskRunSound, RecordTypes, WriteTaskRunHolds DEF Writes
  <2> QED
    BY <2>4, <2>5
<1>5. CASE UNCHANGED <<tr, trWatch, trCache, births, child, trCurrent>>
  <2>1. \A u \in Tasks : TaskRunMove(u)
    BY <1>5 DEF TaskRunMove
  <2> QED
    BY <1>2, <1>5, <2>1, QuietHolds DEF ChildrenKept
<1>6. Reconcile \/ UpdateStatus \/ StatusConflict \/ ClearCancel
        => UNCHANGED <<tr, trWatch, trCache, births, child, trCurrent>>
  BY DEF Reconcile, IgnoreRun, AwaitApproval, StopOnFailure, Advance, RefuseCancel, BeginCancel,
         PrStart, UpdateStatus, StatusConflict, PrAbort, ClearCancel, objects, caches, watches,
         versions
<1> QED
  BY <1>1, <1>3, <1>4, <1>5, <1>6 DEF PrcNext

\* A copy that is read while no event of the TaskRun is on its way is the TaskRun.
LEMMA ReadTaskRunIsCurrent ==
    ASSUME NEW t \in Tasks, CatchesUp(t), TaskRunCacheCurrent(t)
    PROVE  trCache[t] = tr[t]
BY DEF CatchesUp, TaskRunCacheCurrent

\* A reconcile of a TaskRun takes up a decision about the copy it has just read.
LEMMA TrStartHolds ==
    ASSUME TypeOK, TaskRunsHold, NEW t \in Tasks, NEW step, NEW next, TrStart(t, step, next),
           UNCHANGED rerun,
           Sound(t, births[t], next), Exists(trCache, t), Follows(t, trCache[t], next),
           SameOutcome(t, trCache[t], next)
    PROVE  TaskRunsHold'
<1>1. /\ UNCHANGED <<tr, trWatch, trCache, births, child>>
      /\ trc'.step = step /\ trc'.task = t /\ trc'.next = next
      /\ trCurrent' = ReadTaskRun("TaskRun", t)
  BY DEF TrStart, objects, caches, watches
<1>2. trCurrent \in [Tasks -> SUBSET Clients] /\ rerun.task \in Tasks
  BY DEF TypeOK, ClusterTypeOK, DispatchTypeOK
<1>3. \A u \in Tasks : CatchesUp(u)' /\ Versions(u)' = Versions(u)
  BY <1>1 DEF TaskRunsHold, CatchesUp, TaskRunCacheCurrent, Versions
<1>4. "TaskRun" \in trCurrent'[t] => TaskRunCacheCurrent(t)
  BY <1>1, <1>2 DEF ReadTaskRun
<1>5. TaskRunCopyHolds'
  <2>1. next.phase # "Absent"
    BY DEF Follows
  <2>2. TaskRunCacheCurrent(t) => trCache[t] = tr[t]
    BY ReadTaskRunIsCurrent DEF TaskRunsHold
  <2> QED
    BY <1>1, <1>4, <2>1, <2>2 DEF TaskRunCopyHolds, Exists
<1>6. \A u \in Tasks : "Rerun" \in trCurrent'[u] => "Rerun" \in trCurrent[u]
  BY <1>1, <1>2 DEF ReadTaskRun
<1>7. RerunTaskHolds'
  BY <1>1, <1>2, <1>6 DEF TaskRunsHold, RerunTaskHolds, Exists
<1> QED
  BY <1>1, <1>3, <1>5, <1>7 DEF TaskRunsHold, Exists

\* What the TaskRun controller decides on is sound and follows the copy it read.
LEMMA ReconcileTaskRunHolds ==
    ASSUME TypeOK, TaskRunsHold, NEW t \in Tasks, ReconcileTaskRun(t), UNCHANGED rerun
    PROVE  TaskRunsHold' /\ UNCHANGED <<tr, births>>
<1> DEFINE own == trCache[t]
<1>1. /\ own \in TaskRuns /\ childCache[t] \in Children /\ births[t] \in Nat
      /\ Type[t] \in TaskTypes
  BY DagAssumption DEF TypeOK, ClusterTypeOK
<1>2. Sound(t, births[t], own)
  <2>1. own \in Versions(t)
    BY VersionCases
  <2> QED
    BY <2>1 DEF TaskRunsHold
<1> HIDE DEF own
<1>3. ASSUME NEW step, NEW next, TrStart(t, step, next), own.phase # "Absent",
             Sound(t, births[t], next), Follows(t, own, next), SameOutcome(t, own, next)
      PROVE  TaskRunsHold' /\ UNCHANGED <<tr, births>>
  <2>1. Exists(trCache, t)
    BY <1>3 DEF Exists, own
  <2>2. TaskRunsHold'
    BY <1>3, <2>1, TrStartHolds DEF own
  <2> QED
    BY <1>3, <2>2 DEF TrStart, objects
<1>4. CASE IgnoreTaskRun(t)
  <2>1. UNCHANGED <<tr, trWatch, trCache, births, trCurrent, child, trc>>
    BY <1>4 DEF IgnoreTaskRun, objects, caches, watches, versions
  <2> QED
    BY <2>1, QuietHolds DEF HandKept, ChildrenKept
<1>5. CASE PrepareApproval(t)
  <2> DEFINE next == [own EXCEPT !.phase = "Pending", !.asked = TRUE]
  <2>1. /\ next.phase = "Pending" /\ next.uid = own.uid /\ next.retries = own.retries
        /\ next.approvedBy = own.approvedBy /\ next.rejectedBy = own.rejectedBy
    BY <1>1 DEF TaskRuns
  <2>2. Type[t] = "Approval" /\ own.phase # "Absent" /\ TrStart(t, "update", next)
    BY <1>5 DEF PrepareApproval, NothingToDo, own
  <2> HIDE DEF next
  <2>3. Sound(t, births[t], next) /\ Follows(t, own, next) /\ SameOutcome(t, own, next)
    BY <1>2, <2>1, <2>2 DEF Sound, Follows, SameOutcome, Signed
  <2> QED
    BY <1>3, <2>2, <2>3
<1>6. CASE StartChild(t)
  <2> DEFINE next == [own EXCEPT !.phase = "Running", !.ref = TRUE]
  <2>1. /\ next.phase = "Running" /\ next.uid = own.uid /\ next.retries = own.retries
        /\ next.approvedBy = own.approvedBy /\ next.rejectedBy = own.rejectedBy
        /\ next.ref = TRUE
    BY <1>1 DEF TaskRuns
  <2>2. /\ own.phase # "Absent" /\ TrStart(t, "createChild", next)
        /\ Type[t] = "Job" => own.phase \notin {"Succeeded", "Failed"}
    BY <1>6 DEF StartChild, NothingToDo, own
  <2> HIDE DEF next
  <2>3. Sound(t, births[t], next) /\ Follows(t, own, next) /\ SameOutcome(t, own, next)
    BY <1>2, <2>1, <2>2 DEF Sound, Follows, SameOutcome, Signed
  <2> QED
    BY <1>3, <2>2, <2>3
<1>7. CASE RetryJob(t)
  <2> DEFINE next == [own EXCEPT !.retries = @ + 1, !.ref = FALSE]
  <2>1. /\ next.phase = own.phase /\ next.uid = own.uid /\ next.retries = own.retries + 1
        /\ next.approvedBy = own.approvedBy /\ next.rejectedBy = own.rejectedBy
    BY <1>1 DEF TaskRuns
  <2>2. /\ own.phase # "Absent" /\ TrStart(t, "deleteChild", next)
        /\ Type[t] = "Job" /\ own.phase \notin {"Succeeded", "Failed"}
        /\ own.retries < MaxRetries
    BY <1>7 DEF RetryJob, NothingToDo, own
  <2> HIDE DEF next
  <2>3. own.retries \in Nat
    BY <1>1 DEF TaskRuns
  <2>4. next.retries <= MaxRetries
    BY <2>1, <2>2, <2>3, RetriesAssumption
  <2>5. Sound(t, births[t], next) /\ Follows(t, own, next) /\ SameOutcome(t, own, next)
    BY <1>2, <2>1, <2>2, <2>4 DEF Sound, Follows, SameOutcome, Signed
  <2> QED
    BY <1>3, <2>2, <2>5
<1>8. CASE MirrorChild(t)
  <2> DEFINE outcome == IF Type[t] = "Job" THEN JobOutcome(t) ELSE RolloutOutcome(t)
             next == [own EXCEPT !.phase = outcome]
  <2>1. /\ next.phase = outcome /\ next.uid = own.uid /\ next.retries = own.retries
        /\ next.approvedBy = own.approvedBy /\ next.rejectedBy = own.rejectedBy
        /\ next.ref = own.ref
    BY <1>1 DEF TaskRuns
  <2>2. /\ own.phase # "Absent" /\ TrStart(t, "update", next)
        /\ Type[t] = "Job" => own.phase \notin {"Succeeded", "Failed"}
        /\ Type[t] # "Approval" /\ own.ref /\ childCache[t].status # "Absent"
        /\ ~(/\ Type[t] = "Job" /\ childCache[t].status = "Failed"
             /\ own.retries < MaxRetries)
    BY <1>8 DEF MirrorChild, NothingToDo, own
  <2>3. outcome # "Absent"
    BY <2>2 DEF JobOutcome, RolloutOutcome, own
  <2>4. Type[t] = "Job" /\ outcome = "Failed" => childCache[t].status = "Failed"
    BY <2>2 DEF JobOutcome, own
  <2> HIDE DEF next, outcome
  <2>5. own.retries \in Nat /\ own.retries <= MaxRetries
    BY <1>1, <1>2 DEF TaskRuns, Sound
  <2>6. Type[t] = "Job" /\ outcome = "Failed" => own.retries = MaxRetries
    BY <2>2, <2>4, <2>5, RetriesAssumption
  <2>7. Sound(t, births[t], next)
    BY <1>2, <2>1, <2>2, <2>3, <2>6 DEF Sound
  <2>8. Follows(t, own, next) /\ SameOutcome(t, own, next)
    BY <2>1, <2>2, <2>3 DEF Follows, SameOutcome, Signed
  <2> QED
    BY <1>3, <2>2, <2>7, <2>8
<1> QED
  BY <1>4, <1>5, <1>6, <1>7, <1>8 DEF ReconcileTaskRun

LEMMA TaskRunHolds ==
    ASSUME TypeOK, TaskRunsHold, TaskRunStep
    PROVE  TaskRunsHold' /\ \A t \in Tasks : TaskRunMove(t)
<1>1. /\ TrcNext /\ UNCHANGED <<prc, rerun>>
      /\ trc \in [step : TrSteps, task : Tasks, next : TaskRuns]
      /\ births \in [Tasks -> Nat] /\ tr \in [Tasks -> TaskRuns]
      /\ child \in [Tasks -> Children] /\ trCurrent \in [Tasks -> SUBSET Clients]
  BY DEF TaskRunStep, dispatchVars, TypeOK, TrcTypeOK, ClusterTypeOK
<1>2. trc.task \in Tasks /\ trc.next \in TaskRuns
  BY <1>1
<1>3. UNCHANGED <<tr, births>> => \A t \in Tasks : TaskRunMove(t)
  BY DEF TaskRunMove
<1>4. ASSUME NEW t \in Tasks, ReconcileTaskRun(t)
      PROVE  TaskRunsHold' /\ \A u \in Tasks : TaskRunMove(u)
  BY <1>1, <1>3, <1>4, ReconcileTaskRunHolds
<1>5. CASE CreateOwnChild \/ DeleteOwnChild
  <2>1. /\ UNCHANGED <<tr, trWatch, trCache, births, trCurrent>>
        /\ trc.step # "idle" /\ trc' = [trc EXCEPT !.step = "update"]
    BY <1>5 DEF CreateOwnChild, DeleteOwnChild, caches, watches, versions
  <2>2. HandKept
    BY <1>1, <2>1 DEF HandKept
  <2>3. births[trc.task] >= 1
    <3>1. births[trc.task] \in Nat /\ trc.next.uid \in 1..births[trc.task]
      BY <1>1, <1>2, <2>1 DEF TaskRunsHold, TaskRunCopyHolds, Sound
    <3> QED
      BY <3>1
  <2>4. ChildrenKept
    <3>1. \A t \in Tasks : t # trc.task => child'[t] = child[t]
      BY <1>1, <1>5
         DEF CreateOwnChild, DeleteOwnChild, CreateChild, DeleteChild
    <3> QED
      BY <2>3, <3>1 DEF ChildrenKept
  <2> QED
    BY <1>3, <2>1, <2>2, <2>4, QuietHolds
<1>6. CASE UpdateTaskRun
  <2>1. /\ trc.step = "update" /\ "TaskRun" \in trCurrent[trc.task]
        /\ Writes(trc.task, trc.next, "TaskRun")
        /\ trc' = TrIdle /\ UNCHANGED <<child, births, trCache>>
    BY <1>6 DEF UpdateTaskRun, RestampOutcome, Writes, caches
  <2>2. HandKept
    BY <1>1, <2>1 DEF HandKept, TrIdle
  <2>3. /\ Sound(trc.task, births[trc.task], trc.next)
        /\ Exists(tr, trc.task) /\ Follows(trc.task, tr[trc.task], trc.next)
        /\ SameOutcome(trc.task, tr[trc.task], trc.next)
    BY <2>1 DEF TaskRunsHold, TaskRunCopyHolds
  <2>4. trc.next.uid = births[trc.task]
    BY <1>2, <2>3 DEF TaskRunsHold, Follows
  <2>5. tr' = [tr EXCEPT ![trc.task] = trc.next] => TaskRunMove(trc.task)
    BY <1>1, <1>2, <2>1, <2>3 DEF TaskRunMove
  <2>6. \A t \in Tasks : TaskRunMove(t)
    BY <1>2, <2>1, <2>5, OneMove
  <2>7. TaskRunsHold'
    BY <1>1, <1>2, <2>1, <2>2, <2>3, <2>4, WriteTaskRunHolds
  <2> QED
    BY <2>6, <2>7
<1>7. CASE TaskRunConflict
  <2>1. /\ UNCHANGED <<tr, trWatch, trCache, births, child>> /\ trc' = TrIdle
        /\ \A t \in Tasks : trCurrent'[t] \subseteq trCurrent[t]
    BY <1>1, <1>7 DEF TaskRunConflict, TrAbort, objects, caches, watches
  <2> QED
    BY <1>1, <1>3, <2>1, QuietHolds DEF HandKept, ChildrenKept, TrIdle
<1> QED
  BY <1>1, <1>4, <1>5, <1>6, <1>7 DEF TrcNext

\* A decision of the Hub that follows the TaskRun as it is.
LEMMA DecisionHolds ==
    ASSUME TypeOK, TaskRunsHold, NEW t \in Tasks, NEW obj \in TaskRuns, NEW client,
           Writes(t, obj, client), Decides(t), UNCHANGED <<trCache, child, births>>, HandKept,
           Sound(t, births[t], obj), Exists(tr, t), Follows(t, tr[t], obj)
    PROVE  TaskRunsHold' /\ \A u \in Tasks : TaskRunMove(u)
<1>1. tr \in [Tasks -> TaskRuns] /\ births \in [Tasks -> Nat]
  BY DEF TypeOK, ClusterTypeOK
<1>2. obj.uid = births[t]
  BY DEF TaskRunsHold, Follows
<1>3. tr' = [tr EXCEPT ![t] = obj] => TaskRunMove(t)
  BY <1>1 DEF TaskRunMove
<1>4. \A u \in Tasks : TaskRunMove(u)
  BY <1>3, OneMove
<1>5. TaskRunsHold'
  BY <1>1, <1>2, WriteTaskRunHolds
<1> QED
  BY <1>4, <1>5

LEMMA RerunHolds ==
    ASSUME TypeOK, TaskRunsHold, UNCHANGED <<prc, trc>>,
           \/ \E t \in Tasks : BeginRerun(t)
           \/ RerunDeleteChild
           \/ RerunReset
           \/ RerunDeleteDownstream
    PROVE  TaskRunsHold' /\ \A t \in Tasks : TaskRunMove(t)
<1>1. /\ rerun \in [step : RerunSteps, task : Tasks, failed : BOOLEAN, todo : SUBSET Tasks]
      /\ trc \in [step : TrSteps, task : Tasks, next : TaskRuns]
      /\ births \in [Tasks -> Nat] /\ tr \in [Tasks -> TaskRuns]
      /\ child \in [Tasks -> Children] /\ trCurrent \in [Tasks -> SUBSET Clients]
  BY DEF TypeOK, TrcTypeOK, ClusterTypeOK, DispatchTypeOK
<1>2. UNCHANGED <<tr, births>> => \A t \in Tasks : TaskRunMove(t)
  BY DEF TaskRunMove
<1>3. ASSUME NEW t \in Tasks, BeginRerun(t)
      PROVE  TaskRunsHold' /\ \A u \in Tasks : TaskRunMove(u)
  <2>1. /\ UNCHANGED <<tr, trWatch, trCache, births, child>>
        /\ rerun'.task = t /\ Exists(trCache, t)
        /\ trCurrent' = ReadTaskRun("Rerun", t)
    BY <1>3 DEF BeginRerun, objects, caches, watches
  <2>2. \A u \in Tasks : CatchesUp(u)' /\ Versions(u)' = Versions(u)
    BY <2>1 DEF TaskRunsHold, CatchesUp, TaskRunCacheCurrent, Versions
  <2>3. "Rerun" \in trCurrent'[t] => TaskRunCacheCurrent(t)
    BY <1>1, <2>1 DEF ReadTaskRun
  <2>4. TaskRunCacheCurrent(t) => trCache[t] = tr[t]
    BY ReadTaskRunIsCurrent DEF TaskRunsHold
  <2>5. RerunTaskHolds'
    BY <2>1, <2>3, <2>4 DEF RerunTaskHolds, Exists
  <2>6. "TaskRun" \in trCurrent'[trc.task] => "TaskRun" \in trCurrent[trc.task]
    BY <1>1, <2>1 DEF ReadTaskRun
  <2>7. TaskRunCopyHolds'
    BY <2>1, <2>6 DEF TaskRunsHold, TaskRunCopyHolds, Exists
  <2> QED
    BY <1>2, <2>1, <2>2, <2>5, <2>7 DEF TaskRunsHold, Exists
<1>4. CASE RerunDeleteChild
  <2>1. /\ UNCHANGED <<tr, trWatch, trCache, births, trCurrent>>
        /\ rerun.step = "deleteChild" /\ rerun'.task = rerun.task
        /\ DeleteChild(rerun.task)
    BY <1>1, <1>4 DEF RerunDeleteChild, caches, watches, versions
  <2>2. HandKept
    BY <2>1 DEF HandKept
  <2>3. ChildrenKept
    BY <1>1, <2>1 DEF DeleteChild, ChildrenKept, NoChild
  <2> QED
    BY <1>2, <2>1, <2>2, <2>3, QuietHolds
<1>5. CASE RerunReset
  <2>1. /\ rerun.step = "reset" /\ UNCHANGED <<trCache, child, births>>
        /\ rerun' = [rerun EXCEPT !.step = AfterReset(rerun.todo)]
    BY <1>5 DEF RerunReset, caches
  <2>2. HandKept
    BY <1>1, <2>1 DEF HandKept, AfterReset
  <2>3. CASE UNCHANGED trVars
    <3>1. UNCHANGED <<tr, trWatch, trCurrent>>
      BY <2>3 DEF trVars
    <3> QED
      BY <1>2, <2>1, <2>2, <3>1, QuietHolds DEF ChildrenKept
  <2>4. CASE /\ "Rerun" \in trCurrent[rerun.task]
             /\ PutTaskRun(rerun.task, Reset(tr[rerun.task]), "Rerun")
    <3> DEFINE t == rerun.task
               obj == Reset(tr[t])
    <3>1. t \in Tasks
      BY <1>1
    <3>2. Exists(tr, t) /\ tr[t].uid = births[t]
      BY <2>1, <2>4, <3>1 DEF TaskRunsHold, RerunTaskHolds
    <3>3. /\ obj \in TaskRuns /\ obj.phase = "Pending" /\ obj.retries = 0
          /\ obj.approvedBy = {} /\ obj.rejectedBy = {} /\ obj.uid = tr[t].uid
      <4>1. tr[t] \in TaskRuns
        BY <1>1, <3>1
      <4> QED
        BY <4>1 DEF Reset, TaskRuns, TaskRunPhases
    <3>4. Sound(t, births[t], tr[t])
      BY <3>1, VersionCases DEF TaskRunsHold
    <3>5. Sound(t, births[t], obj)
      BY <3>2, <3>3, <3>4, FS_EmptySet, RetriesAssumption DEF Sound, Exists
    <3>6. tr' = [tr EXCEPT ![t] = obj] => TaskRunMove(t)
      BY <1>1, <2>1, <3>1, <3>2 DEF TaskRunMove, Resets
    <3> HIDE DEF t, obj
    <3>7. Writes(t, obj, "Rerun")
      BY <2>4 DEF t, obj, Writes
    <3>8. \A u \in Tasks : TaskRunMove(u)
      BY <2>1, <3>1, <3>3, <3>6, <3>7, OneMove
    <3>9. TaskRunsHold'
      BY <1>1, <2>1, <2>2, <3>1, <3>2, <3>3, <3>5, <3>7, WriteTaskRunHolds
    <3> QED
      BY <3>8, <3>9
  <2> QED
    BY <1>5, <2>3, <2>4 DEF RerunReset
<1>6. CASE RerunDeleteDownstream
  <2>1. PICK t \in rerun.todo :
            /\ PutTaskRun(t, NoTaskRun, "")
            /\ rerun' = [rerun EXCEPT !.todo = @ \ {t}, !.step = AfterReset(rerun.todo \ {t})]
    BY <1>6 DEF RerunDeleteDownstream, DeleteTaskRun
  <2>2. t \in Tasks /\ rerun.step = "downstream" /\ UNCHANGED <<trCache, child, births>>
    BY <1>1, <1>6 DEF RerunDeleteDownstream, caches
  <2>3. HandKept
    BY <1>1, <2>1 DEF HandKept, AfterReset
  <2>4. rerun'.todo = rerun.todo \ {t}
    BY <1>1, <2>1
  <2>5. tr' = [tr EXCEPT ![t] = NoTaskRun] => TaskRunMove(t)
    BY <1>1, <2>2, <2>4 DEF TaskRunMove
  <2>6. \A u \in Tasks : TaskRunMove(u)
    BY <2>1, <2>2, <2>5, RecordTypes, OneMove DEF Writes
  <2>7. TaskRunsHold'
    BY <1>1, <2>1, <2>2, <2>3, NewTaskRunSound, RecordTypes, WriteTaskRunHolds DEF Writes
  <2> QED
    BY <2>6, <2>7
<1> QED
  BY <1>3, <1>4, <1>5, <1>6

LEMMA DispatchHolds ==
    ASSUME TypeOK, TaskRunsHold, DispatchStep
    PROVE  TaskRunsHold' /\ \A t \in Tasks : TaskRunMove(t)
<1>1. /\ DispatchNext /\ UNCHANGED <<prc, trc>>
      /\ births \in [Tasks -> Nat] /\ tr \in [Tasks -> TaskRuns]
      /\ trCurrent \in [Tasks -> SUBSET Clients]
      /\ rerun \in [step : RerunSteps, task : Tasks, failed : BOOLEAN, todo : SUBSET Tasks]
  BY DEF DispatchStep, TypeOK, ClusterTypeOK, DispatchTypeOK
<1>2. UNCHANGED <<tr, births>> => \A t \in Tasks : TaskRunMove(t)
  BY DEF TaskRunMove
<1>3. UNCHANGED dispatchVars => HandKept
  BY <1>1 DEF dispatchVars, HandKept
<1>4. ASSUME NEW t \in Tasks, TaskRunCacheCurrent(t), Exists(trCache, t)
      PROVE  /\ trCache[t] = tr[t] /\ Exists(tr, t) /\ tr[t] \in TaskRuns
             /\ Sound(t, births[t], tr[t])
  <2>1. trCache[t] = tr[t]
    BY <1>4, ReadTaskRunIsCurrent DEF TaskRunsHold
  <2>2. Sound(t, births[t], tr[t])
    BY VersionCases DEF TaskRunsHold
  <2> QED
    BY <1>1, <1>4, <2>1, <2>2 DEF Exists
<1>5. ASSUME NEW t \in Tasks, NEW approver \in Deciders[t], ApproveTask(t, approver)
      PROVE  TaskRunsHold' /\ \A u \in Tasks : TaskRunMove(u)
  <2> DEFINE signed == trCache[t].approvedBy \cup {approver}
             enough == Cardinality(signed) >= Required[t]
             phase == IF enough THEN "Succeeded" ELSE trCache[t].phase
             obj == [trCache[t] EXCEPT !.asked = TRUE, !.approvedBy = signed, !.phase = phase]
  <2>1. /\ TaskRunCacheCurrent(t) /\ Exists(trCache, t)
        /\ Writes(t, obj, "Dispatch") /\ Decides(t)
        /\ UNCHANGED <<trCache, child, births, dispatchVars>>
    BY <1>5 DEF ApproveTask, Decides, Writes, caches
  <2>2. /\ trCache[t] = tr[t] /\ Exists(tr, t) /\ tr[t] \in TaskRuns
        /\ Sound(t, births[t], tr[t])
    BY <1>4, <2>1
  <2>3. IsFiniteSet(signed)
    <3>1. IsFiniteSet(trCache[t].approvedBy)
      BY <2>2 DEF Sound
    <3> QED
      BY <3>1, FS_AddElement
  <2>4. signed \in SUBSET Approvers /\ tr[t].approvedBy \subseteq signed
    BY <2>2, DispatchAssumption DEF TaskRuns
  <2>5. Signed(t, tr[t]) => enough
    <3>1. Cardinality(tr[t].approvedBy) <= Cardinality(signed)
      BY <2>3, <2>4, FS_Subset
    <3>2. Cardinality(tr[t].approvedBy) \in Nat /\ Cardinality(signed) \in Nat
          /\ Required[t] \in Nat
      BY <2>2, <2>3, FS_CardinalityType, DispatchAssumption DEF Sound
    <3> QED
      BY <3>1, <3>2 DEF Signed
  <2>6. /\ phase \in TaskRunPhases \cup {"Absent"} /\ phase # "Absent"
        /\ enough => phase = "Succeeded"
        /\ ~enough => phase = tr[t].phase
    BY <2>2 DEF TaskRuns, TaskRunPhases, Exists
  <2>7. enough <=> Cardinality(signed) >= Required[t]
    OBVIOUS
  <2> HIDE DEF signed, phase, enough
  <2>8. /\ obj \in TaskRuns /\ obj.phase = phase /\ obj.approvedBy = signed
        /\ obj.rejectedBy = tr[t].rejectedBy /\ obj.ref = tr[t].ref
        /\ obj.uid = tr[t].uid /\ obj.retries = tr[t].retries
    BY <2>2, <2>4, <2>6 DEF TaskRuns
  <2>9. Signed(t, obj) <=> enough
    BY <2>7, <2>8 DEF Signed
  <2> HIDE DEF obj
  <2>10. Sound(t, births[t], obj)
    BY <2>2, <2>3, <2>5, <2>6, <2>8, <2>9 DEF Sound, Exists
  <2>11. Follows(t, tr[t], obj)
    BY <2>4, <2>5, <2>6, <2>8, <2>9 DEF Follows
  <2> QED
    BY <1>3, <2>1, <2>2, <2>8, <2>10, <2>11, DecisionHolds
<1>6. ASSUME NEW t \in Tasks, NEW approver \in Deciders[t], RejectTask(t, approver)
      PROVE  TaskRunsHold' /\ \A u \in Tasks : TaskRunMove(u)
  <2> DEFINE obj == [trCache[t] EXCEPT !.asked = TRUE, !.rejectedBy = {approver},
                                       !.phase = "Failed"]
  <2>1. /\ TaskRunCacheCurrent(t) /\ Exists(trCache, t)
        /\ Writes(t, obj, "Dispatch") /\ Decides(t)
        /\ UNCHANGED <<trCache, child, births, dispatchVars>>
    BY <1>6 DEF RejectTask, Decides, Writes, caches
  <2>2. /\ trCache[t] = tr[t] /\ Exists(tr, t) /\ tr[t] \in TaskRuns
        /\ Sound(t, births[t], tr[t])
    BY <1>4, <2>1
  <2>3. /\ obj \in TaskRuns /\ obj.phase = "Failed" /\ obj.approvedBy = tr[t].approvedBy
        /\ obj.rejectedBy = {approver} /\ obj.ref = tr[t].ref
        /\ obj.uid = tr[t].uid /\ obj.retries = tr[t].retries
    BY <2>2, DispatchAssumption DEF TaskRuns, TaskRunPhases
  <2> HIDE DEF obj
  <2>4. Sound(t, births[t], obj)
    BY <2>2, <2>3 DEF Sound, Exists
  <2>5. Follows(t, tr[t], obj)
    BY <2>2, <2>3 DEF Follows, Signed
  <2> QED
    BY <1>3, <2>1, <2>2, <2>3, <2>4, <2>5, DecisionHolds
<1>7. CASE ApplyPipelineRun \/ CancelPipelineRun
  <2>1. UNCHANGED <<tr, trWatch, trCache, births, child, trCurrent, dispatchVars>>
    BY <1>7 DEF ApplyPipelineRun, CancelPipelineRun, trVars, caches
  <2> QED
    BY <1>2, <1>3, <2>1, QuietHolds DEF ChildrenKept
<1>8. CASE Revive \/ NothingToRevive \/ RerunConflict
  <2>1. /\ UNCHANGED <<tr, trWatch, trCache, births, child>> /\ rerun' = RerunIdle
        /\ \A t \in Tasks : trCurrent'[t] \subseteq trCurrent[t]
    BY <1>1, <1>8 DEF Revive, NothingToRevive, RerunConflict, RerunAbort, RerunEnds, trVars,
       objects, caches, watches
  <2> QED
    BY <1>1, <1>2, <2>1, QuietHolds DEF HandKept, ChildrenKept, RerunIdle
<1> QED
  BY <1>1, <1>5, <1>6, <1>7, <1>8, RerunHolds DEF DispatchNext

LEMMA FaultHolds ==
    ASSUME TypeOK, TaskRunsHold, CallFails \/ Restart
    PROVE  TaskRunsHold' /\ \A t \in Tasks : TaskRunMove(t)
<1>1. /\ births \in [Tasks -> Nat] /\ tr \in [Tasks -> TaskRuns]
      /\ trCurrent \in [Tasks -> SUBSET Clients]
      /\ trc \in [step : TrSteps, task : Tasks, next : TaskRuns]
      /\ rerun \in [step : RerunSteps, task : Tasks, failed : BOOLEAN, todo : SUBSET Tasks]
  BY DEF TypeOK, ClusterTypeOK, TrcTypeOK, DispatchTypeOK
<1>2. UNCHANGED <<tr, births>> /\ \A t \in Tasks : TaskRunMove(t)
  BY DEF CallFails, Restart, PrAbort, TrAbort, RerunAbort, objects, TaskRunMove
<1>3. CASE CallFails
  <2>1. /\ UNCHANGED <<trWatch, trCache, child>>
        /\ \A t \in Tasks : trCurrent'[t] \subseteq trCurrent[t]
    BY <1>1, <1>3 DEF CallFails, PrAbort, TrAbort, RerunAbort, objects, caches, watches
  <2>2. (UNCHANGED trc \/ trc' = TrIdle) /\ (UNCHANGED rerun \/ rerun' = RerunIdle)
    BY <1>3 DEF CallFails, PrAbort, TrAbort, RerunAbort, RerunEnds, dispatchVars
  <2>3. HandKept
    BY <2>2 DEF HandKept, TrIdle, RerunIdle
  <2> QED
    BY <1>2, <2>1, <2>3, QuietHolds DEF ChildrenKept
<1>4. CASE Restart
  <2>1. /\ trc'.step = "idle" /\ rerun'.step = "idle"
        /\ trCache' = tr /\ trWatch' = << >> /\ UNCHANGED child
    BY <1>4 DEF Restart, TrIdle, RerunIdle, objects
  <2>2. Len(trWatch') = 0
    <3>1. Len(<< >>) = 0
      OBVIOUS
    <3> QED
      BY <2>1, <3>1, Zenon
  <2>3. \A t \in Tasks : CatchesUp(t)'
    BY <1>2, <2>1, <2>2 DEF CatchesUp, TaskRunCacheCurrent
  <2>4. ASSUME NEW t \in Tasks, NEW v \in Versions(t)' PROVE v \in Versions(t)
    <3>1. v = tr[t]
      BY <1>2, <2>1, <2>2, <2>4 DEF Versions
    <3> QED
      BY <3>1, VersionCases
  <2>5. TaskRunCopyHolds' /\ RerunTaskHolds'
    BY <2>1 DEF TaskRunCopyHolds, RerunTaskHolds
  <2> QED
    BY <1>2, <2>1, <2>3, <2>4, <2>5 DEF TaskRunsHold, Exists
<1> QED
  BY <1>2, <1>3, <1>4

LEMMA InitTaskRunsHold == Init => TaskRunsHold
<1> SUFFICES ASSUME Init PROVE TaskRunsHold
  OBVIOUS
<1>1. /\ tr = [t \in Tasks |-> NoTaskRun] /\ trCache = tr /\ trWatch = << >>
      /\ births = [t \in Tasks |-> 0] /\ child = [t \in Tasks |-> NoChild]
      /\ trc.step = "idle" /\ rerun.step = "idle"
  BY DEF Init, ClusterInit, TrcInit, DispatchInit, TrIdle, RerunIdle
<1>2. Len(trWatch) = 0
  <2>1. Len(<< >>) = 0
    OBVIOUS
  <2> QED
    BY <1>1, <2>1, Zenon
<1>3. \A t \in Tasks : CatchesUp(t)
  BY <1>1, <1>2 DEF CatchesUp, TaskRunCacheCurrent
<1>4. \A t \in Tasks : \A v \in Versions(t) : v = NoTaskRun
  BY <1>1, <1>2 DEF Versions
<1>5. \A t \in Tasks : Sound(t, 0, NoTaskRun)
  <2>1. NoTaskRun.retries = 0 /\ NoTaskRun.approvedBy = {} /\ NoTaskRun.phase = "Absent"
    BY DEF NoTaskRun
  <2> QED
    BY <2>1, FS_EmptySet, RetriesAssumption DEF Sound
<1> QED
  BY <1>1, <1>3, <1>4, <1>5
     DEF TaskRunsHold, TaskRunCopyHolds, RerunTaskHolds, Exists, NoTaskRun, NoChild

\* One step of the runner does to every TaskRun what TaskRunMove allows.
LEMMA StepTaskRuns ==
    ASSUME TypeOK, TaskRunsHold, [Next]_vars
    PROVE  TaskRunsHold' /\ \A t \in Tasks : TaskRunMove(t)
<1>1. CASE UNCHANGED vars
  <2>1. UNCHANGED <<tr, trWatch, trCache, births, child, trCurrent, trc, rerun>>
    BY <1>1 DEF vars, clusterVars, local, objects, caches, watches, versions, dispatchVars
  <2>2. \A t \in Tasks : TaskRunMove(t)
    BY <2>1 DEF TaskRunMove
  <2> QED
    BY <2>1, <2>2, QuietHolds DEF HandKept, ChildrenKept
<1> QED
  BY <1>1, ClusterHolds, PipelineRunHolds, TaskRunHolds, DispatchHolds, FaultHolds DEF Next

\* However old a version of a TaskRun is, it is one of those that were created, and what a
\* reconcile or a rerun in hand will write is decided on the TaskRun as it is, if its
\* version check passes (Status().Update in taskrun_controller.go and rerun_handler.go).
THEOREM TaskRunsAreSound == Spec => []TaskRunsHold
<1>1. TypeOK /\ TaskRunsHold /\ [Next]_vars => TaskRunsHold'
  BY StepTaskRuns
<1> QED
  BY <1>1, InitTaskRunsHold, TypeCorrect, PTL DEF Spec
-----------------------------------------------------------------------------
(* The properties. *)

\* A Job task that nobody rejected fails only when its retries are used up, however often the
\* cache shows the controller a Job that was deleted, and whatever the Hub decides on a task.
THEOREM FailureIsEarned == Spec => []RetriesExhausted
<1>1. TaskRunsHold => RetriesExhausted
  BY VersionCases DEF TaskRunsHold, Sound, RetriesExhausted, Rejected
<1> QED
  BY <1>1, TaskRunsAreSound, PTL

\* A finished Job task is opened again only by a rerun of the task, and given the other
\* outcome only by a decision of the Hub: no reconcile that saw it as it was before can write
\* over the outcome.
THEOREM FinishedStaysFinished == Spec => OnlyRerunReopens
<1>1. ASSUME TypeOK, TaskRunsHold, [Next]_vars
      PROVE  \A t \in Tasks :
                (/\ Type[t] = "Job"
                 /\ tr[t].phase \in {"Succeeded", "Failed"}
                 /\ tr'[t].uid = tr[t].uid
                 /\ tr'[t].phase # tr[t].phase)
                   => Resets(t) \/ (Decides(t) /\ tr'[t].phase \in {"Succeeded", "Failed"})
  <2> SUFFICES ASSUME NEW t \in Tasks, Type[t] = "Job", tr[t].phase \in {"Succeeded", "Failed"},
                      tr'[t].uid = tr[t].uid, tr'[t].phase # tr[t].phase
               PROVE  Resets(t) \/ (Decides(t) /\ tr'[t].phase \in {"Succeeded", "Failed"})
    OBVIOUS
  <2>1. TaskRunMove(t)
    BY <1>1, StepTaskRuns
  <2>2. Exists(tr, t) /\ tr[t].uid \in 1..births[t] /\ births[t] \in Nat
    BY <1>1, VersionCases DEF TypeOK, ClusterTypeOK, TaskRunsHold, Sound, Exists
  <2>3. NoTaskRun.uid = 0
    BY DEF NoTaskRun
  <2>4. tr'[t] # NoTaskRun
    BY <2>2, <2>3
  <2> QED
    BY <2>1, <2>2, <2>4 DEF TaskRunMove, Follows, SameOutcome
<1> QED
  BY <1>1, TypeCorrect, TaskRunsAreSound, PTL DEF Spec, OnlyRerunReopens

\* A signature is never lost to another writer of the TaskRun's status, only to a rerun of
\* the task: whatever the number of approvers, the lag and the faults.
THEOREM SignaturesStay == Spec => SignatureKept
<1>1. ASSUME TypeOK, TaskRunsHold, [Next]_vars
      PROVE  \A t \in Tasks : tr'[t].uid = tr[t].uid =>
                tr[t].approvedBy \subseteq tr'[t].approvedBy \/ Resets(t)
  <2> SUFFICES ASSUME NEW t \in Tasks, tr'[t].uid = tr[t].uid, ~Resets(t)
               PROVE  tr[t].approvedBy \subseteq tr'[t].approvedBy
    OBVIOUS
  <2>1. TaskRunMove(t)
    BY <1>1, StepTaskRuns
  <2>2. Sound(t, births[t], tr[t]) /\ births[t] \in Nat
    BY <1>1, VersionCases DEF TypeOK, ClusterTypeOK, TaskRunsHold
  <2>3. NoTaskRun.uid = 0 /\ NoTaskRun.approvedBy = {}
    BY DEF NoTaskRun
  <2>4. CASE Exists(tr, t)
    <3>1. tr'[t] # NoTaskRun
      BY <2>2, <2>3, <2>4 DEF Sound, Exists
    <3> QED
      BY <2>1, <2>4, <3>1 DEF TaskRunMove, Follows
  <2>5. CASE ~Exists(tr, t)
    BY <2>2, <2>3, <2>5 DEF Sound, Exists
  <2> QED
    BY <2>4, <2>5
<1> QED
  BY <1>1, TypeCorrect, TaskRunsAreSound, PTL DEF Spec, SignatureKept
=============================================================================
