--------------------------- MODULE JobQueueProofs ---------------------------
(***************************************************************************)
(* Proofs about JobQueue with one process, for any number of jobs, policies, *)
(* operators, crashes and requests. What keeps a finished job from running   *)
(* again is a column: the lock sets visibility_timeout, the poll of a row    *)
(* whose timeout has passed only counts an attempt, and nothing clears the   *)
(* column of a row that is not running. The invariant therefore says that a  *)
(* job being executed has its column set, before anything is finished. From  *)
(* it follows that the queue implements JobDelivery.                         *)
(***************************************************************************)
EXTENDS JobQueue, TLAPS

\* More than one process may run the same job, so the theorem is about one.
OneProcess == \A i, k \in Instances : i = k

Shape ==
    /\ row \in [Jobs -> Row]
    /\ pc \in [Instances -> {"down", "idle", "batch", "running", "handled"}]
    /\ DOMAIN batch = Instances
    /\ \A i \in Instances :
         DOMAIN batch[i] \subseteq Jobs /\ batch[i] \in [DOMAIN batch[i] -> Snapshot]
    /\ DOMAIN current = Instances
    /\ \A i \in Instances : pc[i] \in {"running", "handled"} => current[i] \in DOMAIN batch[i]
    /\ finished \subseteq Jobs

Exists(j) == row[j].status # "absent"

SelectedExist == \A i \in Instances : \A j \in DOMAIN batch[i] : Exists(j)

ExecutedIsLocked == \A i \in Instances, j \in Jobs : Executing(i, j) => row[j].vis # "null"

QueueInv == Shape /\ SelectedExist /\ ExecutedIsLocked /\ FinishedIsOver

-----------------------------------------------------------------------------
(* What a write of the table may do to a row without harm: a row stays, its  *)
(* timeout is not cleared, and it does not begin to run.                     *)

Harmless(r, w) ==
    /\ w \in Row
    /\ r.status # "absent" => w.status # "absent"
    /\ r.vis # "null" => w.vis # "null"
    /\ r.status # "running" => w.status # "running"

HarmlessWrite == row' \in [Jobs -> Row] /\ \A j \in Jobs : Harmless(row[j], row'[j])

LEMMA StatusWritten ==
    ASSUME NEW r \in Row, NEW s \in Statuses
    PROVE  /\ [r EXCEPT !.status = s] \in Row
           /\ [r EXCEPT !.status = s].status = s
           /\ [r EXCEPT !.status = s].vis = r.vis
  BY DEF Row

LEMMA NoWrite == ASSUME row \in [Jobs -> Row], row' = row PROVE HarmlessWrite
  BY DEF HarmlessWrite, Harmless

LEMMA OneRowWritten ==
    ASSUME row \in [Jobs -> Row], NEW j \in Jobs, NEW w, Harmless(row[j], w),
           row' = [row EXCEPT ![j] = w]
    PROVE  HarmlessWrite
  <1>1. \A k \in Jobs : row'[k] = IF k = j THEN w ELSE row[k]
    OBVIOUS
  <1>2. row' \in [Jobs -> Row]
    BY DEF Harmless
  <1>3. \A k \in Jobs : Harmless(row[k], row'[k])
    BY <1>1 DEF Harmless
  <1>. QED BY <1>2, <1>3 DEF HarmlessWrite

LEMMA StatusSet ==
    ASSUME row \in [Jobs -> Row], NEW j \in Jobs, NEW s \in Statuses \ {"running"},
           updateJobStatus(j, s)
    PROVE  HarmlessWrite
  <1>1. row[j] \in Row
    OBVIOUS
  <1>2. PICK w : w = [row[j] EXCEPT !.status = s]
    OBVIOUS
  <1>3. w \in Row /\ w.status = s /\ w.vis = row[j].vis
    BY <1>1, <1>2, StatusWritten
  <1>4. Harmless(row[j], w)
    BY <1>3 DEF Harmless, Statuses
  <1>5. row' = [row EXCEPT ![j] = w]
    BY <1>2 DEF updateJobStatus
  <1>. QED BY <1>4, <1>5, OneRowWritten

\* A retry makes the row pending and due.
LEMMA MadePending ==
    ASSUME row \in [Jobs -> Row], NEW j \in Jobs,
           row' = [row EXCEPT ![j].status = "pending", ![j].due = TRUE]
    PROVE  HarmlessWrite
  <1>1. PICK w : w = [row[j] EXCEPT !.status = "pending", !.due = TRUE]
    OBVIOUS
  <1>2. w \in Row /\ w.status = "pending" /\ w.vis = row[j].vis
    BY <1>1 DEF Row, Statuses
  <1>3. Harmless(row[j], w)
    BY <1>2 DEF Harmless
  <1>4. row' = [row EXCEPT ![j] = w]
    BY <1>1
  <1>. QED BY <1>3, <1>4, OneRowWritten

-----------------------------------------------------------------------------
(* A job leaves its batch. *)

LEMMA LeavesBatch ==
    ASSUME Shape, NEW i \in Instances, NEW j \in DOMAIN batch[i], NextOfBatch(i, j)
    PROVE  /\ pc' \in [Instances -> {"down", "idle", "batch", "running", "handled"}]
           /\ pc'[i] \in {"idle", "batch"}
           /\ \A k \in Instances : k # i => pc'[k] = pc[k] /\ current'[k] = current[k] /\ batch'[k] = batch[k]
           /\ DOMAIN batch' = Instances /\ DOMAIN current' = Instances
           /\ DOMAIN batch'[i] = DOMAIN batch[i] \ {j}
           /\ \A k \in DOMAIN batch'[i] : batch'[i][k] = batch[i][k]
           /\ batch'[i] \in [DOMAIN batch'[i] -> Snapshot]
  <1> DEFINE left == DOMAIN batch[i] \ {j}
  <1>1. batch' = [batch EXCEPT ![i] = [k \in left |-> batch[i][k]]]
    BY DEF NextOfBatch
  <1>2. pc' = [pc EXCEPT ![i] = IF left = {} THEN "idle" ELSE "batch"]
    BY DEF NextOfBatch
  <1>3. current' = [current EXCEPT ![i] = NoJob]
    BY DEF NextOfBatch
  <1>4. batch'[i] = [k \in left |-> batch[i][k]]
    BY <1>1 DEF Shape
  <1>5. \A k \in left : batch[i][k] \in Snapshot
    BY DEF Shape
  <1>. QED BY <1>1, <1>2, <1>3, <1>4, <1>5 DEF Shape

(* The executor's place after it dealt with a job, and the invariant with it, *)
(* when the write of the row did no harm and the job is not newly finished.   *)
LEMMA DealtWith ==
    ASSUME QueueInv, NEW i \in Instances, NEW j \in DOMAIN batch[i],
           NextOfBatch(i, j), HarmlessWrite, finished' = finished
    PROVE  QueueInv'
  <1>1. Shape /\ SelectedExist /\ ExecutedIsLocked /\ FinishedIsOver
    BY DEF QueueInv
  <1>2. /\ pc' \in [Instances -> {"down", "idle", "batch", "running", "handled"}]
        /\ pc'[i] \in {"idle", "batch"}
        /\ \A k \in Instances : k # i => pc'[k] = pc[k] /\ current'[k] = current[k] /\ batch'[k] = batch[k]
        /\ DOMAIN batch' = Instances /\ DOMAIN current' = Instances
        /\ DOMAIN batch'[i] = DOMAIN batch[i] \ {j}
        /\ \A k \in DOMAIN batch'[i] : batch'[i][k] = batch[i][k]
        /\ batch'[i] \in [DOMAIN batch'[i] -> Snapshot]
    BY <1>1, LeavesBatch
  <1>3. Shape'
    BY <1>1, <1>2 DEF Shape, HarmlessWrite
  <1>4. SelectedExist'
    <2> SUFFICES ASSUME NEW k \in Instances, NEW l \in DOMAIN batch'[k]
                 PROVE  row'[l].status # "absent"
      BY DEF SelectedExist, Exists
    <2>1. l \in DOMAIN batch[k]
      BY <1>2
    <2>2. l \in Jobs /\ row[l].status # "absent"
      BY <1>1, <2>1 DEF Shape, SelectedExist, Exists
    <2>. QED BY <2>2 DEF HarmlessWrite, Harmless
  <1>5. \A k \in Instances, l \in Jobs : Executing(k, l)' => Executing(k, l)
    BY <1>2 DEF Executing
  <1>6. ExecutedIsLocked'
    BY <1>1, <1>5 DEF ExecutedIsLocked, HarmlessWrite, Harmless
  <1>7. FinishedIsOver'
    <2> SUFFICES ASSUME NEW l \in finished
                 PROVE  /\ row'[l].status \notin {"absent", "running"} /\ row'[l].vis # "null"
                        /\ \A k \in Instances :
                             ~Executing(k, l)' /\ (l \in DOMAIN batch'[k] => batch'[k][l].vis = "past")
      BY DEF FinishedIsOver, InBatch
    <2>1. l \in Jobs
      BY <1>1 DEF Shape
    <2>2. row'[l].status \notin {"absent", "running"} /\ row'[l].vis # "null"
      BY <1>1, <2>1 DEF FinishedIsOver, HarmlessWrite, Harmless
    <2>3. ASSUME NEW k \in Instances
          PROVE  ~Executing(k, l)' /\ (l \in DOMAIN batch'[k] => batch'[k][l].vis = "past")
      BY <1>1, <1>2, <1>5, <2>1 DEF FinishedIsOver, InBatch
    <2>. QED BY <2>2, <2>3
  <1>. QED BY <1>3, <1>4, <1>6, <1>7 DEF QueueInv

(* The invariant when only the table, flags and requests change. *)
LEMMA TableWritten ==
    ASSUME QueueInv, HarmlessWrite, UNCHANGED <<pc, batch, current, finished>>
    PROVE  QueueInv'
  <1>1. Shape /\ SelectedExist /\ ExecutedIsLocked /\ FinishedIsOver
    BY DEF QueueInv
  <1>2. Shape'
    BY <1>1 DEF Shape, HarmlessWrite
  <1>3. \A i \in Instances : \A j \in DOMAIN batch[i] : j \in Jobs
    BY <1>1 DEF Shape
  <1>4. SelectedExist'
    BY <1>1, <1>3 DEF SelectedExist, Exists, HarmlessWrite, Harmless
  <1>5. ExecutedIsLocked'
    BY <1>1 DEF ExecutedIsLocked, Executing, HarmlessWrite, Harmless
  <1>6. \A j \in finished : j \in Jobs
    BY <1>1 DEF Shape
  <1>7. FinishedIsOver'
    BY <1>1, <1>6 DEF FinishedIsOver, Executing, InBatch, HarmlessWrite, Harmless
  <1>. QED BY <1>2, <1>4, <1>5, <1>7 DEF QueueInv

-----------------------------------------------------------------------------
(* The executor's steps. *)

LEMMA FailureHarmless ==
    ASSUME QueueInv, NEW i \in Instances, NEW j \in DOMAIN batch[i],
           NEW written \in BOOLEAN, handleJobFailure(i, j, written), finished' = finished
    PROVE  QueueInv'
  <1>1. Shape
    BY DEF QueueInv
  <1>2. j \in Jobs /\ row \in [Jobs -> Row] /\ batch[i][j] \in Snapshot
    BY <1>1 DEF Shape
  <1>3. NextOfBatch(i, j)
    BY DEF handleJobFailure
  <1>4. PICK n : n = batch[i][j].attempts + 1
    OBVIOUS
  <1>5. n \in Nat
    BY <1>2, <1>4 DEF Snapshot
  <1>6. ASSUME row' = [row EXCEPT ![j].status = "failed", ![j].attempts = n]
        PROVE  HarmlessWrite
    <2>1. PICK w : w = [row[j] EXCEPT !.status = "failed", !.attempts = n]
      OBVIOUS
    <2>2. w \in Row /\ w.status = "failed" /\ w.vis = row[j].vis
      BY <1>2, <1>5, <2>1 DEF Row, Statuses
    <2>3. Harmless(row[j], w)
      BY <2>2 DEF Harmless
    <2>4. row' = [row EXCEPT ![j] = w]
      BY <1>2, <1>6, <2>1
    <2>. QED BY <1>2, <2>3, <2>4, OneRowWritten
  <1>7. \/ row' = [row EXCEPT ![j].status = "failed", ![j].attempts = n]
        \/ row' = row
    BY <1>4 DEF handleJobFailure
  <1>8. HarmlessWrite
    BY <1>2, <1>6, <1>7, NoWrite
  <1>. QED BY <1>3, <1>8, DealtWith

LEMMA StartKeeps ==
    ASSUME QueueInv, OneProcess, NEW i \in Instances, StartProcess(i)
    PROVE  QueueInv'
  <1>1. Shape /\ SelectedExist /\ ExecutedIsLocked /\ FinishedIsOver
    BY DEF QueueInv
  <1>2. /\ pc' = [pc EXCEPT ![i] = "idle"] /\ pc[i] = "down"
        /\ UNCHANGED <<batch, current, finished>>
    BY DEF StartProcess
  <1>3. \A k \in Instances : k = i
    BY DEF OneProcess
  <1>4. \A k \in Instances, j \in Jobs : ~Executing(k, j) /\ ~Executing(k, j)'
    BY <1>1, <1>2, <1>3 DEF Executing, Shape
  <1>5. /\ row' \in [Jobs -> Row]
        /\ \A j \in Jobs : /\ row[j].status # "absent" => row'[j].status # "absent"
                           /\ row[j].status # "running" => row'[j] = row[j]
    <2>1. ASSUME row' = [j \in Jobs |-> IF row[j].status = "running"
                                        THEN [row[j] EXCEPT !.status = "pending", !.vis = "null"]
                                        ELSE row[j]]
          PROVE  <1>5!1 /\ <1>5!2
      <3>1. ASSUME NEW j \in Jobs
            PROVE  /\ [row[j] EXCEPT !.status = "pending", !.vis = "null"] \in Row
                   /\ [row[j] EXCEPT !.status = "pending", !.vis = "null"].status = "pending"
        BY <1>1 DEF Shape, Row, Statuses
      <3>2. \A j \in Jobs : row[j] \in Row
        BY <1>1 DEF Shape
      <3>. QED BY <2>1, <3>1, <3>2
    <2>2. ASSUME row' = row
          PROVE  <1>5!1 /\ <1>5!2
      BY <1>1, <2>2 DEF Shape
    <2>. QED BY <2>1, <2>2 DEF StartProcess
  <1>6. Shape'
    BY <1>1, <1>2, <1>5 DEF Shape
  <1>7. SelectedExist'
    BY <1>1, <1>2, <1>5 DEF Shape, SelectedExist, Exists
  <1>8. ExecutedIsLocked'
    BY <1>4 DEF ExecutedIsLocked
  <1>9. \A j \in finished : j \in Jobs /\ row[j].status # "running"
    BY <1>1 DEF Shape, FinishedIsOver
  <1>10. FinishedIsOver'
    BY <1>1, <1>2, <1>4, <1>5, <1>9 DEF FinishedIsOver, InBatch
  <1>. QED BY <1>6, <1>7, <1>8, <1>10 DEF QueueInv

LEMMA CrashKeeps ==
    ASSUME QueueInv, NEW i \in Instances, CrashProcess(i)
    PROVE  QueueInv'
  <1>1. Shape /\ SelectedExist /\ ExecutedIsLocked /\ FinishedIsOver
    BY DEF QueueInv
  <1>2. /\ pc' = [pc EXCEPT ![i] = "down"] /\ batch' = [batch EXCEPT ![i] = EmptyBatch]
        /\ current' = [current EXCEPT ![i] = NoJob] /\ UNCHANGED <<row, finished>>
    BY DEF CrashProcess
  <1>3. DOMAIN EmptyBatch = {} /\ EmptyBatch \in [{} -> Snapshot]
    BY DEF EmptyBatch
  <1>4. Shape'
    BY <1>1, <1>2, <1>3 DEF Shape
  <1>5. SelectedExist'
    BY <1>1, <1>2, <1>3 DEF Shape, SelectedExist, Exists
  <1>6. \A k \in Instances, j \in Jobs : Executing(k, j)' => Executing(k, j)
    BY <1>1, <1>2 DEF Executing, Shape
  <1>7. ExecutedIsLocked'
    BY <1>1, <1>2, <1>6 DEF ExecutedIsLocked
  <1>8. FinishedIsOver'
    <2>1. \A j \in finished : j \in Jobs
      BY <1>1 DEF Shape
    <2>2. \A k \in Instances : \A j \in DOMAIN batch'[k] : j \in DOMAIN batch[k] /\ batch'[k][j] = batch[k][j]
      BY <1>1, <1>2, <1>3 DEF Shape
    <2>. QED BY <1>1, <1>2, <1>6, <2>1, <2>2 DEF FinishedIsOver, InBatch
  <1>. QED BY <1>4, <1>5, <1>7, <1>8 DEF QueueInv

LEMMA PollKeeps ==
    ASSUME QueueInv, NEW i \in Instances, processDueJobs(i)
    PROVE  QueueInv'
  <1>1. Shape /\ SelectedExist /\ ExecutedIsLocked /\ FinishedIsOver
    BY DEF QueueInv
  <1> DEFINE taken == [j \in findDueJobs |-> [attempts |-> row[j].attempts, vis |-> row[j].vis]]
  <1>2. /\ pc' = [pc EXCEPT ![i] = "batch"] /\ batch' = [batch EXCEPT ![i] = taken]
        /\ pc[i] = "idle" /\ UNCHANGED <<row, current, finished>>
    BY DEF processDueJobs
  <1>3. \A j \in findDueJobs : /\ j \in Jobs /\ row[j].status = "pending"
                               /\ row[j].attempts \in Nat /\ row[j].vis \in {"null", "past"}
    BY <1>1 DEF findDueJobs, dueRows, Shape, Row
  <1>4. DOMAIN taken = findDueJobs /\ taken \in [findDueJobs -> Snapshot]
    BY <1>3 DEF Snapshot
  <1>5. \A j \in findDueJobs : taken[j].vis = row[j].vis
    OBVIOUS
  <1>. HIDE DEF taken
  <1>6. /\ pc' \in [Instances -> {"down", "idle", "batch", "running", "handled"}]
        /\ pc'[i] = "batch" /\ batch'[i] = taken /\ DOMAIN batch' = Instances
        /\ \A k \in Instances : k # i => pc'[k] = pc[k] /\ batch'[k] = batch[k]
    BY <1>1, <1>2 DEF Shape
  <1>7. Shape'
    BY <1>1, <1>2, <1>3, <1>4, <1>6 DEF Shape
  <1>8. SelectedExist'
    BY <1>1, <1>2, <1>3, <1>4, <1>6 DEF SelectedExist, Exists
  <1>9. \A k \in Instances, j \in Jobs : Executing(k, j)' => Executing(k, j)
    BY <1>2, <1>6 DEF Executing
  <1>10. ExecutedIsLocked'
    BY <1>1, <1>2, <1>9 DEF ExecutedIsLocked
  <1>11. FinishedIsOver'
    <2>1. \A j \in finished : j \in Jobs /\ row[j].vis # "null"
      BY <1>1 DEF Shape, FinishedIsOver
    <2>. QED BY <1>1, <1>2, <1>3, <1>4, <1>5, <1>6, <1>9, <2>1 DEF FinishedIsOver, InBatch
  <1>. QED BY <1>7, <1>8, <1>10, <1>11 DEF QueueInv

\* The lock is set on a job that was selected without one, so on none that is finished.
LEMMA LockKeeps ==
    ASSUME QueueInv, NEW i \in Instances, NEW j \in Jobs, LockAndRun(i, j)
    PROVE  QueueInv'
  <1>1. Shape /\ SelectedExist /\ ExecutedIsLocked /\ FinishedIsOver
    BY DEF QueueInv
  <1>2. /\ pc[i] = "batch" /\ j \in DOMAIN batch[i] /\ batch[i][j].vis = "null"
        /\ row' = [row EXCEPT ![j].status = "running", ![j].vis = "ahead"]
        /\ pc' = [pc EXCEPT ![i] = "running"] /\ current' = [current EXCEPT ![i] = j]
        /\ UNCHANGED <<batch, finished>>
    BY DEF LockAndRun
  <1>3. j \notin finished
    BY <1>1, <1>2 DEF FinishedIsOver, InBatch
  <1>4. PICK w : w = [row[j] EXCEPT !.status = "running", !.vis = "ahead"]
    OBVIOUS
  <1>5. w \in Row /\ w.status = "running" /\ w.vis = "ahead"
    BY <1>1, <1>4 DEF Shape, Row, Statuses
  <1>6. row' = [row EXCEPT ![j] = w]
    BY <1>1, <1>2, <1>4 DEF Shape
  <1>7. row' \in [Jobs -> Row] /\ row'[j] = w /\ \A k \in Jobs : k # j => row'[k] = row[k]
    BY <1>1, <1>5, <1>6 DEF Shape
  <1>8. Shape'
    BY <1>1, <1>2, <1>7 DEF Shape
  <1>9. SelectedExist'
    BY <1>1, <1>2, <1>5, <1>7 DEF Shape, SelectedExist, Exists
  <1>10. \A k \in Instances, l \in Jobs : Executing(k, l)' => Executing(k, l) \/ l = j
    BY <1>1, <1>2 DEF Executing, Shape
  <1>11. ExecutedIsLocked'
    BY <1>1, <1>5, <1>7, <1>10 DEF ExecutedIsLocked
  <1>12. FinishedIsOver'
    BY <1>1, <1>2, <1>3, <1>7, <1>10 DEF Shape, FinishedIsOver, InBatch
  <1>. QED BY <1>8, <1>9, <1>11, <1>12 DEF QueueInv

LEMMA ReturnKeeps ==
    ASSUME QueueInv, NEW i \in Instances, HandlerReturns(i)
    PROVE  QueueInv'
  <1>1. Shape /\ SelectedExist /\ ExecutedIsLocked /\ FinishedIsOver
    BY DEF QueueInv
  <1>2. /\ pc[i] = "running" /\ pc' = [pc EXCEPT ![i] = "handled"]
        /\ UNCHANGED <<row, batch, current, finished>>
    BY DEF HandlerReturns
  <1>3. Shape'
    BY <1>1, <1>2 DEF Shape
  <1>4. \A k \in Instances, j \in Jobs : Executing(k, j)' => Executing(k, j)
    BY <1>1, <1>2 DEF Executing, Shape
  <1>5. SelectedExist' /\ ExecutedIsLocked'
    BY <1>1, <1>2, <1>4 DEF SelectedExist, Exists, ExecutedIsLocked
  <1>6. FinishedIsOver'
    BY <1>1, <1>2, <1>4 DEF Shape, FinishedIsOver, InBatch
  <1>. QED BY <1>3, <1>5, <1>6 DEF QueueInv

\* Only here does a job become finished: its timeout is set, and it leaves the batch.
LEMMA SuccessKeeps ==
    ASSUME QueueInv, OneProcess, NEW i \in Instances, RecordSuccess(i)
    PROVE  QueueInv'
  <1>1. Shape /\ SelectedExist /\ ExecutedIsLocked /\ FinishedIsOver
    BY DEF QueueInv
  <1>2. pc[i] = "handled"
    BY DEF RecordSuccess
  <1>3. PICK j : j = current[i]
    OBVIOUS
  <1>4. j \in DOMAIN batch[i] /\ j \in Jobs /\ Executing(i, j)
    BY <1>1, <1>2, <1>3 DEF Shape, Executing
  <1>5. ASSUME updateJobStatus(j, "completed"), finished' = finished \cup {j}, NextOfBatch(i, j)
        PROVE  QueueInv'
    <2>1. /\ pc' \in [Instances -> {"down", "idle", "batch", "running", "handled"}]
          /\ pc'[i] \in {"idle", "batch"}
          /\ DOMAIN batch' = Instances /\ DOMAIN current' = Instances
          /\ DOMAIN batch'[i] = DOMAIN batch[i] \ {j}
          /\ \A k \in DOMAIN batch'[i] : batch'[i][k] = batch[i][k]
          /\ batch'[i] \in [DOMAIN batch'[i] -> Snapshot]
      BY <1>1, <1>4, <1>5, LeavesBatch
    <2>2. HarmlessWrite
      BY <1>1, <1>4, <1>5, StatusSet DEF Shape, Statuses
    <2>3. row'[j].status = "completed" /\ row'[j].vis = row[j].vis
      BY <1>1, <1>4, <1>5 DEF updateJobStatus, Shape, Row
    <2>4. \A k \in Instances : k = i
      BY DEF OneProcess
    <2>5. Shape'
      BY <1>1, <1>4, <1>5, <2>1, <2>2, <2>4 DEF Shape, HarmlessWrite
    <2>6. SelectedExist'
      BY <1>1, <2>1, <2>2, <2>4 DEF Shape, SelectedExist, Exists, HarmlessWrite, Harmless
    <2>7. \A k \in Instances, l \in Jobs : ~Executing(k, l)'
      BY <2>1, <2>4 DEF Executing
    <2>8. ExecutedIsLocked'
      BY <2>7 DEF ExecutedIsLocked
    <2>9. row[j].vis # "null"
      BY <1>1, <1>4 DEF ExecutedIsLocked
    <2>10. ASSUME NEW l \in finished'
           PROVE  row'[l].status \notin {"absent", "running"} /\ row'[l].vis # "null"
      BY <1>1, <1>5, <2>2, <2>3, <2>9, <2>10 DEF Shape, FinishedIsOver, HarmlessWrite, Harmless
    <2>11. ASSUME NEW l \in finished', NEW k \in Instances, l \in DOMAIN batch'[k]
           PROVE  batch'[k][l].vis = "past"
      BY <1>1, <1>5, <2>1, <2>4, <2>11 DEF FinishedIsOver, InBatch
    <2>12. finished' \subseteq Jobs
      BY <1>1, <1>4, <1>5 DEF Shape
    <2>13. FinishedIsOver'
      BY <2>7, <2>10, <2>11, <2>12 DEF FinishedIsOver, InBatch
    <2>. QED BY <2>5, <2>6, <2>8, <2>13 DEF QueueInv
  <1>6. ASSUME NEW written \in BOOLEAN, handleJobFailure(i, j, written), finished' = finished
        PROVE  QueueInv'
    BY <1>4, <1>6, FailureHarmless
  <1>. QED BY <1>3, <1>5, <1>6 DEF RecordSuccess

-----------------------------------------------------------------------------
(* Requests and time only write the table, and do no harm to a row. *)

LEMMA EnqueueKeeps ==
    ASSUME QueueInv, NEW j \in Jobs, enqueueDelayed(j)
    PROVE  QueueInv'
  <1>1. Shape /\ SelectedExist /\ ExecutedIsLocked /\ FinishedIsOver
    BY DEF QueueInv
  <1>2. PICK due \in BOOLEAN :
          row' = [row EXCEPT ![j] = [status |-> "pending", attempts |-> 0, vis |-> "null", due |-> due]]
    BY DEF enqueueDelayed
  <1>3. row[j].status = "absent" /\ UNCHANGED <<pc, batch, current, finished>>
    BY DEF enqueueDelayed
  <1>4. \A i \in Instances : ~Executing(i, j)
    BY <1>1, <1>3 DEF Executing, Shape, SelectedExist, Exists
  <1>5. PICK w : w = [status |-> "pending", attempts |-> 0, vis |-> "null", due |-> due]
    OBVIOUS
  <1>6. w \in Row /\ w.status = "pending"
    BY <1>5 DEF Row, Statuses
  <1>7. row' \in [Jobs -> Row] /\ row'[j] = w /\ \A k \in Jobs : k # j => row'[k] = row[k]
    BY <1>1, <1>2, <1>5, <1>6 DEF Shape
  <1>8. Shape'
    BY <1>1, <1>3, <1>7 DEF Shape
  <1>9. SelectedExist'
    BY <1>1, <1>3, <1>6, <1>7 DEF Shape, SelectedExist, Exists
  <1>10. \A i \in Instances, k \in Jobs : Executing(i, k)' <=> Executing(i, k)
    BY <1>3 DEF Executing
  <1>11. ExecutedIsLocked'
    BY <1>1, <1>4, <1>7, <1>10 DEF ExecutedIsLocked
  <1>12. \A k \in finished : k \in Jobs /\ k # j
    BY <1>1, <1>3 DEF Shape, FinishedIsOver
  <1>13. FinishedIsOver'
    BY <1>1, <1>3, <1>7, <1>10, <1>12 DEF FinishedIsOver, InBatch
  <1>. QED BY <1>8, <1>9, <1>11, <1>13 DEF QueueInv

(* An operator's request names existing or unknown rows alike: it writes the  *)
(* status of one row, or only a flag in memory.                              *)
RequestsTyped ==
    \A c \in Clients : /\ request[c].kind \in {"cancel", "retry"} => request[c].job \in Jobs
                       /\ request[c].kind = "bulk" => request[c].jobs \subseteq Jobs

LEMMA OperatorKeeps ==
    ASSUME QueueInv, RequestsTyped, NEW c \in Clients, OperatorStep(c)
    PROVE  QueueInv'
  <1>1. row \in [Jobs -> Row]
    BY DEF QueueInv, Shape
  <1>2. UNCHANGED <<pc, batch, current, finished>>
    BY DEF OperatorStep, ReadJob, ReadFailed, Read, cancel, retryJob, bulkRetry, Answered
  <1>3. HarmlessWrite
    <2>1. CASE ReadJob(c) \/ ReadFailed(c)
      BY <1>1, <2>1, NoWrite DEF ReadJob, ReadFailed, Read
    <2>2. CASE cancel(c)
      <3>1. request[c].job \in Jobs
        BY <2>2 DEF cancel, RequestsTyped
      <3>2. updateJobStatus(request[c].job, "cancelled") \/ row' = row
        BY <2>2 DEF cancel
      <3>3. "cancelled" \in Statuses \ {"running"}
        BY DEF Statuses
      <3>. QED BY <1>1, <3>1, <3>2, <3>3, NoWrite, StatusSet
    <2>3. CASE retryJob(c)
      <3>1. PICK j : j = request[c].job
        OBVIOUS
      <3>2. j \in Jobs
        BY <2>3, <3>1 DEF retryJob, RequestsTyped
      <3>3. \/ row' = [row EXCEPT ![j].status = "pending", ![j].due = TRUE]
            \/ row' = row
        BY <2>3, <3>1 DEF retryJob
      <3>. QED BY <1>1, <3>2, <3>3, NoWrite, MadePending
    <2>4. CASE bulkRetry(c)
      <3>1. PICK j \in request[c].jobs :
              row' = [row EXCEPT ![j].status = "pending", ![j].due = TRUE]
        BY <2>4 DEF bulkRetry
      <3>2. j \in Jobs
        BY <2>4, <3>1 DEF bulkRetry, RequestsTyped
      <3>. QED BY <1>1, <3>1, <3>2, MadePending
    <2>. QED BY <2>1, <2>2, <2>3, <2>4 DEF OperatorStep
  <1>. QED BY <1>2, <1>3, TableWritten

LEMMA TimeKeeps ==
    ASSUME QueueInv, NEW j \in Jobs, BecomesDue(j) \/ VisibilityPasses(j)
    PROVE  QueueInv'
  <1>1. row \in [Jobs -> Row]
    BY DEF QueueInv, Shape
  <1>2. UNCHANGED <<pc, batch, current, finished>>
    BY DEF BecomesDue, VisibilityPasses
  <1>3. ASSUME NEW w, w = [row[j] EXCEPT !.due = TRUE] \/ w = [row[j] EXCEPT !.vis = "past"]
        PROVE  Harmless(row[j], w)
    BY <1>1, <1>3 DEF Row, Harmless
  <1>4. PICK w : /\ row' = [row EXCEPT ![j] = w]
                 /\ w = [row[j] EXCEPT !.due = TRUE] \/ w = [row[j] EXCEPT !.vis = "past"]
    BY DEF BecomesDue, VisibilityPasses
  <1>5. HarmlessWrite
    BY <1>1, <1>3, <1>4, OneRowWritten
  <1>. QED BY <1>2, <1>5, TableWritten

-----------------------------------------------------------------------------
(* What the requests in flight look like. *)

ClientsTyped == request \in [Clients -> Request]

LEMMA TypedMeans == ClientsTyped => RequestsTyped
  BY DEF ClientsTyped, RequestsTyped, Request, NoRequest

LEMMA RequestsStayTyped ==
    ASSUME ClientsTyped, Shape, [JobNext]_jobVars
    PROVE  ClientsTyped'
  <1>1. NoRequest \in Request
    BY DEF Request
  <1>2. ASSUME NEW i \in Instances, StartProcess(i) \/ CrashProcess(i) \/ ExecutorStep(i)
        PROVE  ClientsTyped'
    <2>1. request' = request \/ CrashProcess(i)
      BY <1>2 DEF StartProcess, ExecutorStep, processDueJobs, HandlerReturns, HandlerThrows,
                  RecordSuccess, TimeOut, LockAndRun, LockRefused
    <2>2. CASE CrashProcess(i)
      BY <1>1, <2>2 DEF CrashProcess, ClientsTyped
    <2>. QED BY <2>1, <2>2 DEF ClientsTyped
  <1>3. ASSUME NEW c \in Clients, NEW r \in Request, request' = [request EXCEPT ![c] = r]
        PROVE  ClientsTyped'
    BY <1>3 DEF ClientsTyped
  <1>4. ASSUME NEW c \in Clients, OperatorStep(c)
        PROVE  ClientsTyped'
    <2>1. CASE ReadJob(c)
      <3>1. PICK i \in Instances, j \in Jobs, kind \in {"cancel", "retry"} :
              /\ row[j].status # "absent"
              /\ Read(c, [kind |-> kind, job |-> j, saw |-> row[j].status, at |-> i])
        BY <2>1 DEF ReadJob
      <3>2. row[j].status \in Statuses
        BY <3>1 DEF Shape, Row
      <3>3. PICK r : r = [kind |-> kind, job |-> j, saw |-> row[j].status, at |-> i]
        OBVIOUS
      <3>4. r \in Request
        BY <3>2, <3>3 DEF Request
      <3>. QED BY <1>3, <3>1, <3>3, <3>4 DEF Read
    <2>2. CASE ReadFailed(c)
      <3>1. PICK failed : failed = {j \in Jobs : row[j].status = "failed"}
        OBVIOUS
      <3>2. PICK i \in Instances : Read(c, [kind |-> "bulk", jobs |-> failed, at |-> i])
        BY <2>2, <3>1 DEF ReadFailed
      <3>3. PICK r : r = [kind |-> "bulk", jobs |-> failed, at |-> i]
        OBVIOUS
      <3>4. r \in Request
        BY <3>1, <3>3 DEF Request
      <3>. QED BY <1>3, <3>2, <3>3, <3>4 DEF Read
    <2>3. CASE cancel(c) \/ retryJob(c)
      BY <1>1, <1>3, <2>3 DEF cancel, retryJob, Answered
    <2>4. CASE bulkRetry(c)
      <3>1. PICK r : r = request[c]
        OBVIOUS
      <3>2. r.kind = "bulk" /\ r \in Request
        BY <2>4, <3>1 DEF bulkRetry, ClientsTyped
      <3>3. PICK i \in Instances : r = [kind |-> "bulk", jobs |-> r.jobs, at |-> i] /\ r.jobs \subseteq Jobs
        BY <3>2 DEF Request, NoRequest
      <3>4. PICK j \in r.jobs :
              request' = [request EXCEPT ![c] =
                            IF r.jobs = {j} THEN NoRequest ELSE [r EXCEPT !.jobs = @ \ {j}]]
        BY <2>4, <3>1 DEF bulkRetry
      <3>5. [r EXCEPT !.jobs = @ \ {j}] = [kind |-> "bulk", jobs |-> r.jobs \ {j}, at |-> i]
        BY <3>3
      <3>6. [r EXCEPT !.jobs = @ \ {j}] \in Request
        BY <3>3, <3>5 DEF Request
      <3>7. PICK left : left = IF r.jobs = {j} THEN NoRequest ELSE [r EXCEPT !.jobs = @ \ {j}]
        OBVIOUS
      <3>8. left \in Request /\ request' = [request EXCEPT ![c] = left]
        BY <1>1, <3>4, <3>6, <3>7
      <3>. QED BY <1>3, <3>8
    <2>. QED BY <1>4, <2>1, <2>2, <2>3, <2>4 DEF OperatorStep
  <1>5. ASSUME NEW j \in Jobs, enqueueDelayed(j) \/ BecomesDue(j) \/ VisibilityPasses(j)
        PROVE  ClientsTyped'
    BY <1>5 DEF enqueueDelayed, BecomesDue, VisibilityPasses, ClientsTyped
  <1>6. CASE UNCHANGED jobVars
    BY <1>6 DEF jobVars, ClientsTyped
  <1>. QED BY <1>2, <1>4, <1>5, <1>6 DEF JobNext

-----------------------------------------------------------------------------
LEMMA InitQueue == JobInit => QueueInv /\ ClientsTyped
  <1> SUFFICES ASSUME JobInit
               PROVE  QueueInv /\ ClientsTyped
    OBVIOUS
  <1>1. DOMAIN EmptyBatch = {} /\ EmptyBatch \in [{} -> Snapshot]
    BY DEF EmptyBatch
  <1>2. \A i \in Instances : batch[i] = EmptyBatch /\ pc[i] = "down"
    BY DEF JobInit
  <1>3. row \in [Jobs -> Row]
    BY DEF JobInit, Row
  <1>4. Shape
    BY <1>1, <1>2, <1>3 DEF JobInit, Shape
  <1>5. SelectedExist
    BY <1>1, <1>2 DEF SelectedExist
  <1>6. ExecutedIsLocked
    BY <1>2 DEF ExecutedIsLocked, Executing
  <1>7. FinishedIsOver
    BY DEF JobInit, FinishedIsOver
  <1>8. ClientsTyped
    BY DEF JobInit, ClientsTyped, Request
  <1>. QED BY <1>4, <1>5, <1>6, <1>7, <1>8 DEF QueueInv

LEMMA QueueStep ==
    ASSUME QueueInv, ClientsTyped, OneProcess, [JobNext]_jobVars
    PROVE  QueueInv'
  <1>1. ASSUME NEW i \in Instances, ExecutorStep(i)
        PROVE  QueueInv'
    <2>1. CASE HandlerThrows(i)
      <3>1. current[i] \in DOMAIN batch[i]
        BY <2>1 DEF HandlerThrows, QueueInv, Shape
      <3>2. PICK written \in BOOLEAN : handleJobFailure(i, current[i], written)
        BY <2>1 DEF HandlerThrows
      <3>3. finished' = finished
        BY <2>1 DEF HandlerThrows
      <3>. QED BY <3>1, <3>2, <3>3, FailureHarmless
    <2>2. ASSUME NEW j \in Jobs, TimeOut(i, j) \/ LockRefused(i, j)
          PROVE  QueueInv'
      <3>1. j \in DOMAIN batch[i] /\ finished' = finished
        BY <2>2 DEF TimeOut, LockRefused
      <3>2. PICK written \in BOOLEAN : handleJobFailure(i, j, written)
        BY <2>2 DEF TimeOut, LockRefused
      <3>. QED BY <3>1, <3>2, FailureHarmless
    <2>. QED BY <1>1, <2>1, <2>2, PollKeeps, ReturnKeeps, SuccessKeeps, LockKeeps DEF ExecutorStep
  <1>2. ASSUME NEW c \in Clients, OperatorStep(c)
        PROVE  QueueInv'
    BY <1>2, TypedMeans, OperatorKeeps
  <1>3. CASE UNCHANGED jobVars
    <2>1. row' = row /\ UNCHANGED <<pc, batch, current, finished>>
      BY <1>3 DEF jobVars
    <2>. QED BY <2>1, NoWrite, TableWritten DEF QueueInv, Shape
  <1>. QED BY <1>1, <1>2, <1>3, StartKeeps, CrashKeeps, EnqueueKeeps, TimeKeeps DEF JobNext

(* With one process a job whose success was recorded is never executed again, *)
(* whatever cancellations, retries, refused writes, timeouts and crashes      *)
(* cross it (job-executor.service.ts, job.repository.ts).                     *)
THEOREM FinishedNeverRunsAgain ==
    ASSUME OneProcess
    PROVE  JobSpec => []FinishedIsOver
  <1>1. QueueInv /\ ClientsTyped /\ [JobNext]_jobVars => (QueueInv /\ ClientsTyped)'
    BY QueueStep, RequestsStayTyped DEF QueueInv
  <1>2. QueueInv => FinishedIsOver
    BY DEF QueueInv
  <1>. QED BY <1>1, <1>2, InitQueue, PTL DEF JobSpec

-----------------------------------------------------------------------------
(* The queue delivers as JobDelivery promises. Where a job is depends on its *)
(* row, on whether it was finished, on who runs it and on whether it was     *)
(* selected for a run.                                                       *)

Runs(j) == \E i \in Instances : Executing(i, j)
Selected(j) == \E i \in Instances : InBatch(i, j) /\ batch[i][j].vis = "null"
Waits(r) == r.status = "running" \/ (r.status = "pending" /\ r.vis = "null")

PhaseOf(runs, over, r, selected) ==
    IF runs THEN "running"
    ELSE IF over THEN "done"
    ELSE IF r.status = "absent" THEN "absent"
    ELSE IF Waits(r) \/ selected THEN "waiting" ELSE "dropped"

LEMMA PhaseIs ==
    ASSUME NEW j
    PROVE  /\ Phase(j) = PhaseOf(Runs(j), j \in finished, row[j], Selected(j))
           /\ Phase(j)' = PhaseOf(Runs(j)', j \in finished', row'[j], Selected(j)')
  <1>1. Phase(j) = PhaseOf(Runs(j), j \in finished, row[j], Selected(j))
    BY DEF Phase, PhaseOf, Runs, Selected, Waits
  <1>2. Phase(j)' = PhaseOf(Runs(j)', j \in finished', row'[j], Selected(j)')
    BY DEF Phase, PhaseOf, Runs, Selected, Waits
  <1>. QED BY <1>1, <1>2

\* The moves of one job that JobDelivery knows, and those of a crash.
Allowed(from, to) ==
    \/ from = to
    \/ from = "absent" /\ to = "waiting"
    \/ from = "waiting" /\ to \in {"running", "dropped"}
    \/ from = "running" /\ to \in {"done", "waiting", "dropped"}
    \/ from = "dropped" /\ to = "waiting"

Falls(from, to) == from = to \/ (from \in {"waiting", "running"} /\ to \in {"waiting", "dropped"})

DeliveryStep == [Delivery!DeliveryNext]_([j \in Jobs |-> Phase(j)])

LEMMA OneJobMoves ==
    ASSUME NEW j \in Jobs, Allowed(Phase(j), Phase(j)'),
           \A k \in Jobs : k # j => Phase(k)' = Phase(k)
    PROVE  DeliveryStep
  <1> DEFINE phases == [k \in Jobs |-> Phase(k)]
  <1>1. phases' = [phases EXCEPT ![j] = Phase(j)']
    OBVIOUS
  <1>2. CASE Phase(j)' = Phase(j)
    BY <1>2 DEF DeliveryStep
  <1>3. CASE Phase(j) = "absent" /\ Phase(j)' = "waiting"
    BY <1>1, <1>3 DEF DeliveryStep, Delivery!DeliveryNext, Delivery!Accept, Delivery!Move
  <1>4. CASE Phase(j) = "waiting" /\ Phase(j)' = "running"
    BY <1>1, <1>4 DEF DeliveryStep, Delivery!DeliveryNext, Delivery!Hand, Delivery!Move
  <1>5. CASE Phase(j) = "waiting" /\ Phase(j)' = "dropped"
    BY <1>1, <1>5 DEF DeliveryStep, Delivery!DeliveryNext, Delivery!Drop, Delivery!Move
  <1>6. CASE Phase(j) = "running" /\ Phase(j)' = "done"
    BY <1>1, <1>6 DEF DeliveryStep, Delivery!DeliveryNext, Delivery!Record, Delivery!Move
  <1>7. CASE Phase(j) = "running" /\ Phase(j)' \in {"waiting", "dropped"}
    BY <1>1, <1>7 DEF DeliveryStep, Delivery!DeliveryNext, Delivery!Return, Delivery!Move
  <1>8. CASE Phase(j) = "dropped" /\ Phase(j)' = "waiting"
    BY <1>1, <1>8 DEF DeliveryStep, Delivery!DeliveryNext, Delivery!Revive, Delivery!Move
  <1>. QED BY <1>2, <1>3, <1>4, <1>5, <1>6, <1>7, <1>8 DEF Allowed

LEMMA JobsFall ==
    ASSUME \A k \in Jobs : Falls(Phase(k), Phase(k)')
    PROVE  DeliveryStep
  <1> DEFINE places == {"absent", "waiting", "running", "done", "dropped"}
  <1>1. \A k \in Jobs : Phase(k)' \in places
    BY DEF Phase
  <1>2. Delivery!Crash
    BY <1>1 DEF Delivery!Crash, Falls
  <1>. QED BY <1>2 DEF DeliveryStep, Delivery!DeliveryNext

-----------------------------------------------------------------------------
(* Kinds of steps. *)

\* What a job that nothing happens to keeps.
LEMMA Untouched ==
    ASSUME NEW k, row'[k] = row[k], k \in finished' <=> k \in finished,
           Runs(k)' <=> Runs(k), Selected(k)' <=> Selected(k)
    PROVE  Phase(k)' = Phase(k)
  BY PhaseIs DEF PhaseOf

\* A write of one row that stays, by a request or by time.
LEMMA RowMoves ==
    ASSUME row \in [Jobs -> Row], NEW j \in Jobs, NEW w, row' = [row EXCEPT ![j] = w],
           Exists(j), w.status # "absent", UNCHANGED <<pc, batch, current, finished>>
    PROVE  DeliveryStep
  <1>1. \A k : (Runs(k)' <=> Runs(k)) /\ (Selected(k)' <=> Selected(k))
    BY DEF Runs, Selected, Executing, InBatch
  <1>2. \A k \in Jobs : k # j => Phase(k)' = Phase(k)
    BY <1>1, Untouched
  <1>3. row'[j] = w
    OBVIOUS
  <1>4. Phase(j)' = IF Runs(j) THEN "running"
                    ELSE IF j \in finished THEN "done"
                    ELSE IF Waits(w) \/ Selected(j) THEN "waiting" ELSE "dropped"
    <2>1. Phase(j)' = PhaseOf(Runs(j), j \in finished, w, Selected(j))
      BY <1>1, <1>3, PhaseIs DEF PhaseOf
    <2>. QED BY <2>1 DEF PhaseOf
  <1>5. Allowed(Phase(j), Phase(j)')
    BY <1>4, PhaseIs DEF Allowed, Exists, PhaseOf
  <1>. QED BY <1>2, <1>5, OneJobMoves

LEMMA NothingMoves ==
    ASSUME UNCHANGED <<row, batch, finished>>, \A k \in Jobs : Runs(k)' <=> Runs(k)
    PROVE  DeliveryStep
  <1>1. \A k \in Jobs : Selected(k)' <=> Selected(k)
    BY DEF Selected, InBatch
  <1>2. \A k \in Jobs : Phase(k)' = Phase(k)
    BY <1>1, Untouched
  <1>3. \A k \in Jobs : Falls(Phase(k), Phase(k)')
    BY <1>2 DEF Falls
  <1>. QED BY <1>3, JobsFall

-----------------------------------------------------------------------------
(* With one process at most one job is run, and nothing else is touched when *)
(* the process is done with a job.                                          *)

LEMMA Idles ==
    ASSUME OneProcess, NEW i \in Instances, pc[i] \notin {"running", "handled"}
    PROVE  \A k : ~Runs(k)
  BY DEF OneProcess, Runs, Executing

LEMMA OnlyJobLeaves ==
    ASSUME Shape, OneProcess, NEW i \in Instances, NEW j \in DOMAIN batch[i], NextOfBatch(i, j)
    PROVE  /\ \A k : ~Runs(k)'
           /\ ~Selected(j)'
           /\ \A k : k # j => (Selected(k)' <=> Selected(k))
  <1>1. /\ pc'[i] \in {"idle", "batch"}
        /\ DOMAIN batch'[i] = DOMAIN batch[i] \ {j}
        /\ \A k \in DOMAIN batch'[i] : batch'[i][k] = batch[i][k]
    BY LeavesBatch
  <1>2. \A k \in Instances : k = i
    BY DEF OneProcess
  <1>3. \A k : ~Runs(k)'
    BY <1>1, <1>2 DEF Runs, Executing
  <1>4. ~Selected(j)'
    BY <1>1, <1>2 DEF Selected, InBatch
  <1>5. \A k : k # j => (Selected(k)' <=> Selected(k))
    BY <1>1, <1>2 DEF Selected, InBatch
  <1>. QED BY <1>3, <1>4, <1>5

\* The process is dealing with this job and runs no other.
Handles(i, j) ==
    /\ i \in Instances /\ j \in DOMAIN batch[i]
    /\ \A k : Runs(k) => k = j

LEMMA LeavesUnfinished ==
    ASSUME QueueInv, OneProcess, NEW i, NEW j, Handles(i, j), NextOfBatch(i, j),
           finished' = finished, NEW w, w = row[j] \/ w.status = "failed",
           row' = [row EXCEPT ![j] = w]
    PROVE  DeliveryStep
  <1>1. Shape /\ SelectedExist /\ FinishedIsOver
    BY DEF QueueInv
  <1>2. i \in Instances /\ j \in DOMAIN batch[i] /\ j \in Jobs
    BY <1>1 DEF Handles, Shape
  <1>3. /\ \A k : ~Runs(k)'
        /\ ~Selected(j)'
        /\ \A k : k # j => (Selected(k)' <=> Selected(k))
    BY <1>1, <1>2, OnlyJobLeaves
  <1>4. \A k \in Jobs : k # j => row'[k] = row[k] /\ ~Runs(k)
    BY <1>1 DEF Shape, Handles
  <1>5. \A k \in Jobs : k # j => Phase(k)' = Phase(k)
    BY <1>3, <1>4, Untouched
  <1>6. row'[j] = w /\ w.status # "absent" /\ row[j].status # "absent"
    BY <1>1, <1>2 DEF Shape, SelectedExist, Exists
  <1>7. Runs(j) => j \notin finished
    BY <1>1 DEF Runs, FinishedIsOver
  <1>8. Phase(j)' = PhaseOf(FALSE, j \in finished, w, FALSE)
    BY <1>3, <1>6, PhaseIs DEF PhaseOf
  <1>9. Waits(w) => Waits(row[j])
    BY DEF Waits
  <1>10. Allowed(Phase(j), Phase(j)')
    BY <1>6, <1>7, <1>8, <1>9, PhaseIs DEF PhaseOf, Allowed
  <1>. QED BY <1>2, <1>5, <1>10, OneJobMoves

\* The attempt failed, was lost or could not be locked.
LEMMA FailureMoves ==
    ASSUME QueueInv, OneProcess, NEW i, NEW j, Handles(i, j), NEW written \in BOOLEAN,
           handleJobFailure(i, j, written), finished' = finished
    PROVE  DeliveryStep
  <1>1. row \in [Jobs -> Row] /\ j \in Jobs
    BY DEF QueueInv, Shape, Handles
  <1>2. PICK n : n = batch[i][j].attempts + 1
    OBVIOUS
  <1>3. PICK w : /\ w = row[j] \/ w = [row[j] EXCEPT !.status = "failed", !.attempts = n]
                 /\ row' = [row EXCEPT ![j] = w]
    <2>1. CASE row' = row
      BY <1>1, <2>1
    <2>2. CASE row' = [row EXCEPT ![j].status = "failed", ![j].attempts = n]
      BY <1>1, <2>2
    <2>. QED BY <1>2, <2>1, <2>2 DEF handleJobFailure
  <1>4. w = row[j] \/ w.status = "failed"
    BY <1>1, <1>3 DEF Row
  <1>5. NextOfBatch(i, j)
    BY DEF handleJobFailure
  <1>. QED BY <1>3, <1>4, <1>5, LeavesUnfinished

LEMMA BatchHandles ==
    ASSUME OneProcess, NEW i \in Instances, NEW j \in DOMAIN batch[i], pc[i] = "batch"
    PROVE  Handles(i, j)
  BY Idles DEF Handles

LEMMA CurrentHandles ==
    ASSUME Shape, OneProcess, NEW i \in Instances, pc[i] \in {"running", "handled"}
    PROVE  Handles(i, current[i])
  BY DEF Shape, OneProcess, Handles, Runs, Executing

LEMMA SuccessMoves ==
    ASSUME QueueInv, OneProcess, NEW i \in Instances, RecordSuccess(i)
    PROVE  DeliveryStep
  <1>1. Shape /\ SelectedExist /\ FinishedIsOver
    BY DEF QueueInv
  <1>2. PICK j : j = current[i]
    OBVIOUS
  <1>3. Handles(i, j) /\ j \in DOMAIN batch[i] /\ j \in Jobs /\ Runs(j)
    BY <1>1, <1>2, CurrentHandles DEF RecordSuccess, Handles, Shape, Runs, Executing
  <1>4. ASSUME updateJobStatus(j, "completed"), finished' = finished \cup {j}, NextOfBatch(i, j)
        PROVE  DeliveryStep
    <2>1. /\ \A k : ~Runs(k)'
          /\ \A k : k # j => (Selected(k)' <=> Selected(k))
      BY <1>1, <1>3, <1>4, OnlyJobLeaves
    <2>2. \A k \in Jobs : k # j => row'[k] = row[k] /\ ~Runs(k)
      BY <1>1, <1>3, <1>4 DEF updateJobStatus, Shape, Handles
    <2>3. \A k \in Jobs : k # j => Phase(k)' = Phase(k)
      BY <1>4, <2>1, <2>2, Untouched
    <2>4. Phase(j) = "running" /\ Phase(j)' = "done"
      BY <1>3, <1>4, <2>1, PhaseIs DEF PhaseOf
    <2>. QED BY <1>3, <2>3, <2>4, OneJobMoves DEF Allowed
  <1>. QED BY <1>2, <1>3, <1>4, FailureMoves DEF RecordSuccess

\* A job is handed to its handler only when nobody has finished it.
LEMMA LockMoves ==
    ASSUME QueueInv, OneProcess, NEW i \in Instances, NEW j \in Jobs, LockAndRun(i, j)
    PROVE  DeliveryStep
  <1>1. Shape /\ SelectedExist /\ FinishedIsOver
    BY DEF QueueInv
  <1>2. /\ pc[i] = "batch" /\ j \in DOMAIN batch[i] /\ batch[i][j].vis = "null"
        /\ row' = [row EXCEPT ![j].status = "running", ![j].vis = "ahead"]
        /\ pc' = [pc EXCEPT ![i] = "running"] /\ current' = [current EXCEPT ![i] = j]
        /\ UNCHANGED <<batch, finished>>
    BY DEF LockAndRun
  <1>3. \A k : ~Runs(k)
    BY <1>2, Idles
  <1>4. Runs(j)' /\ \A k : k # j => ~Runs(k)'
    BY <1>1, <1>2 DEF OneProcess, Runs, Executing, Shape
  <1>5. \A k : Selected(k)' <=> Selected(k)
    BY <1>2 DEF Selected, InBatch
  <1>6. \A k \in Jobs : k # j => Phase(k)' = Phase(k)
    <2>1. \A k \in Jobs : k # j => row'[k] = row[k]
      BY <1>1, <1>2 DEF Shape
    <2>. QED BY <1>2, <1>3, <1>4, <1>5, <2>1, Untouched
  <1>7. Selected(j) /\ j \notin finished /\ row[j].status # "absent"
    BY <1>1, <1>2 DEF Selected, InBatch, FinishedIsOver, SelectedExist, Exists
  <1>8. Phase(j) = "waiting" /\ Phase(j)' = "running"
    BY <1>3, <1>4, <1>7, PhaseIs DEF PhaseOf
  <1>. QED BY <1>6, <1>8, OneJobMoves DEF Allowed

-----------------------------------------------------------------------------
(* Steps of the process. *)

\* The reset at start-up makes rows pending that waited as running ones.
LEMMA StartMoves ==
    ASSUME QueueInv, OneProcess, NEW i \in Instances, StartProcess(i)
    PROVE  DeliveryStep
  <1>1. Shape /\ FinishedIsOver
    BY DEF QueueInv
  <1>2. /\ pc[i] = "down" /\ pc' = [pc EXCEPT ![i] = "idle"]
        /\ UNCHANGED <<batch, current, finished>>
    BY DEF StartProcess
  <1>3. \A k : ~Runs(k) /\ ~Runs(k)'
    BY <1>1, <1>2 DEF OneProcess, Runs, Executing, Shape
  <1>4. \A k : Selected(k)' <=> Selected(k)
    BY <1>2 DEF Selected, InBatch
  <1>5. ASSUME NEW k \in Jobs
        PROVE  Falls(Phase(k), Phase(k)')
    <2>1. CASE row'[k] = row[k]
      BY <1>2, <1>3, <1>4, <2>1, Untouched DEF Falls
    <2>2. CASE row[k].status = "running" /\ row'[k] = [row[k] EXCEPT !.status = "pending", !.vis = "null"]
      <3>1. row[k] \in Row
        BY <1>1 DEF Shape
      <3>2. row'[k].status = "pending" /\ row'[k].vis = "null"
        BY <2>2, <3>1 DEF Row
      <3>3. k \notin finished /\ k \notin finished'
        BY <1>1, <1>2, <2>2 DEF FinishedIsOver
      <3>4. Phase(k) = "waiting"
        BY <1>3, <2>2, <3>3, PhaseIs DEF PhaseOf, Waits
      <3>5. Phase(k)' = "waiting"
        BY <1>3, <3>2, <3>3, PhaseIs DEF PhaseOf, Waits
      <3>. QED BY <3>4, <3>5 DEF Falls
    <2>. QED BY <2>1, <2>2 DEF StartProcess
  <1>. QED BY <1>5, JobsFall

\* What a crash forgets: the handler that ran, and the rows that were selected.
LEMMA CrashMoves ==
    ASSUME QueueInv, OneProcess, NEW i \in Instances, CrashProcess(i)
    PROVE  DeliveryStep
  <1>1. Shape /\ SelectedExist /\ FinishedIsOver
    BY DEF QueueInv
  <1>2. /\ pc' = [pc EXCEPT ![i] = "down"] /\ batch' = [batch EXCEPT ![i] = EmptyBatch]
        /\ UNCHANGED <<row, finished>>
    BY DEF CrashProcess
  <1>3. \A k : ~Runs(k)'
    BY <1>1, <1>2 DEF OneProcess, Runs, Executing, Shape
  <1>4. \A k : ~Selected(k)'
    BY <1>1, <1>2 DEF OneProcess, Selected, InBatch, EmptyBatch, Shape
  <1>5. ASSUME NEW k \in Jobs
        PROVE  Falls(Phase(k), Phase(k)')
    <2>1. Runs(k) => k \notin finished /\ row[k].status # "absent"
      BY <1>1 DEF Runs, Executing, FinishedIsOver, SelectedExist, Exists, Shape
    <2>2. Phase(k)' = PhaseOf(FALSE, k \in finished, row[k], FALSE)
      BY <1>2, <1>3, <1>4, PhaseIs DEF PhaseOf
    <2>. QED BY <2>1, <2>2, PhaseIs DEF PhaseOf, Falls
  <1>. QED BY <1>5, JobsFall

\* The poll selects, for a run, rows that waited; what was selected before is over.
LEMMA PollMoves ==
    ASSUME QueueInv, OneProcess, NEW i \in Instances, processDueJobs(i)
    PROVE  DeliveryStep
  <1>1. Shape
    BY DEF QueueInv
  <1> DEFINE taken == [j \in findDueJobs |-> [attempts |-> row[j].attempts, vis |-> row[j].vis]]
  <1>2. /\ pc[i] = "idle" /\ pc' = [pc EXCEPT ![i] = "batch"] /\ batch' = [batch EXCEPT ![i] = taken]
        /\ UNCHANGED <<row, finished>>
    BY DEF processDueJobs
  <1>3. \A k : ~Runs(k) /\ ~Runs(k)'
    BY <1>1, <1>2 DEF OneProcess, Runs, Executing, Shape
  <1>4. \A k \in findDueJobs : row[k].status = "pending" /\ taken[k].vis = row[k].vis
    BY DEF findDueJobs, dueRows
  <1>5. DOMAIN taken = findDueJobs
    OBVIOUS
  <1>. HIDE DEF taken
  <1>6. \A k : Selected(k)' => Waits(row[k])
    BY <1>1, <1>2, <1>4, <1>5 DEF OneProcess, Selected, InBatch, Shape, Waits
  <1>7. ASSUME NEW k \in Jobs
        PROVE  Falls(Phase(k), Phase(k)')
    <2>1. Phase(k)' = PhaseOf(FALSE, k \in finished, row[k], Selected(k)')
      BY <1>2, <1>3, PhaseIs DEF PhaseOf
    <2>. QED BY <1>3, <1>6, <2>1, PhaseIs DEF PhaseOf, Falls
  <1>. QED BY <1>7, JobsFall

LEMMA ReturnMoves ==
    ASSUME QueueInv, NEW i \in Instances, HandlerReturns(i)
    PROVE  DeliveryStep
  <1>1. UNCHANGED <<row, batch, finished>> /\ \A k \in Jobs : Runs(k)' <=> Runs(k)
    BY DEF HandlerReturns, QueueInv, Shape, Runs, Executing
  <1>. QED BY <1>1, NothingMoves

LEMMA EnqueueMoves ==
    ASSUME QueueInv, NEW j \in Jobs, enqueueDelayed(j)
    PROVE  DeliveryStep
  <1>1. Shape /\ SelectedExist /\ FinishedIsOver
    BY DEF QueueInv
  <1>2. row[j].status = "absent" /\ UNCHANGED <<pc, batch, current, finished>>
    BY DEF enqueueDelayed
  <1>3. PICK due \in BOOLEAN :
          row' = [row EXCEPT ![j] = [status |-> "pending", attempts |-> 0, vis |-> "null", due |-> due]]
    BY DEF enqueueDelayed
  <1>4. \A k : (Runs(k)' <=> Runs(k)) /\ (Selected(k)' <=> Selected(k))
    BY <1>2 DEF Runs, Selected, Executing, InBatch
  <1>5. \A k \in Jobs : k # j => Phase(k)' = Phase(k)
    <2>1. \A k \in Jobs : k # j => row'[k] = row[k]
      BY <1>1, <1>3 DEF Shape
    <2>. QED BY <1>2, <1>4, <2>1, Untouched
  <1>6. ~Runs(j) /\ j \notin finished
    BY <1>1, <1>2 DEF Runs, Executing, SelectedExist, Exists, FinishedIsOver, Shape
  <1>7. row'[j].status = "pending" /\ row'[j].vis = "null"
    BY <1>1, <1>3 DEF Shape
  <1>8. Phase(j) = "absent" /\ Phase(j)' = "waiting"
    BY <1>2, <1>4, <1>6, <1>7, PhaseIs DEF PhaseOf, Waits
  <1>. QED BY <1>5, <1>8, OneJobMoves DEF Allowed

-----------------------------------------------------------------------------
(* Requests name rows that exist, and rows stay. *)

Known(r) ==
    /\ r.kind \in {"cancel", "retry"} => r.job \in Jobs /\ Exists(r.job)
    /\ r.kind = "bulk" => \A j \in r.jobs : j \in Jobs /\ Exists(j)

RequestsKnown == \A c \in Clients : Known(request[c])

LEMMA OperatorMoves ==
    ASSUME QueueInv, RequestsKnown, NEW c \in Clients, OperatorStep(c)
    PROVE  DeliveryStep
  <1>1. row \in [Jobs -> Row]
    BY DEF QueueInv, Shape
  <1>2. UNCHANGED <<pc, batch, current, finished>>
    BY DEF OperatorStep, ReadJob, ReadFailed, Read, cancel, retryJob, bulkRetry, Answered
  <1>3. ASSUME row' = row PROVE DeliveryStep
    <2>1. \A k \in Jobs : Runs(k)' <=> Runs(k)
      BY <1>2 DEF Runs, Executing
    <2>. QED BY <1>2, <1>3, <2>1, NothingMoves
  <1>4. ASSUME NEW j, j \in Jobs, Exists(j),
               \/ row' = [row EXCEPT ![j].status = "cancelled"]
               \/ row' = [row EXCEPT ![j].status = "pending", ![j].due = TRUE]
        PROVE  DeliveryStep
    <2>1. PICK w : /\ row' = [row EXCEPT ![j] = w]
                   /\ \/ w = [row[j] EXCEPT !.status = "cancelled"]
                      \/ w = [row[j] EXCEPT !.status = "pending", !.due = TRUE]
      BY <1>1, <1>4
    <2>2. w.status # "absent"
      BY <1>1, <1>4, <2>1 DEF Row
    <2>. QED BY <1>1, <1>2, <1>4, <2>1, <2>2, RowMoves
  <1>5. \/ row' = row
        \/ \E j : /\ j \in Jobs /\ Exists(j)
                  /\ \/ row' = [row EXCEPT ![j].status = "cancelled"]
                     \/ row' = [row EXCEPT ![j].status = "pending", ![j].due = TRUE]
    <2>1. CASE ReadJob(c) \/ ReadFailed(c)
      BY <2>1 DEF ReadJob, ReadFailed, Read
    <2>2. CASE cancel(c)
      BY <2>2 DEF cancel, updateJobStatus, RequestsKnown, Known
    <2>3. CASE retryJob(c)
      BY <2>3 DEF retryJob, RequestsKnown, Known
    <2>4. CASE bulkRetry(c)
      BY <2>4 DEF bulkRetry, RequestsKnown, Known
    <2>. QED BY <2>1, <2>2, <2>3, <2>4 DEF OperatorStep
  <1>. QED BY <1>3, <1>4, <1>5

LEMMA TimeMoves ==
    ASSUME QueueInv, NEW j \in Jobs, BecomesDue(j) \/ VisibilityPasses(j)
    PROVE  DeliveryStep
  <1>1. row \in [Jobs -> Row]
    BY DEF QueueInv, Shape
  <1>2. UNCHANGED <<pc, batch, current, finished>>
    BY DEF BecomesDue, VisibilityPasses
  <1>3. PICK w : /\ row' = [row EXCEPT ![j] = w]
                 /\ \/ row[j].status # "absent" /\ w = [row[j] EXCEPT !.due = TRUE]
                    \/ row[j].vis = "ahead" /\ w = [row[j] EXCEPT !.vis = "past"]
    BY DEF BecomesDue, VisibilityPasses
  <1>4. w.status = row[j].status
    BY <1>1, <1>3 DEF Row
  <1>5. CASE Exists(j)
    BY <1>1, <1>2, <1>3, <1>4, <1>5, RowMoves DEF Exists
  <1>6. CASE ~Exists(j)
    <2>1. \A k : (Runs(k)' <=> Runs(k)) /\ (Selected(k)' <=> Selected(k))
      BY <1>2 DEF Runs, Selected, Executing, InBatch
    <2>2. \A k \in Jobs : k # j => Phase(k)' = Phase(k)
      BY <1>2, <1>3, <2>1, Untouched
    <2>3. row[j].status = "absent" /\ row'[j].status = "absent"
      BY <1>1, <1>3, <1>4, <1>6 DEF Exists
    <2>4. Phase(j)' = Phase(j)
      BY <1>2, <2>1, <2>3, PhaseIs DEF PhaseOf
    <2>. QED BY <2>2, <2>4, OneJobMoves DEF Allowed
  <1>. QED BY <1>5, <1>6

RowsStay == \A j \in Jobs : Exists(j) => row'[j].status # "absent"

LEMMA StepsKeepRows ==
    ASSUME Shape, [JobNext]_jobVars
    PROVE  RowsStay
  <1>1. row \in [Jobs -> Row]
    BY DEF Shape
  <1>2. ASSUME NEW j \in Jobs, NEW w, w.status # "absent", row' = [row EXCEPT ![j] = w]
        PROVE  RowsStay
    BY <1>1, <1>2 DEF RowsStay, Exists
  <1>3. ASSUME HarmlessWrite PROVE RowsStay
    BY <1>3 DEF HarmlessWrite, Harmless, RowsStay, Exists
  <1>4. ASSUME row' = row PROVE RowsStay
    BY <1>4 DEF RowsStay, Exists
  <1>5. ASSUME NEW j \in Jobs, NEW s \in {"completed", "cancelled"}, updateJobStatus(j, s)
        PROVE  RowsStay
    BY <1>1, <1>3, <1>5, StatusSet DEF Statuses
  <1>6. ASSUME NEW i \in Instances, NEW j \in Jobs, NEW written, handleJobFailure(i, j, written)
        PROVE  RowsStay
    <2>1. PICK n : n = batch[i][j].attempts + 1
      OBVIOUS
    <2>2. row' = row \/ row' = [row EXCEPT ![j].status = "failed", ![j].attempts = n]
      BY <1>6, <2>1 DEF handleJobFailure
    <2>. QED BY <1>1, <1>4, <2>2 DEF RowsStay, Exists, Row
  <1>7. ASSUME NEW i \in Instances, StartProcess(i) PROVE RowsStay
    <2>1. \A j \in Jobs : [row[j] EXCEPT !.status = "pending", !.vis = "null"].status = "pending"
      BY <1>1 DEF Row
    <2>. QED BY <1>1, <1>7, <2>1 DEF StartProcess, RowsStay, Exists
  <1>8. ASSUME NEW i \in Instances, ExecutorStep(i) PROVE RowsStay
    <2>1. CASE processDueJobs(i) \/ HandlerReturns(i)
      BY <1>4, <2>1 DEF processDueJobs, HandlerReturns
    <2>2. CASE HandlerThrows(i) \/ RecordSuccess(i)
      <3>1. current[i] \in Jobs
        BY <2>2 DEF HandlerThrows, RecordSuccess, Shape
      <3>. QED BY <1>5, <1>6, <2>2, <3>1 DEF HandlerThrows, RecordSuccess
    <2>3. ASSUME NEW j \in Jobs, TimeOut(i, j) \/ LockRefused(i, j) PROVE RowsStay
      BY <1>6, <2>3 DEF TimeOut, LockRefused
    <2>4. ASSUME NEW j \in Jobs, LockAndRun(i, j) PROVE RowsStay
      BY <1>1, <2>4 DEF LockAndRun, RowsStay, Exists, Row
    <2>. QED BY <1>8, <2>1, <2>2, <2>3, <2>4 DEF ExecutorStep
  <1>9. ASSUME NEW c \in Clients, OperatorStep(c) PROVE RowsStay
    <2>1. \/ row' = row
          \/ \E j : row' = [row EXCEPT ![j].status = "cancelled"]
          \/ \E j : row' = [row EXCEPT ![j].status = "pending", ![j].due = TRUE]
      BY <1>9 DEF OperatorStep, ReadJob, ReadFailed, Read, cancel, updateJobStatus, retryJob, bulkRetry
    <2>. QED BY <1>1, <2>1 DEF RowsStay, Exists, Row
  <1>10. ASSUME NEW j \in Jobs, enqueueDelayed(j) \/ BecomesDue(j) \/ VisibilityPasses(j)
         PROVE  RowsStay
    BY <1>1, <1>10 DEF enqueueDelayed, BecomesDue, VisibilityPasses, RowsStay, Exists, Row
  <1>11. ASSUME NEW i \in Instances, CrashProcess(i) PROVE RowsStay
    BY <1>4, <1>11 DEF CrashProcess
  <1>12. CASE UNCHANGED jobVars
    BY <1>4, <1>12 DEF jobVars
  <1>. QED BY <1>7, <1>8, <1>9, <1>10, <1>11, <1>12 DEF JobNext

LEMMA RequestsStayKnown ==
    ASSUME ClientsTyped, Shape, RequestsKnown, [JobNext]_jobVars
    PROVE  RequestsKnown'
  <1>1. RowsStay
    BY StepsKeepRows
  <1>2. ASSUME NEW c \in Clients, request'[c] = request[c] \/ request'[c] = NoRequest
        PROVE  Known(request[c])'
    BY <1>1, <1>2 DEF RequestsKnown, Known, RowsStay, Exists, NoRequest
  <1>3. ASSUME NEW i \in Instances, CrashProcess(i) PROVE RequestsKnown'
    BY <1>2, <1>3 DEF CrashProcess, RequestsKnown
  <1>4. ASSUME request' = request PROVE RequestsKnown'
    BY <1>2, <1>4 DEF RequestsKnown
  <1>5. ASSUME NEW c \in Clients, NEW r, request' = [request EXCEPT ![c] = r],
               r.kind \in {"cancel", "retry"} => r.job \in Jobs /\ Exists(r.job),
               r.kind = "bulk" => \A j \in r.jobs : j \in Jobs /\ Exists(j)
        PROVE  RequestsKnown'
    <2>1. \A d \in Clients : request'[d] = IF d = c THEN r ELSE request[d]
      BY <1>5 DEF ClientsTyped
    <2>2. Known(request[c])'
      BY <1>1, <1>5, <2>1 DEF Known, RowsStay, Exists
    <2>. QED BY <1>2, <2>1, <2>2 DEF RequestsKnown
  <1>6. ASSUME NEW c \in Clients, OperatorStep(c) PROVE RequestsKnown'
    <2>1. CASE ReadJob(c)
      <3>1. PICK i \in Instances, j \in Jobs, kind \in {"cancel", "retry"} :
              /\ row[j].status # "absent"
              /\ Read(c, [kind |-> kind, job |-> j, saw |-> row[j].status, at |-> i])
        BY <2>1 DEF ReadJob
      <3>2. PICK r : r = [kind |-> kind, job |-> j, saw |-> row[j].status, at |-> i]
        OBVIOUS
      <3>3. r.kind = kind /\ r.job = j /\ request' = [request EXCEPT ![c] = r]
        BY <3>1, <3>2 DEF Read
      <3>. QED BY <1>5, <3>1, <3>3 DEF Exists
    <2>2. CASE ReadFailed(c)
      <3>1. PICK failed : failed = {j \in Jobs : row[j].status = "failed"}
        OBVIOUS
      <3>2. PICK i \in Instances : Read(c, [kind |-> "bulk", jobs |-> failed, at |-> i])
        BY <2>2, <3>1 DEF ReadFailed
      <3>3. PICK r : r = [kind |-> "bulk", jobs |-> failed, at |-> i]
        OBVIOUS
      <3>4. r.kind = "bulk" /\ r.jobs = failed /\ request' = [request EXCEPT ![c] = r]
        BY <3>2, <3>3 DEF Read
      <3>. QED BY <1>5, <3>1, <3>4 DEF Exists
    <2>3. CASE cancel(c) \/ retryJob(c)
      BY <1>2, <2>3 DEF cancel, retryJob, Answered, RequestsKnown, ClientsTyped
    <2>4. CASE bulkRetry(c)
      <3>1. PICK r : r = request[c]
        OBVIOUS
      <3>2. r.kind = "bulk" /\ r \in Request
        BY <2>4, <3>1 DEF bulkRetry, ClientsTyped
      <3>3. PICK i \in Instances : r = [kind |-> "bulk", jobs |-> r.jobs, at |-> i]
        BY <3>2 DEF Request, NoRequest
      <3>4. PICK j \in r.jobs :
              request' = [request EXCEPT ![c] =
                            IF r.jobs = {j} THEN NoRequest ELSE [r EXCEPT !.jobs = @ \ {j}]]
        BY <2>4, <3>1 DEF bulkRetry
      <3>5. PICK left : left = IF r.jobs = {j} THEN NoRequest ELSE [r EXCEPT !.jobs = @ \ {j}]
        OBVIOUS
      <3>6. left = NoRequest \/ (left.kind = "bulk" /\ left.jobs \subseteq r.jobs)
        BY <3>3, <3>5
      <3>7. \A k \in r.jobs : k \in Jobs /\ Exists(k)
        BY <3>1, <3>2 DEF RequestsKnown, Known
      <3>. QED BY <1>5, <3>4, <3>5, <3>6, <3>7 DEF NoRequest
    <2>. QED BY <1>6, <2>1, <2>2, <2>3, <2>4 DEF OperatorStep
  <1>7. ASSUME NEW i \in Instances, StartProcess(i) \/ ExecutorStep(i) PROVE RequestsKnown'
    BY <1>4, <1>7 DEF StartProcess, ExecutorStep, processDueJobs, HandlerReturns, HandlerThrows,
                      RecordSuccess, TimeOut, LockAndRun, LockRefused
  <1>8. ASSUME NEW j \in Jobs, enqueueDelayed(j) \/ BecomesDue(j) \/ VisibilityPasses(j)
        PROVE  RequestsKnown'
    BY <1>4, <1>8 DEF enqueueDelayed, BecomesDue, VisibilityPasses
  <1>9. CASE UNCHANGED jobVars
    BY <1>4, <1>9 DEF jobVars
  <1>. QED BY <1>3, <1>6, <1>7, <1>8, <1>9 DEF JobNext

-----------------------------------------------------------------------------
LEMMA DeliversInitially == JobInit => RequestsKnown /\ Delivery!DeliveryInit
  <1> SUFFICES ASSUME JobInit
               PROVE  RequestsKnown /\ Delivery!DeliveryInit
    OBVIOUS
  <1>1. \A k \in Jobs : ~Runs(k) /\ k \notin finished /\ row[k].status = "absent"
    BY DEF JobInit, Runs, Executing
  <1>2. \A k \in Jobs : Phase(k) = "absent"
    BY <1>1, PhaseIs DEF PhaseOf
  <1>. QED BY <1>2 DEF JobInit, RequestsKnown, Known, NoRequest, Delivery!DeliveryInit

LEMMA StepsDeliver ==
    ASSUME QueueInv, RequestsKnown, OneProcess, [JobNext]_jobVars
    PROVE  DeliveryStep
  <1>1. Shape
    BY DEF QueueInv
  <1>2. ASSUME NEW i \in Instances, ExecutorStep(i)
        PROVE  DeliveryStep
    <2>1. CASE HandlerThrows(i)
      <3>1. Handles(i, current[i])
        BY <1>1, <2>1, CurrentHandles DEF HandlerThrows
      <3>2. PICK j : j = current[i]
        OBVIOUS
      <3>3. PICK written \in BOOLEAN : handleJobFailure(i, j, written)
        BY <2>1, <3>2 DEF HandlerThrows
      <3>. QED BY <2>1, <3>1, <3>2, <3>3, FailureMoves DEF HandlerThrows
    <2>2. ASSUME NEW j \in Jobs, TimeOut(i, j) \/ LockRefused(i, j)
          PROVE  DeliveryStep
      <3>1. j \in DOMAIN batch[i] /\ pc[i] = "batch" /\ finished' = finished
        BY <2>2 DEF TimeOut, LockRefused
      <3>2. PICK written \in BOOLEAN : handleJobFailure(i, j, written)
        BY <2>2 DEF TimeOut, LockRefused
      <3>. QED BY <3>1, <3>2, BatchHandles, FailureMoves
    <2>. QED BY <1>2, <2>1, <2>2, PollMoves, ReturnMoves, SuccessMoves, LockMoves DEF ExecutorStep
  <1>3. CASE UNCHANGED jobVars
    <2>1. UNCHANGED <<row, batch, finished>> /\ \A k \in Jobs : Runs(k)' <=> Runs(k)
      BY <1>3 DEF jobVars, Runs, Executing
    <2>. QED BY <2>1, NothingMoves
  <1>. QED BY <1>2, <1>3, StartMoves, CrashMoves, OperatorMoves, EnqueueMoves, TimeMoves DEF JobNext

(* With one process the jobs table, its poll, its lock and its requests       *)
(* deliver each job as the code that enqueues it is promised: at least once   *)
(* unless it is dropped, and not again once its success was recorded          *)
(* (job-executor.service.ts, job-queue.service.ts).                          *)
THEOREM QueueDelivers ==
    ASSUME OneProcess
    PROVE  JobSpec => ImplementsDelivery
  <1>1. /\ QueueInv /\ ClientsTyped /\ RequestsKnown /\ [JobNext]_jobVars
             => (QueueInv /\ ClientsTyped /\ RequestsKnown)'
    BY QueueStep, RequestsStayTyped, RequestsStayKnown DEF QueueInv
  <1>2. QueueInv /\ RequestsKnown /\ [JobNext]_jobVars
             => [Delivery!DeliveryNext]_([j \in Jobs |-> Phase(j)])
    BY StepsDeliver DEF DeliveryStep
  <1>. QED BY <1>1, <1>2, InitQueue, DeliversInitially, PTL
           DEF JobSpec, ImplementsDelivery, Delivery!DeliverySpec
=============================================================================
