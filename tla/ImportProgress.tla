--------------------------- MODULE ImportProgress ---------------------------
(***************************************************************************)
(* The pure part of the import-job progress: the job stages in their       *)
(* order, and the mapping of (stage, file, fraction) to a percentage       *)
(* (app/services/import_job_progress.py, app/domain/import_job.py).        *)
(*                                                                         *)
(* A fraction is a rational num / den with 0 <= num <= den; the code's     *)
(* float arithmetic followed by int() is modelled by exact integer         *)
(* division, which differs from it by at most the rounding of one float.   *)
(***************************************************************************)
EXTENDS Integers

Statuses == {"queued", "running", "completed", "failed", "cancelled"}
Terminal == {"completed", "failed", "cancelled"}
Cancellable == {"queued", "running"}
Retryable == {"failed", "cancelled"}

\* ALLOWED_STATUS_TRANSITIONS: the statuses a job may move to from s.
AllowedFrom(s) ==
  CASE s = "queued"  -> {"running", "cancelled"}
    [] s = "running" -> {"completed", "failed", "cancelled"}
    [] OTHER         -> {}

\* validate_status_transition does not raise.
StatusOk(current, target) == current = target \/ target \in AllowedFrom(current)

Stages == {"upload", "parse", "chunk", "embed", "index", "done"}

\* STAGE_ORDER.index(stage).
StageIndex(s) ==
  CASE s = "upload" -> 0 [] s = "parse" -> 1 [] s = "chunk" -> 2
    [] s = "embed"  -> 3 [] s = "index" -> 4 [] s = "done"  -> 5

\* validate_stage_transition does not raise.
StageOk(current, target) == StageIndex(target) >= StageIndex(current)

\* STAGE_PROGRESS_RANGES.
Low(s) ==
  CASE s = "upload" -> 0  [] s = "parse" -> 10 [] s = "chunk" -> 35
    [] s = "embed"  -> 55 [] s = "index" -> 80 [] s = "done"  -> 100
High(s) ==
  CASE s = "upload" -> 10 [] s = "parse" -> 35 [] s = "chunk" -> 55
    [] s = "embed"  -> 80 [] s = "index" -> 99 [] s = "done"  -> 100

Larger(a, b) == IF a >= b THEN a ELSE b
Smaller(a, b) == IF a <= b THEN a ELSE b

\* max(0.0, min(1.0, num / den)) as a numerator over den.
Clamp(num, den) == Larger(0, Smaller(den, num))

\* progress_for_stage: file `index` (from 0) of `count`, fraction num / den.
ProgressForStage(stage, index, count, num, den) ==
  IF stage = "done"
    THEN 100
    ELSE Larger(0, Smaller(99,
           Low(stage) + ((High(stage) - Low(stage)) * (index * den + Clamp(num, den)))
                          \div (count * den)))
=============================================================================
