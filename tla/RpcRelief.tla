------------------------------ MODULE RpcRelief ------------------------------
(***************************************************************************)
(* The load-shed ("relief") bookkeeping of the ingestion worker:           *)
(* RpcReliefState and the two backoff schedules of                         *)
(* crates/ingestion/src/driver.rs.  The four atomics are one record here:  *)
(* only the block loop writes them, never two writers at once.             *)
(***************************************************************************)
EXTENDS Integers

RELIEF_RECOVERY_COMMIT_BLOCKS == 4
RELIEF_STALL_BACKOFF_BASE == 30
RELIEF_STALL_BACKOFF_MAX == 300
RELIEF_STALL_BACKOFF_MAX_DOUBLINGS == 5

MinOf(a, b) == IF a <= b THEN a ELSE b
MaxOf(a, b) == IF a >= b THEN a ELSE b

\* stalled_height starts at 0, a height no window ever contains.
ReliefState == [active : BOOLEAN, committed_streak : Nat,
                stalled_height : Nat, stall_count : Nat]

ReliefDefault == [active |-> FALSE, committed_streak |-> 0,
                  stalled_height |-> 0, stall_count |-> 0]

RegisterStall(r, height) ==
  [active |-> TRUE,
   committed_streak |-> 0,
   stalled_height |-> height,
   stall_count |-> IF r.stalled_height = height THEN r.stall_count + 1 ELSE 1]

\* Mutant: load shedding ends one block early.
MutReleaseEarly(r, blocks) ==
  LET streak == r.committed_streak + blocks IN
  IF ~r.active \/ blocks = 0
    THEN [r EXCEPT !.stall_count = 0]
    ELSE IF streak < RELIEF_RECOVERY_COMMIT_BLOCKS - 1
      THEN [r EXCEPT !.stall_count = 0, !.committed_streak = streak]
      ELSE [r EXCEPT !.stall_count = 0, !.committed_streak = 0, !.active = FALSE]

RegisterProgress(r, blocks) ==
  LET streak == r.committed_streak + blocks IN
  IF ~r.active \/ blocks = 0
    THEN [r EXCEPT !.stall_count = 0]
    ELSE IF streak < RELIEF_RECOVERY_COMMIT_BLOCKS
      THEN [r EXCEPT !.stall_count = 0, !.committed_streak = streak]
      ELSE [r EXCEPT !.stall_count = 0, !.committed_streak = 0, !.active = FALSE]

\* RpcReliefState::clear: the height of the last stall is deliberately kept.
Clear(r) == [r EXCEPT !.stall_count = 0, !.committed_streak = 0, !.active = FALSE]

\* relief_stall_backoff, in seconds.
ReliefStallBackoff(stalls) ==
  IF stalls = 0
    THEN 0
    ELSE MinOf(RELIEF_STALL_BACKOFF_BASE
                 * 2 ^ MinOf(stalls - 1, RELIEF_STALL_BACKOFF_MAX_DOUBLINGS),
               RELIEF_STALL_BACKOFF_MAX)

\* Mutant: the stall backoff is forgotten when the pass ends in an error.
MutGenericOnly(failures, stalls, databaseFailure) == MinOf(failures, 6) * 5

\* failed_pass_backoff, in seconds.
FailedPassBackoff(failures, stalls, databaseFailure) ==
  LET generic == MinOf(failures, 6) * 5 IN
  IF databaseFailure THEN generic ELSE MaxOf(generic, ReliefStallBackoff(stalls))
==============================================================================
