---------------------------- MODULE ScheduleRow ----------------------------
(***************************************************************************)
(* One row of the schedule table and what ScheduleAggregate does to it.    *)
(*                                                                         *)
(* Every operator maps a row to the row the aggregate's method leaves in   *)
(* memory.  An entry is identified with its match: the unique index        *)
(* UQ_schedule_entry_match makes the correspondence one to one.  Names,    *)
(* times and the free-form details kept next to a code are left out.       *)
(***************************************************************************)
CONSTANTS
    Matches,    \* the matches a schedule entry can point at
    NoMatch     \* currentEntryId = null

ASSUME NoMatchAssumption == NoMatch \notin Matches

Statuses == {"absent", "inactive", "running", "completed"}

StaleCodes == {"NO_ENTRANTS", "NOT_ENOUGH_ENTRANTS", "UNRESOLVED_ENTRANTS",
               "UNFILLABLE_ENTRANT_SLOTS", "NO_ROUNDS", "MATCH_ALREADY_ACTIVE",
               "ENTRANTS_ALREADY_ACTIVE"}

InterruptionCodes == {"TOURNAMENT_CLOSED", "ROLLBACK_CONFIRMED",
                      "MATCH_RESULT_REOPENED"}

\* The columns a save can write.
Columns == {"status", "current", "stale", "interruption", "archived"}

Row == [status       : Statuses,
        current      : Matches \union {NoMatch},
        stale        : StaleCodes \union {"none"},
        interruption : InterruptionCodes \union {"none"},
        archived     : BOOLEAN]

\* The row that is not in the table.
NoRow == [status |-> "absent", current |-> NoMatch, stale |-> "none",
          interruption |-> "none", archived |-> FALSE]

Created == [NoRow EXCEPT !.status = "inactive"]

-----------------------------------------------------------------------------
(* The aggregate's guard and transitions.                                  *)

Editable(row) == row.status = "inactive" /\ ~row.archived

Started(row, e) ==
    [row EXCEPT !.status = "running", !.current = e,
                !.stale = "none", !.interruption = "none"]

\* Mutant: the wait is kept.
StoppedStillWaiting(row, code) ==
    [row EXCEPT !.status = "inactive", !.interruption = code]

\* stop(code?): without a code the previous interruption is cleared.
\* currentEntryId stays where the run was.
Stopped(row, code) ==
    [row EXCEPT !.status = "inactive", !.stale = "none", !.interruption = code]

InterruptedRun(row, e) ==
    [row EXCEPT !.status = "inactive", !.current = e, !.archived = FALSE,
                !.stale = "none", !.interruption = "MATCH_RESULT_REOPENED"]

WaitingAt(row, e, code) == [row EXCEPT !.current = e, !.stale = code]

Activated(row, e) == [row EXCEPT !.current = e, !.stale = "none"]

Completed(row) ==
    [row EXCEPT !.status = "completed", !.current = NoMatch, !.stale = "none"]

Archived(row) == [row EXCEPT !.archived = TRUE]

Unarchived(row) == [row EXCEPT !.archived = FALSE]

-----------------------------------------------------------------------------
(* What every row of the table should satisfy, whoever wrote it.           *)

\* A finished run points nowhere and waits for nothing.
FinishedIsClean(row) ==
    row.status = "completed" => row.current = NoMatch /\ row.stale = "none"

\* Only a run waits.
OnlyRunsWait(row) == row.stale # "none" => row.status = "running"

\* Only a halted schedule carries an interruption.
OnlyHaltedAreInterrupted(row) ==
    row.interruption # "none" => row.status = "inactive"

\* "Only completed schedules can be archived."
OnlyCompletedAreArchived(row) == row.archived => row.status = "completed"

RowOK(row) ==
    /\ FinishedIsClean(row)
    /\ OnlyRunsWait(row)
    /\ OnlyHaltedAreInterrupted(row)
    /\ OnlyCompletedAreArchived(row)
=============================================================================
