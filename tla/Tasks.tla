------------------------------- MODULE Tasks --------------------------------
(***************************************************************************)
(* The ids of tasks (include/lotto/base/task_id.h), shared by all modules. *)
(***************************************************************************)

CONSTANTS
    Task,       \* the task ids the threads of a run can get
    Main,       \* the id of the initial thread
    NoTask,     \* NO_TASK, the id no task has
    AnyTask     \* ANY_TASK, the id that stands for whoever comes first

ASSUME MainAssumption == Main \in Task
ASSUME MarkAssumption == NoTask \notin Task /\ AnyTask \notin Task /\ NoTask # AnyTask
=============================================================================
