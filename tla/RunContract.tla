----------------------------- MODULE RunContract -----------------------------
(***************************************************************************)
(* What the Experiment Manager promises of the rows of experiment_runs,    *)
(* however many requests it serves at once: how one row may move, and that *)
(* a run becomes STARTING only while no other holds the radio stack.  The  *)
(* promise covers every row but the raced ones: rows that a request wrote  *)
(* on a read which another request's write had overtaken in between.       *)
(***************************************************************************)
CONSTANT Runs

VARIABLES row, raced

States == {"NONE", "ABORTED", "STARTING", "RUNNING", "STOPPING", "STOPPED",
           "START_FAILED", "STOP_FAILED", "LOST"}

Holding == {r \in Runs : row[r] \in {"STARTING", "RUNNING"}}

Moves == {<<"NONE", "STARTING">>, <<"NONE", "ABORTED">>,
          <<"STARTING", "RUNNING">>, <<"STARTING", "START_FAILED">>,
          <<"RUNNING", "STOPPING">>, <<"START_FAILED", "STOPPING">>,
          <<"STOPPING", "STOPPED">>, <<"STOPPING", "STOP_FAILED">>,
          <<"STARTING", "LOST">>, <<"RUNNING", "LOST">>, <<"STOPPING", "LOST">>}

Init == row = [r \in Runs |-> "NONE"] /\ raced = {}

\* The rows that move; a reconciliation may lose several in one transaction.
Moving == {r \in Runs : row'[r] # row[r]}

Next ==
    /\ raced \subseteq raced' /\ raced' \subseteq Runs
    /\ row' \in [Runs -> States]
    /\ \A r \in Moving \ raced' :
           /\ <<row[r], row'[r]>> \in Moves
           /\ row'[r] = "STARTING" => Holding = {} /\ Moving = {r}

Spec == Init /\ [][Next]_<<row, raced>>
==============================================================================
