----------------------------- MODULE MCInterface -----------------------------
(* Small instances of the log, one for each of its readers.                *)
EXTENDS Interface

Tasks == {1, 2, 3}
Traced == {<<"step", "error">>}

Step(branch, agent, emits) == [branch |-> branch, agent |-> agent, emits |-> emits]

OneReaderEach ==
  {[reader |-> "inspect", tasks |-> {1}, steps |-> 2, faults |-> 2,
    kinds |-> {Step(FALSE, FALSE, FALSE), Step(FALSE, TRUE, TRUE), Step(TRUE, TRUE, FALSE)},
    ends |-> {"Completed", "Failed", "error"}],
   [reader |-> "tui", tasks |-> {1, 2, 3}, steps |-> 0, faults |-> 0, kinds |-> {},
    ends |-> {"error"}],
   [reader |-> "acp", tasks |-> {1}, steps |-> 1, faults |-> 1,
    kinds |-> {Step(FALSE, TRUE, TRUE), Step(TRUE, FALSE, FALSE)}, ends |-> {"Completed", "WaitingForInput"}],
   [reader |-> "acp", tasks |-> {1}, steps |-> 0, faults |-> 2, kinds |-> {}, ends |-> {"Completed"}],
   [reader |-> "embedded", tasks |-> {1}, steps |-> 1, faults |-> 1,
    kinds |-> {Step(FALSE, TRUE, TRUE)}, ends |-> {"Completed", "Failed"}]}
=============================================================================
