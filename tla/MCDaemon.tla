------------------------------ MODULE MCDaemon ------------------------------
(* Standard input and error output, and room for a pair and one file; a     *)
(* client that passes two of its descriptors, or one for the log.           *)
EXTENDS Daemon

MCFds == {0, 2, 3, 4, 5}

MCConfigs ==
  {[cmd |-> 3, status |-> 4, log |-> None], [cmd |-> None, status |-> 0, log |-> 5]}
=============================================================================
