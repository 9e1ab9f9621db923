------------------------------ MODULE MCDaemon ------------------------------
(***************************************************************************)
(* Two daemons: one that runs the filters, with a command in the list of   *)
(* filters and a name in the directory, and one that reads products from   *)
(* noaaport and from a master, processes and serves them.                  *)
(***************************************************************************)
EXTENDS Daemon

MCSysFilters == <<"s">>

MCInit == /\ Init
          /\ enabled \in {{"filter"}, Others}

MCSpec == MCInit /\ [][Next]_vars /\ Fairness
=============================================================================
