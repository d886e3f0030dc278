-------------------------- MODULE MCCounterSession --------------------------
(* CounterSession for model checking.                                        *)
EXTENDS CounterSession

(* The example's calls; a second counter, on the same topic or another; and  *)
(* a counter that goes below zero while it is read. *)
MCScripts ==
    {<<"new_counter", "increment", "decrement">>,
     <<"new_counter", "decrement", "new_counter">>,
     <<"new_counter", "get", "decrement">>}

CONSTANTS t1, t2

(* The second counter has the topic of the first, or another: topics are     *)
(* interchangeable. *)
MCDraws == {<<t1, t1>>, <<t1, t2>>}
=============================================================================
