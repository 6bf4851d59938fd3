---------------------------- MODULE MCOciCall ----------------------------
(* Small listings: two pages with the first, the last or no page empty.     *)
EXTENDS OciCall

CONSTANTS a, b

MCOperation ==
  [kind : {"paginate"}, pages : {<<{a}, {b}>>, <<{}, {b}>>, <<{a, b}, {}>>, <<{}>>}]
    \cup [kind : {"call_once", "public_ip"}, pages : {<<{a}>>, <<{}>>}]

\* Every single operation and every two in a row.
MCPlans == {<<>>} \cup {<<o>> : o \in MCOperation} \cup {<<o, p>> : o, p \in MCOperation}

MCDeadlines == {0, 2}
=============================================================================
