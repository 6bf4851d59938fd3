-------------------------- MODULE MCDrataDelivery --------------------------
(* Two fresh records, one stale one, and one id that is both.               *)
EXTENDS DrataDelivery

CONSTANTS r1, r2, s1, s2

MCId == {r1, r2, s1, s2}

MCWorkloads ==
  [records : {{}, {r1}, {r1, r2}, {r1, s1}}, gone : {{}, {s1}, {s1, s2}}]
=============================================================================
