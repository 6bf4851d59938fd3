------------------------------ MODULE MCUpload ------------------------------
(* Two fresh records, one stale one, and one id that is both; lists of up to *)
(* five records of one or two bytes, chunks of three.                        *)
EXTENDS Upload

CONSTANTS r1, r2, s1, s2

MCId == {r1, r2, s1, s2}
MCOrder == <<r1, r2, s1, s2>>

MCWorkloads ==
  [records : {{}, {r1}, {r1, r2}, {r1, s1}}, gone : {{}, {s1}, {s1, s2}}]

MCLoads == [size : UNION {[1..n -> {1, 2}] : n \in 0..5}, limit : {2, 4, NoLimit}]
=============================================================================
