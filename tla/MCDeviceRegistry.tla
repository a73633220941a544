--------------------------- MODULE MCDeviceRegistry ---------------------------
(***************************************************************************)
(* Small instance of the registry: two devices, the serial of one the      *)
(* beginning of the other's, and two users.  The first device keeps the    *)
(* points of time 2 only, the second keeps all.  JSON of no points has two *)
(* bytes.                                                                  *)
(***************************************************************************)
EXTENDS DeviceRegistry, TLC

CONSTANTS d1, d12

MCInside(d, e) == d = e \/ (d = d1 /\ e = d12)

MCCutoff(d) == IF d = d1 THEN 2 ELSE 1

MCJsonSize(T) == IF T = {} THEN 2 ELSE 50

Symmetry == Permutations(Users)
=============================================================================
