------------------------------ MODULE KeyPool ------------------------------
(***************************************************************************)
(* What a slab promises: Put stores a value under a key that is not in     *)
(* use, Take gives back what was stored under the key and frees the key.   *)
(* Which free key Put picks is left open.                                  *)
(***************************************************************************)
CONSTANTS Keys, Values, Nothing

VARIABLE held  \* what each key stands for, Nothing if it is free

PoolInit == held = [k \in Keys |-> Nothing]

Put(k, v) ==
  /\ held[k] = Nothing
  /\ held' = [held EXCEPT ![k] = v]

Take(k) ==
  /\ held[k] # Nothing
  /\ held' = [held EXCEPT ![k] = Nothing]

PoolNext == \E k \in Keys : Take(k) \/ \E v \in Values : Put(k, v)

PoolSpec == PoolInit /\ [][PoolNext]_held
=============================================================================
