------------------------------ MODULE OneShot ------------------------------
(***************************************************************************)
(* What one asynchronous call promises about the two things that cross     *)
(* over: the request the caller lends and the response it is given.  The   *)
(* caller gets both in one step, or neither; each of them has one end, and *)
(* the request never ends before the other side is done with it, whether   *)
(* or not the caller still waits.                                          *)
(***************************************************************************)
VARIABLES caller,   \* "idle", "waiting", "answered" or "gone"
          request,  \* "held", "returned" or "dropped"
          response  \* "none", "ready", "given" or "dropped"

shotVars == <<caller, request, response>>

ShotInit == caller = "idle" /\ request = "held" /\ response = "none"

Call ==
  /\ caller = "idle"
  /\ caller' = "waiting" /\ UNCHANGED <<request, response>>

\* A response nobody waits for ends here, and the request with it.
Respond ==
  /\ caller \in {"waiting", "gone"} /\ request = "held" /\ response = "none"
  /\ \/ caller = "waiting" /\ response' = "ready" /\ UNCHANGED request
     \/ caller = "gone" /\ response' = "dropped" /\ request' = "dropped"
  /\ UNCHANGED caller

Receive ==
  /\ caller = "waiting" /\ response = "ready"
  /\ caller' = "answered" /\ response' = "given" /\ request' = "returned"

\* A caller that leaves takes along what the other side does not hold.
GiveUp ==
  /\ caller \in {"idle", "waiting"}
  /\ caller' = "gone"
  /\ \/ caller = "idle" /\ request' = "dropped" /\ UNCHANGED response
     \/ caller = "waiting" /\ response = "none" /\ UNCHANGED <<request, response>>
     \/ response = "ready" /\ request' = "dropped" /\ response' = "dropped"

ShotNext == Call \/ Respond \/ Receive \/ GiveUp

ShotSpec == ShotInit /\ [][ShotNext]_shotVars
=============================================================================
