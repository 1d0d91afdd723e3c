----------------------------- MODULE RemoteCall -----------------------------
(***************************************************************************)
(* What a call from Rust to Go promises to both users: the Go function     *)
(* runs at most once for a call and only for a call that was made, and the *)
(* caller is given the answer to its own call, at most once.               *)
(***************************************************************************)
LOCAL INSTANCE Naturals

CONSTANTS Calls, NoCall

VARIABLES called,   \* the calls made so far
          runs,     \* how often the user's Go function ran for each call
          answered  \* whose answer each caller was given

rpcVars == <<called, runs, answered>>

RpcInit ==
  /\ called = {}
  /\ runs = [c \in Calls |-> 0]
  /\ answered = [c \in Calls |-> NoCall]

Call(c) ==
  /\ c \notin called
  /\ called' = called \cup {c}
  /\ UNCHANGED <<runs, answered>>

Run(c) ==
  /\ c \in called /\ runs[c] = 0
  /\ runs' = [runs EXCEPT ![c] = 1]
  /\ UNCHANGED <<called, answered>>

Return(c) ==
  /\ runs[c] = 1 /\ answered[c] = NoCall
  /\ answered' = [answered EXCEPT ![c] = c]
  /\ UNCHANGED <<called, runs>>

RpcNext == \E c \in Calls : Call(c) \/ Run(c) \/ Return(c)

RpcSpec == RpcInit /\ [][RpcNext]_rpcVars
=============================================================================
