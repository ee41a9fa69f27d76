---------------------------- MODULE PluginPromise ----------------------------
(***************************************************************************)
(* What a connection through an engine plugin promises of the requests put *)
(* to it (src/db/external.rs, src/db/external/host.rs): the plugin is put  *)
(* one request at a time, each at most once; each is ended once, by an     *)
(* answer or by the loss of the session; and nothing is put to a plugin    *)
(* whose session is lost.                                                  *)
(***************************************************************************)
CONSTANT Requests

VARIABLES stage,     \* how far each request is
          lost       \* the session is gone: the process, or what it held

vars == <<stage, lost>>

Stages == {"unsent", "out", "answered", "reset", "dropped"}

Init == /\ stage = [r \in Requests |-> "unsent"]
        /\ lost = FALSE

Idle == \A r \in Requests : stage[r] # "out"

Put(r) ==
  /\ stage[r] = "unsent" /\ Idle /\ ~lost
  /\ stage' = [stage EXCEPT ![r] = "out"]
  /\ UNCHANGED lost

\* Returned to its caller without having been put.  A session that was to be
\* held and was not is given up.
Drop(r) ==
  /\ stage[r] = "unsent"
  /\ stage' = [stage EXCEPT ![r] = "dropped"]
  /\ lost' \in {lost, TRUE}

\* An answer may have been on its way when the session was lost, and may be
\* what says that it is.
Answer(r) ==
  /\ stage[r] = "out"
  /\ stage' = [stage EXCEPT ![r] = "answered"]
  /\ lost' \in {lost, TRUE}

\* The session is lost: what is out may be told so now or later, and nothing
\* is put again.
Lose ==
  /\ lost' = TRUE
  /\ \E told \in SUBSET {r \in Requests : stage[r] = "out"} :
        stage' = [r \in Requests |-> IF r \in told THEN "reset" ELSE stage[r]]

Next == Lose \/ \E r \in Requests : Put(r) \/ Drop(r) \/ Answer(r)

Spec == Init /\ [][Next]_vars
=============================================================================
