----------------------------- MODULE Connecting -----------------------------
(***************************************************************************)
(* One profile's connection: the connects that are on their way, the one   *)
(* whose answer counts, the server-side hold behind Read-only, and the     *)
(* files opened to be run once the connect lands (workspace/profiles.rs,   *)
(* workspace/modes.rs, workspace/files.rs).                                *)
(*                                                                         *)
(* Every action is one turn of the application's own thread, except the    *)
(* two that land an answer of a blocking call, which may come at any time  *)
(* and in any order: nothing orders the calls against each other.          *)
(***************************************************************************)
EXTENDS Naturals, Sequences

CONSTANTS
  MaxAsks,     \* bound: how often the user opens, edits, leaves, disconnects
  MaxFlips,    \* bound: how often the mode is set
  MaxFiles,    \* bound: how many files are opened in one gesture
  SaveFails    \* whether the text in front may fail to be saved

ASSUME BoundsAssumption == /\ MaxAsks \in Nat
                           /\ MaxFlips \in Nat
                           /\ MaxFiles \in Nat \ {0}
ASSUME SaveAssumption == SaveFails \in BOOLEAN

VARIABLES
  state,       \* ProfileState of the profile
  mode,        \* its mode; Read-write and Full are one here
  generation,  \* the stamp an answer has to bear
  connects,    \* connects on their way: the stamp and the mode each set out under
  held,        \* whether the session installed is held to reads
  holds,       \* calls of set_read_only on that session that have not answered
  doubt,       \* two of those were out at once, or one of them failed
  front,       \* the profile is the one in front
  waiting,     \* runs_on_connect: the tabs whose statement waits
  tabs,        \* how many tabs files have opened
  asks, flips  \* counters for the bounds

vars == << state, mode, generation, connects, held, holds, doubt,
           front, waiting, tabs, asks, flips >>

Modes  == {"read_only", "full"}
States == {"idle", "connecting", "connected", "failed"}

\* The mode asks the server for a hold.
Holds(m) == m = "read_only"

Init ==
  /\ state = "idle"
  /\ mode \in Modes
  /\ generation = 0
  /\ connects = {}
  /\ held = FALSE
  /\ holds = {}
  /\ doubt = FALSE
  /\ front = FALSE
  /\ waiting = <<>>
  /\ tabs = 0
  /\ asks = 0
  /\ flips = 0

Asked == asks < MaxAsks /\ asks' = asks + 1

(***************************************************************************)
(* Connecting.                                                             *)
(***************************************************************************)

\* A connect sets out under the mode of the moment. The session it replaces
\* is let go of, and with it whatever is still asked of it.
BeginConnect ==
  /\ generation' = generation + 1
  /\ state' = "connecting"
  /\ connects' = connects \cup {[gen |-> generation + 1, under |-> mode]}
  /\ holds' = {}
  /\ doubt' = FALSE
  /\ UNCHANGED << mode, held, flips >>

\* A profile brought to the front connects unless it is connected, or about to be.
ConnectActive ==
  IF state \in {"idle", "failed"}
  THEN BeginConnect
  ELSE UNCHANGED << generation, state, connects, holds, doubt, mode, held, flips >>

Activate ==
  /\ Asked
  /\ front' = TRUE
  /\ ConnectActive
  /\ UNCHANGED << waiting, tabs >>

\* Another profile, or the home screen, comes to the front.
Leave ==
  /\ Asked
  /\ front
  /\ front' = FALSE
  /\ UNCHANGED << state, mode, generation, connects, held, holds, doubt,
                  waiting, tabs, flips >>

\* The profile is saved with another server to reach, or refreshed while it
\* has no session to refresh over. An idle one waits to be picked.
Reconnect ==
  /\ Asked
  /\ state # "idle"
  /\ BeginConnect
  /\ UNCHANGED << front, waiting, tabs >>

\* Mutant of Disconnect: what waits goes on waiting for the next connect.
DisconnectKeeping ==
  /\ Asked
  /\ front
  /\ generation' = generation + 1
  /\ state' = "idle"
  /\ front' = FALSE
  /\ UNCHANGED << mode, connects, held, holds, doubt, waiting, tabs, flips >>

\* Mutant of Disconnect: the stamps begin again.
DisconnectAnew ==
  /\ Asked
  /\ front
  /\ waiting' = <<>>
  /\ generation' = 0
  /\ state' = "idle"
  /\ front' = FALSE
  /\ UNCHANGED << mode, connects, held, holds, doubt, tabs, flips >>

\* Nothing left waiting outlives the connect it waited for, and no connect
\* still on its way is this profile's any more.
Disconnect ==
  /\ Asked
  /\ front
  /\ waiting' = <<>>
  /\ generation' = generation + 1
  /\ state' = "idle"
  /\ front' = FALSE
  /\ UNCHANGED << mode, connects, held, holds, doubt, tabs, flips >>

(***************************************************************************)
(* Files opened to be run.                                                 *)
(***************************************************************************)

\* What waits is taken whatever comes of it: run, or left in its tab.
Drained == <<>>

\* How many of n files get a tab: one that cannot be made, because the text in
\* front of it cannot be saved, ends the gesture where it is.
Made(n) == IF SaveFails THEN 0..n ELSE {n}

\* Each file a tab of its own, its statement waiting; all that waits runs at
\* once where every tab was made and the profile is connected already.
OpenFiles ==
  /\ Asked
  /\ front' = TRUE
  /\ ConnectActive
  /\ \E n \in 1..MaxFiles : \E k \in Made(n) :
       /\ tabs' = tabs + k
       /\ waiting' = IF k = n /\ state' = "connected"
                     THEN Drained
                     ELSE waiting \o [i \in 1..k |-> tabs + i]

(***************************************************************************)
(* Answers.                                                                *)
(***************************************************************************)

\* Mutant of Landed: the mode is not looked at again.
LandedAsItSetOut(c, ok) ==
  \/ /\ c.gen # generation
     /\ connects' = connects \ {c}
     /\ UNCHANGED << state, mode, generation, held, holds, doubt,
                     front, waiting, tabs, flips >>
  \/ /\ c.gen = generation
     /\ connects' = connects \ {c}
     /\ state' = IF ok THEN "connected" ELSE "failed"
     /\ held' = (ok /\ Holds(c.under))
     /\ waiting' = Drained
     /\ UNCHANGED << mode, generation, holds, doubt, front, tabs, flips >>

\* Mutant of Landed: a connect held otherwise is dropped, with none behind it.
LandedOrDropped(c, ok) ==
  LET otherwise == ok /\ Holds(mode) # Holds(c.under)
  IN
  \/ /\ c.gen # generation \/ otherwise
     /\ connects' = connects \ {c}
     /\ UNCHANGED << state, mode, generation, held, holds, doubt,
                     front, waiting, tabs, flips >>
  \/ /\ c.gen = generation
     /\ ~otherwise
     /\ connects' = connects \ {c}
     /\ state' = IF ok THEN "connected" ELSE "failed"
     /\ held' = (ok /\ Holds(c.under))
     /\ waiting' = Drained
     /\ UNCHANGED << mode, generation, holds, doubt, front, tabs, flips >>

\* The answer to connect c. One that is not the profile's any more says
\* nothing. One held the other way from the mode is thrown away for another.
Landed(c, ok) ==
  LET otherwise == ok /\ Holds(mode) # Holds(c.under)
  IN
  \/ /\ c.gen # generation
     /\ connects' = connects \ {c}
     /\ UNCHANGED << state, mode, generation, held, holds, doubt,
                     front, waiting, tabs, flips >>
  \/ /\ c.gen = generation
     /\ otherwise
     /\ generation' = generation + 1
     /\ connects' = (connects \ {c}) \cup {[gen |-> generation + 1, under |-> mode]}
     /\ UNCHANGED << state, mode, held, holds, doubt, front, waiting, tabs, flips >>
  \/ /\ c.gen = generation
     /\ ~otherwise
     /\ connects' = connects \ {c}
     /\ state' = IF ok THEN "connected" ELSE "failed"
     /\ held' = (ok /\ Holds(c.under))
     /\ waiting' = Drained
     /\ UNCHANGED << mode, generation, holds, doubt, front, tabs, flips >>

ConnectLands ==
  /\ \E c \in connects, ok \in BOOLEAN : Landed(c, ok)
  /\ UNCHANGED asks

\* The session answers a set_read_only: done, or refused and left as it was.
HoldLands ==
  /\ \E h \in holds, ok \in BOOLEAN :
       /\ holds' = holds \ {h}
       /\ held' = IF ok THEN h.on ELSE held
       /\ doubt' = (doubt \/ ~ok)
  /\ UNCHANGED << state, mode, generation, connects, front, waiting, tabs, asks, flips >>

(***************************************************************************)
(* The mode.                                                               *)
(***************************************************************************)

\* A session installed is told of the new mode; a connect on its way is not.
SetMode ==
  /\ flips < MaxFlips
  /\ flips' = flips + 1
  /\ front
  /\ \E m \in Modes :
       /\ mode' = m
       /\ IF state = "connected"
          THEN /\ holds' = holds \cup {[on |-> Holds(m), nth |-> flips]}
               /\ doubt' = (doubt \/ holds # {})
          ELSE UNCHANGED << holds, doubt >>
  /\ UNCHANGED << state, generation, connects, held, front, waiting, tabs, asks >>

Next ==
  \/ Activate
  \/ Leave
  \/ Reconnect
  \/ Disconnect
  \/ OpenFiles
  \/ ConnectLands
  \/ HoldLands
  \/ SetMode

Spec == Init /\ [][Next]_vars

\* Every connect answers: each engine gives up on one after a time of its own.
FairSpec == Spec /\ WF_vars(ConnectLands)

(***************************************************************************)
(* Properties.                                                             *)
(***************************************************************************)

\* The connects out bear stamps the profile has given, and the tabs waiting
\* are tabs that files have opened.
TypeOK ==
  /\ state \in States
  /\ mode \in Modes
  /\ generation \in Nat
  /\ connects \subseteq [gen : 1..generation, under : Modes]
  /\ held \in BOOLEAN
  /\ holds \subseteq [on : BOOLEAN, nth : 0..MaxFlips]
  /\ doubt \in BOOLEAN
  /\ front \in BOOLEAN
  /\ tabs \in Nat
  /\ waiting \in Seq(1..tabs)
  /\ asks \in 0..MaxAsks
  /\ flips \in 0..MaxFlips

\* Once nothing more is asked of the session, it is held to reads exactly when
\* the mode on screen is Read-only, whatever mode the connect set out under and
\* whenever the mode was changed: the gate runs a statement it cannot read on
\* the strength of that. Two changes out at once, or a refused one, are the
\* exceptions set_mode names.
HoldsAsMode ==
  state = "connected" /\ holds = {} /\ ~doubt => held = Holds(mode)

\* A file's statement waits only for the connect that is on its way: once that
\* one has landed, or the user has left it, no later connect runs the
\* statement over what its tab holds by then (run_waiting_files).
WaitsForConnect == waiting # <<>> => state = "connecting"

\* A profile that is connecting comes out of it: connected, failed or left. A
\* connect thrown away for the mode it set out under has another behind it, so
\* the user has to leave the mode alone in the end, which MaxFlips sees to.
ConnectSettles == state = "connecting" ~> state # "connecting"
=============================================================================
