-------------------------- MODULE ConnectingProofs --------------------------
(***************************************************************************)
(* That the session is held as the mode says, and that no file's statement *)
(* waits past its connect, for every number of connects, changes of mode   *)
(* and files.                                                              *)
(***************************************************************************)
EXTENDS Connecting, TLAPS

\* The steps that make a connect set out, without the counter of the bound.
LEMMA BeginConnectType ==
  ASSUME TypeOK, BeginConnect
  PROVE  /\ state' \in States
         /\ generation' \in Nat
         /\ connects' \subseteq [gen : 1..generation', under : Modes]
         /\ holds' \subseteq [on : BOOLEAN, nth : 0..MaxFlips]
         /\ doubt' \in BOOLEAN
         /\ mode' \in Modes /\ held' \in BOOLEAN /\ flips' \in 0..MaxFlips
<1> USE DEF TypeOK, BeginConnect
<1>1. [gen |-> generation + 1, under |-> mode] \in [gen : 1..generation', under : Modes]
  OBVIOUS
<1>2. connects \subseteq [gen : 1..generation', under : Modes]
  OBVIOUS
<1>3. connects' \subseteq [gen : 1..generation', under : Modes]
  BY <1>1, <1>2
<1>4. state' \in States
  BY DEF States
<1>5. holds' \subseteq [on : BOOLEAN, nth : 0..MaxFlips] /\ doubt' \in BOOLEAN
  OBVIOUS
<1>6. generation' \in Nat /\ mode' \in Modes /\ held' \in BOOLEAN /\ flips' \in 0..MaxFlips
  OBVIOUS
<1>7. QED
  BY <1>3, <1>4, <1>5, <1>6

LEMMA ConnectActiveType ==
  ASSUME TypeOK, ConnectActive
  PROVE  /\ state' \in States
         /\ generation' \in Nat
         /\ connects' \subseteq [gen : 1..generation', under : Modes]
         /\ holds' \subseteq [on : BOOLEAN, nth : 0..MaxFlips]
         /\ doubt' \in BOOLEAN
         /\ mode' \in Modes /\ held' \in BOOLEAN /\ flips' \in 0..MaxFlips
<1>1. CASE state \in {"idle", "failed"}
  BY <1>1, BeginConnectType DEF ConnectActive
<1>2. CASE state \notin {"idle", "failed"}
  BY <1>2 DEF ConnectActive, TypeOK
<1>3. QED
  BY <1>1, <1>2

\* The counter of the user's gestures stays in its bound.
LEMMA AskedType ==
  ASSUME asks \in 0..MaxAsks, Asked
  PROVE  asks' \in 0..MaxAsks
  BY BoundsAssumption DEF Asked

\* A landing leaves every variable it writes in its type.
LEMMA LandedType ==
  ASSUME TypeOK, NEW c \in connects, NEW ok \in BOOLEAN, Landed(c, ok), UNCHANGED asks
  PROVE  TypeOK'
<1> USE DEF TypeOK
<1>1. CASE c.gen # generation /\ connects' = connects \ {c}
           /\ UNCHANGED << state, mode, generation, held, holds, doubt,
                           front, waiting, tabs, flips >>
  BY <1>1
<1>2. CASE /\ generation' = generation + 1
           /\ connects' = (connects \ {c}) \cup {[gen |-> generation + 1, under |-> mode]}
           /\ UNCHANGED << state, mode, held, holds, doubt, front, waiting, tabs, flips >>
  <2>1. connects' \subseteq [gen : 1..generation', under : Modes]
    BY <1>2
  <2>2. QED
    BY <1>2, <2>1
<1>3. CASE /\ connects' = connects \ {c}
           /\ state' = IF ok THEN "connected" ELSE "failed"
           /\ held' = (ok /\ Holds(c.under))
           /\ waiting' = Drained
           /\ UNCHANGED << mode, generation, holds, doubt, front, tabs, flips >>
  <2>1. waiting' \in Seq(1..tabs')
    BY <1>3 DEF Drained
  <2>2. held' \in BOOLEAN /\ state' \in States
    BY <1>3 DEF States, Holds
  <2>3. QED
    BY <1>3, <2>1, <2>2
<1>4. QED
  BY <1>1, <1>2, <1>3 DEF Landed

\* Every variable holds a value of its kind, and what is out bears stamps given.
THEOREM TypeCorrect == Spec => []TypeOK
<1>1. ASSUME Init PROVE TypeOK
  <2>1. waiting \in Seq(1..tabs) /\ connects \subseteq [gen : 1..generation, under : Modes]
    BY <1>1 DEF Init
  <2>2. holds \subseteq [on : BOOLEAN, nth : 0..MaxFlips] /\ state \in States
    BY <1>1 DEF Init, States
  <2>3. asks \in 0..MaxAsks /\ flips \in 0..MaxFlips
    BY <1>1, BoundsAssumption DEF Init
  <2>4. QED
    BY <1>1, <2>1, <2>2, <2>3 DEF Init, TypeOK
<1>2. ASSUME TypeOK, [Next]_vars PROVE TypeOK'
  <2>1. CASE Activate
    <3>1. asks' \in 0..MaxAsks
      BY <1>2, <2>1, AskedType DEF Activate, TypeOK
    <3>2. QED
      BY <1>2, <2>1, <3>1, ConnectActiveType DEF Activate, TypeOK
  <2>2. CASE Leave
    <3>1. asks' \in 0..MaxAsks
      BY <1>2, <2>2, AskedType DEF Leave, TypeOK
    <3>2. QED
      BY <1>2, <2>2, <3>1 DEF Leave, TypeOK
  <2>3. CASE Reconnect
    <3>1. asks' \in 0..MaxAsks
      BY <1>2, <2>3, AskedType DEF Reconnect, TypeOK
    <3>2. QED
      BY <1>2, <2>3, <3>1, BeginConnectType DEF Reconnect, TypeOK
  <2>4. CASE Disconnect
    <3>1. asks' \in 0..MaxAsks
      BY <1>2, <2>4, AskedType DEF Disconnect, TypeOK
    <3>2. connects' \subseteq [gen : 1..generation', under : Modes]
      BY <1>2, <2>4 DEF Disconnect, TypeOK
    <3>3. waiting' \in Seq(1..tabs')
      BY <1>2, <2>4 DEF Disconnect, TypeOK
    <3>4. state' \in States /\ front' \in BOOLEAN
      BY <2>4 DEF Disconnect, States
    <3>5. generation' \in Nat
      BY <1>2, <2>4 DEF Disconnect, TypeOK
    <3>6. /\ mode' \in Modes /\ held' \in BOOLEAN /\ doubt' \in BOOLEAN
          /\ holds' \subseteq [on : BOOLEAN, nth : 0..MaxFlips]
          /\ tabs' \in Nat /\ flips' \in 0..MaxFlips
      BY <1>2, <2>4 DEF Disconnect, TypeOK
    <3>7. QED
      BY <3>1, <3>2, <3>3, <3>4, <3>6, <3>5 DEF TypeOK
  <2>5. CASE OpenFiles
    <3>1. asks' \in 0..MaxAsks
      BY <1>2, <2>5, AskedType DEF OpenFiles, TypeOK
    <3>2. PICK n \in 1..MaxFiles : \E k \in Made(n) :
              /\ tabs' = tabs + k
              /\ waiting' = IF k = n /\ state' = "connected"
                            THEN Drained
                            ELSE waiting \o [i \in 1..k |-> tabs + i]
      BY <2>5 DEF OpenFiles
    <3>3. PICK k \in Made(n) :
              /\ tabs' = tabs + k
              /\ waiting' = IF k = n /\ state' = "connected"
                            THEN Drained
                            ELSE waiting \o [i \in 1..k |-> tabs + i]
      BY <3>2
    <3>4. k \in Nat
      BY <3>3, SaveAssumption DEF Made
    <3>5. tabs' \in Nat /\ 1..tabs \subseteq 1..tabs'
      BY <1>2, <3>3, <3>4 DEF TypeOK
    <3>6. [i \in 1..k |-> tabs + i] \in Seq(1..tabs')
      BY <1>2, <3>3, <3>4 DEF TypeOK
    <3>7. waiting \in Seq(1..tabs')
      BY <1>2, <3>5 DEF TypeOK
    <3>8. waiting \o [i \in 1..k |-> tabs + i] \in Seq(1..tabs')
      BY <3>6, <3>7
    <3>9. waiting' \in Seq(1..tabs')
      <4>1. <<>> \in Seq(1..tabs')
        OBVIOUS
      <4>2. waiting' = <<>> \/ waiting' = waiting \o [i \in 1..k |-> tabs + i]
        BY <3>3 DEF Drained
      <4>3. QED
        BY <3>8, <4>1, <4>2
    <3>10. QED
      BY <1>2, <2>5, <3>1, <3>5, <3>9, ConnectActiveType DEF OpenFiles, TypeOK
  <2>6. CASE ConnectLands
    BY <1>2, <2>6, LandedType DEF ConnectLands
  <2>7. CASE HoldLands
    BY <1>2, <2>7 DEF HoldLands, TypeOK
  <2>8. CASE SetMode
    <3>1. PICK m \in Modes :
            /\ mode' = m
            /\ IF state = "connected"
               THEN /\ holds' = holds \cup {[on |-> Holds(m), nth |-> flips]}
                    /\ doubt' = (doubt \/ holds # {})
               ELSE UNCHANGED << holds, doubt >>
      BY <2>8 DEF SetMode
    <3>2. [on |-> Holds(m), nth |-> flips] \in [on : BOOLEAN, nth : 0..MaxFlips]
      BY <1>2 DEF Holds, TypeOK
    <3>3. holds' \subseteq [on : BOOLEAN, nth : 0..MaxFlips] /\ doubt' \in BOOLEAN
      BY <1>2, <3>1, <3>2 DEF TypeOK
    <3>4. flips' \in 0..MaxFlips
      BY <1>2, <2>8, BoundsAssumption DEF SetMode, TypeOK
    <3>5. QED
      BY <1>2, <2>8, <3>1, <3>3, <3>4 DEF SetMode, TypeOK
  <2>9. CASE UNCHANGED vars
    BY <1>2, <2>9 DEF vars, TypeOK
  <2>10. QED
    BY <1>2, <2>1, <2>2, <2>3, <2>4, <2>5, <2>6, <2>7, <2>8, <2>9 DEF Next
<1>3. QED
  BY <1>1, <1>2, PTL DEF Spec

(***************************************************************************)
(* The hold. What is asked of a session and has not answered is, out of    *)
(* doubt, one call, and it asks for what the mode says.                    *)
(***************************************************************************)

OneCallOut ==
  state = "connected" /\ ~doubt /\ holds # {}
    => \E h \in holds : holds = {h} /\ h.on = Holds(mode)

\* Nothing is asked of a session before it is installed.
NoneBefore == state = "connecting" => holds = {} /\ ~doubt

\* Only one connect on its way can be the profile's, and only while it connects.
OneOwn ==
  \A c \in connects :
    c.gen = generation =>
      /\ state = "connecting"
      /\ \A d \in connects : d.gen = generation => d = c

HoldInv == HoldsAsMode /\ OneCallOut /\ NoneBefore /\ OneOwn

\* A connect that sets out bears a stamp no other bears.
LEMMA BeginConnectHold ==
  ASSUME TypeOK, HoldInv, BeginConnect
  PROVE  HoldInv'
<1>1. \A c \in connects : c.gen < generation'
  BY DEF TypeOK, BeginConnect
<1>2. OneOwn'
  BY <1>1 DEF OneOwn, BeginConnect, TypeOK
<1>3. QED
  BY <1>2 DEF HoldInv, HoldsAsMode, OneCallOut, NoneBefore, BeginConnect

LEMMA ConnectActiveHold ==
  ASSUME TypeOK, HoldInv, ConnectActive
  PROVE  HoldInv'
<1>1. CASE state \in {"idle", "failed"}
  BY <1>1, BeginConnectHold DEF ConnectActive
<1>2. CASE state \notin {"idle", "failed"}
  BY <1>2 DEF ConnectActive, HoldInv, HoldsAsMode, OneCallOut, NoneBefore, OneOwn
<1>3. QED
  BY <1>1, <1>2

LEMMA LandedHold ==
  ASSUME TypeOK, HoldInv, NEW c \in connects, NEW ok \in BOOLEAN, Landed(c, ok)
  PROVE  HoldInv'
<1>1. CASE c.gen # generation /\ connects' = connects \ {c}
           /\ UNCHANGED << state, mode, generation, held, holds, doubt,
                           front, waiting, tabs, flips >>
  BY <1>1 DEF HoldInv, HoldsAsMode, OneCallOut, NoneBefore, OneOwn
<1>2. CASE /\ c.gen = generation
           /\ generation' = generation + 1
           /\ connects' = (connects \ {c}) \cup {[gen |-> generation + 1, under |-> mode]}
           /\ UNCHANGED << state, mode, held, holds, doubt, front, waiting, tabs, flips >>
  <2>1. state = "connecting"
    BY <1>2 DEF HoldInv, OneOwn
  <2>2. \A d \in connects : d.gen < generation'
    BY <1>2 DEF TypeOK
  <2>3. OneOwn'
    BY <1>2, <2>1, <2>2 DEF OneOwn, TypeOK
  <2>4. QED
    BY <1>2, <2>3 DEF HoldInv, HoldsAsMode, OneCallOut, NoneBefore
<1>3. CASE /\ c.gen = generation
           /\ ~(ok /\ Holds(mode) # Holds(c.under))
           /\ connects' = connects \ {c}
           /\ state' = IF ok THEN "connected" ELSE "failed"
           /\ held' = (ok /\ Holds(c.under))
           /\ waiting' = Drained
           /\ UNCHANGED << mode, generation, holds, doubt, front, tabs, flips >>
  <2>1. holds = {} /\ ~doubt
    BY <1>3 DEF HoldInv, OneOwn, NoneBefore
  <2>2. \A d \in connects' : d.gen # generation'
    BY <1>3 DEF HoldInv, OneOwn
  <2>3. OneOwn' /\ NoneBefore' /\ OneCallOut'
    BY <1>3, <2>1, <2>2 DEF OneOwn, NoneBefore, OneCallOut
  <2>4. HoldsAsMode'
    BY <1>3 DEF HoldsAsMode, Holds
  <2>5. QED
    BY <2>3, <2>4 DEF HoldInv
<1>4. QED
  BY <1>1, <1>2, <1>3 DEF Landed

\* Once nothing more is asked of the session it is held exactly when the mode is
\* Read-only, but for changes out at once and refusals.
THEOREM HeldAsMode == Spec => []HoldsAsMode
<1>1. Init => HoldInv
  BY DEF Init, HoldInv, HoldsAsMode, OneCallOut, NoneBefore, OneOwn
<1>2. ASSUME TypeOK, HoldInv, [Next]_vars PROVE HoldInv'
  <2> USE DEF HoldInv, HoldsAsMode, OneCallOut, NoneBefore, OneOwn
  <2>1. CASE Activate
    BY <1>2, <2>1, ConnectActiveHold DEF Activate
  <2>2. CASE Leave
    BY <1>2, <2>2 DEF Leave
  <2>3. CASE Reconnect
    BY <1>2, <2>3, BeginConnectHold DEF Reconnect
  <2>4. CASE Disconnect
    BY <1>2, <2>4 DEF Disconnect, TypeOK
  <2>5. CASE OpenFiles
    BY <1>2, <2>5, ConnectActiveHold DEF OpenFiles
  <2>6. CASE ConnectLands
    BY <1>2, <2>6, LandedHold DEF ConnectLands
  <2>7. CASE HoldLands
    <3>1. PICK h \in holds, ok \in BOOLEAN :
            /\ holds' = holds \ {h}
            /\ held' = IF ok THEN h.on ELSE held
            /\ doubt' = (doubt \/ ~ok)
      BY <2>7 DEF HoldLands
    <3>2. state' = state /\ mode' = mode /\ connects' = connects /\ generation' = generation
      BY <2>7 DEF HoldLands
    <3>3. CASE state = "connected" /\ ~doubt'
      <4>1. holds = {h} /\ h.on = Holds(mode) /\ ok
        BY <1>2, <3>1, <3>3, <3>2
      <4>2. holds' = {} /\ held' = Holds(mode')
        BY <3>1, <3>2, <4>1 DEF Holds
      <4>3. QED
        BY <1>2, <3>2, <3>3, <4>2
    <3>4. CASE ~(state = "connected" /\ ~doubt')
      BY <1>2, <3>1, <3>2, <3>4
    <3>5. QED
      BY <3>3, <3>4
  <2>8. CASE SetMode
    <3>1. PICK m \in Modes :
            /\ mode' = m
            /\ IF state = "connected"
               THEN /\ holds' = holds \cup {[on |-> Holds(m), nth |-> flips]}
                    /\ doubt' = (doubt \/ holds # {})
               ELSE UNCHANGED << holds, doubt >>
      BY <2>8 DEF SetMode
    <3>2. state' = state /\ connects' = connects /\ generation' = generation
      BY <2>8 DEF SetMode
    <3>3. CASE state = "connected"
      <4>1. holds' # {} /\ (~doubt' => holds' = {[on |-> Holds(mode'), nth |-> flips]})
        BY <3>1, <3>3
      <4>2. ~doubt' => \E h \in holds' : holds' = {h} /\ h.on = Holds(mode')
        BY <4>1
      <4>3. QED
        BY <1>2, <3>2, <3>3, <4>1, <4>2
    <3>4. CASE state # "connected"
      BY <1>2, <3>1, <3>2, <3>4
    <3>5. QED
      BY <3>3, <3>4
  <2>9. CASE UNCHANGED vars
    BY <1>2, <2>9 DEF vars
  <2>10. QED
    BY <1>2, <2>1, <2>2, <2>3, <2>4, <2>5, <2>6, <2>7, <2>8, <2>9 DEF Next
<1>3. QED
  BY <1>1, <1>2, TypeCorrect, PTL DEF Spec, HoldInv

\* Where every tab can be made, a file's statement waits only while the connect
\* it waits for is on its way.
THEOREM NoneLeftWaiting ==
  ASSUME SaveFails = FALSE
  PROVE  Spec => []WaitsForConnect
<1>1. Init => WaitsForConnect
  BY DEF Init, WaitsForConnect
<1>2. ASSUME TypeOK, WaitsForConnect, [Next]_vars PROVE WaitsForConnect'
  <2> USE DEF WaitsForConnect
  <2>1. CASE Activate \/ Reconnect
    BY <1>2, <2>1 DEF Activate, Reconnect, ConnectActive, BeginConnect
  <2>2. CASE Leave \/ HoldLands \/ SetMode
    BY <1>2, <2>2 DEF Leave, HoldLands, SetMode
  <2>3. CASE Disconnect
    BY <2>3 DEF Disconnect
  <2>4. CASE OpenFiles
    <3>1. state' \in {"connecting", "connected"}
      BY <1>2, <2>4 DEF OpenFiles, ConnectActive, BeginConnect, TypeOK, States
    <3>2. \E n \in 1..MaxFiles : \E k \in Made(n) :
            k = n /\ (state' = "connected" => waiting' = Drained)
      BY <2>4 DEF OpenFiles, Made
    <3>3. QED
      BY <3>1, <3>2 DEF Drained
  <2>5. CASE ConnectLands
    BY <1>2, <2>5 DEF ConnectLands, Landed, Drained
  <2>6. CASE UNCHANGED vars
    BY <1>2, <2>6 DEF vars
  <2>7. QED
    BY <1>2, <2>1, <2>2, <2>3, <2>4, <2>5, <2>6 DEF Next
<1>3. QED
  BY <1>1, <1>2, TypeCorrect, PTL DEF Spec
=============================================================================
