------------------------------ MODULE Restart ------------------------------
(***************************************************************************)
(* What a profile's query tabs come back with: the texts, names and result *)
(* snapshots that src/workspace/queries.rs, session.rs and store.rs write, *)
(* and what src/workspace/profiles.rs and objects.rs read at the next      *)
(* launch.  A handler is a list of steps, each of at most one write to     *)
(* disk, between which the application may crash and another program may   *)
(* put a file in the directory.                                            *)
(*                                                                         *)
(* A text, and what a run left, are numbers, never used twice; zero is an  *)
(* empty text, or a result nothing is kept of.  A file is installed by a   *)
(* rename and seen whole or not at all; snapshots are written in one step. *)
(* Writing a text may fail; profiles.toml is taken to be saved whenever    *)
(* the code saves it.                                                      *)
(***************************************************************************)
EXTENDS Integers, Sequences, FiniteSets

CONSTANTS Names,       \* of saved queries
          MaxTabs,     \* tabs ever opened
          MaxTexts,    \* texts ever typed
          MaxRuns,     \* runs ever made
          MaxCrashes,  \* crashes ever
          MaxStrip,    \* the results a queue leaves
          NamesReturn  \* a name may be taken while a stored tab waits for it

ASSUME BoundsAssumption ==
  /\ MaxTabs \in Nat \ {0} /\ {MaxTexts, MaxRuns, MaxCrashes, MaxStrip} \subseteq Nat
  /\ NamesReturn \in BOOLEAN

ASSUME NamesAssumption == "" \notin Names

VARIABLES
  up,          \* the application is running
  tabs,        \* its query tabs
  next,        \* the id the next one gets
  todo,        \* what is left of the handler that is running
  saved,       \* on disk: each saved query's file
  scratch,     \* each unsaved buffer's file
  grids,       \* each tab's snapshots
  stored,      \* profiles.toml
  typed, runs, crashes,    \* how many there have been
  owed         \* texts that were written and not replaced or discarded since

memory == <<up, tabs, next>>
disk == <<saved, scratch, grids, stored>>
counts == <<typed, runs, crashes>>
vars == <<memory, todo, disk, counts, owed>>

Ids == 0..(MaxTabs - 1)
Texts == 0..MaxTexts
Results == 0..MaxRuns
NoFile == -1
Unsaved == ""          \* the name of a buffer with none

Snapshots == [slot : Results, strip : [1..MaxStrip -> Results]]
NoSnapshots == [slot |-> 0, strip |-> [k \in 1..MaxStrip |-> 0]]

NoTab == [open |-> FALSE, name |-> Unsaved, text |-> 0, base |-> 0,
          hydrated |-> FALSE, slot |-> 0, strip |-> <<>>, count |-> 0]
NoEntry == [open |-> FALSE, name |-> Unsaved, count |-> 0]

Init ==
  /\ up = TRUE /\ next = 1 /\ todo = <<>>
  /\ tabs = [t \in Ids |-> IF t = 0 THEN [NoTab EXCEPT !.open = TRUE, !.hydrated = TRUE]
                           ELSE NoTab]
  /\ saved = [n \in Names |-> NoFile] /\ scratch = [t \in Ids |-> 0]
  /\ grids = [t \in Ids |-> NoSnapshots]
  /\ stored = [tabs |-> [t \in Ids |-> [NoEntry EXCEPT !.open = (t = 0)]], next |-> 1]
  /\ typed = 0 /\ runs = 0 /\ crashes = 0 /\ owed = {}

Open == {t \in Ids : tabs[t].open}
Holders(n) == {t \in Open : tabs[t].name = n}      \* Session::tab_holding
Ready == up /\ todo = <<>>

\* QueryTab::stored: the strip's length, or what was stored until it is shown.
Entry(tab) == [open |-> tab.open, name |-> tab.name,
               count |-> IF tab.strip # <<>> THEN Len(tab.strip) ELSE tab.count]

\* Mutant of Profile: the next id is the one after the tabs that are open.
ProfileOfOpen(of, id) ==
  [tabs |-> [t \in Ids |-> Entry(of[t])],
   next |-> CHOOSE n \in 0..MaxTabs : \A m \in 0..MaxTabs :
              m < n <=> \E t \in Ids : of[t].open /\ m <= t]

Profile(of, id) == [tabs |-> [t \in Ids |-> Entry(of[t])], next |-> id]

\* The results whose snapshots are there, one behind another.
Place(at, k) == CHOOSE i \in at : Cardinality({j \in at : j < i}) = k - 1
Gathered(strip, count) ==
  LET at == {k \in 1..count : strip[k] # 0}
  IN  [k \in 1..Cardinality(at) |-> strip[Place(at, k)]]

\* hydrate_tab: the strip's results, and the tab's own.
Hydrate(tab, from) ==
  IF tab.hydrated THEN tab
  ELSE [tab EXCEPT !.hydrated = TRUE, !.slot = from.slot, !.count = 0,
                   !.strip = Gathered(from.strip, tab.count)]

\* write_grids: what is there to keep replaces what was kept.
Snapshot(tab, old) ==
  [slot |-> IF tab.slot # 0 THEN tab.slot ELSE old.slot,
   strip |-> [k \in 1..MaxStrip |->
                IF k \in 1..Len(tab.strip) /\ tab.strip[k] # 0
                THEN tab.strip[k] ELSE old.strip[k]]]

-----------------------------------------------------------------------------
(* The steps of a handler.                                                 *)

Op(op, tab, name, to) == [op |-> op, tab |-> tab, name |-> name, to |-> to]
Do(op) == Op(op, MaxTabs, Unsaved, Unsaved)      \* of no tab
On(op, tab) == Op(op, tab, Unsaved, Unsaved)

\* Every buffer; an id with no tab is passed over.
PersistAll == <<Do("grids")>> \o [i \in 1..MaxTabs |-> On("text", i - 1)]

Doing(op) == up /\ todo # <<>> /\ Head(todo).op = op
Step == Head(todo)
Went == todo' = Tail(todo)

\* What of a handler goes on when a write fails: the other buffers' texts,
\* and the application's end.
GoesOn(step) == step.op \in {"text", "exit"}
Abort == todo' = [i \in 1..(Len(todo) - 1) |->
                    IF GoesOn(todo[i + 1]) THEN todo[i + 1] ELSE Do("pass")]

\* A text is on disk, in place of the one its tab last read or wrote.
Wrote(t) == owed' = (owed \ {tabs[t].base}) \cup ({tabs[t].text} \ {0})
Based(t) == [tabs EXCEPT ![t].base = tabs[t].text]

WriteGrids ==
  /\ Doing("grids")
  /\ grids' = [t \in Ids |-> IF t \in Open THEN Snapshot(tabs[t], grids[t]) ELSE grids[t]]
  /\ Went
  /\ UNCHANGED <<memory, saved, scratch, stored, counts, owed>>

PassOver ==
  /\ Doing("pass") \/ (Doing("text") /\ Step.tab \notin Open)
  /\ Went
  /\ UNCHANGED <<memory, disk, counts, owed>>

WriteText ==
  /\ Doing("text") /\ Step.tab \in Open
  /\ LET t == Step.tab
         n == tabs[t].name
     IN  /\ Wrote(t) /\ tabs' = Based(t)
         /\ IF n = Unsaved
            THEN scratch' = [scratch EXCEPT ![t] = tabs[t].text] /\ UNCHANGED saved
            ELSE saved' = [saved EXCEPT ![n] = tabs[t].text] /\ UNCHANGED scratch
  /\ Went
  /\ UNCHANGED <<up, next, grids, stored, counts>>

WriteFails ==
  /\ (Doing("text") /\ Step.tab \in Open) \/ Doing("install") \/ Doing("move")
  /\ Abort
  /\ UNCHANGED <<memory, disk, counts, owed>>

\* A new query's file, never in the place of another.
Install ==
  /\ Doing("install") /\ saved[Step.to] = NoFile
  /\ saved' = [saved EXCEPT ![Step.to] = tabs[Step.tab].text]
  /\ Wrote(Step.tab) /\ tabs' = Based(Step.tab)
  /\ Went
  /\ UNCHANGED <<up, next, scratch, grids, stored, counts>>

\* rename_query: the file itself decides whether the name is free.
Move ==
  /\ Doing("move") /\ saved[Step.to] = NoFile
  /\ saved' = [saved EXCEPT ![Step.to] = saved[Step.name], ![Step.name] = NoFile]
  /\ Went
  /\ UNCHANGED <<memory, scratch, grids, stored, counts, owed>>

DeleteFile ==
  /\ Doing("delete")
  /\ owed' = owed \ {saved[Step.name]}
  /\ saved' = [saved EXCEPT ![Step.name] = NoFile]
  /\ Went
  /\ UNCHANGED <<memory, scratch, grids, stored, counts>>

\* Whoever holds the query has its new name, and profiles.toml says so.
TakeName ==
  /\ Doing("name")
  /\ tabs' = [t \in Ids |-> IF t = Step.tab /\ t \in Open
                            THEN [tabs[t] EXCEPT !.name = Step.to] ELSE tabs[t]]
  /\ stored' = Profile(tabs', next)
  /\ Went
  /\ UNCHANGED <<up, next, saved, scratch, grids, counts, owed>>

\* Mutant of OpenTab: the profile is stored before the id taken is counted.
OpenTabEarly ==
  /\ Doing("open")
  /\ IF Step.name # Unsaved /\ saved[Step.name] = NoFile
     THEN UNCHANGED <<tabs, next, stored>>
     ELSE LET text == IF Step.name = Unsaved THEN scratch[next] ELSE saved[Step.name]
          IN  /\ tabs' = [tabs EXCEPT ![next] =
                    Hydrate([NoTab EXCEPT !.open = TRUE, !.name = Step.name,
                               !.text = text, !.base = text], grids[next])]
              /\ next' = next + 1
              /\ stored' = Profile(tabs', next)
  /\ Went
  /\ UNCHANGED <<up, saved, scratch, grids, counts, owed>>

\* A new tab, in front: its text and any snapshots are read, and it is stored.
OpenTab ==
  /\ Doing("open")
  /\ IF Step.name # Unsaved /\ saved[Step.name] = NoFile
     THEN UNCHANGED <<tabs, next, stored>>
     ELSE LET text == IF Step.name = Unsaved THEN scratch[next] ELSE saved[Step.name]
          IN  /\ tabs' = [tabs EXCEPT ![next] =
                    Hydrate([NoTab EXCEPT !.open = TRUE, !.name = Step.name,
                               !.text = text, !.base = text], grids[next])]
              /\ next' = next + 1
              /\ stored' = Profile(tabs', next')
  /\ Went
  /\ UNCHANGED <<up, saved, scratch, grids, counts, owed>>

\* remove_query_tab: an unsaved text is discarded with its tab.
RemoveTab ==
  /\ Doing("remove")
  /\ tabs' = [tabs EXCEPT ![Step.tab] = NoTab]
  /\ owed' = IF tabs[Step.tab].name = Unsaved THEN owed \ {tabs[Step.tab].base} ELSE owed
  /\ Went
  /\ UNCHANGED <<up, next, disk, counts>>

DeleteScratch ==
  /\ Doing("forget")
  /\ scratch' = [scratch EXCEPT ![Step.tab] = 0]
  /\ Went
  /\ UNCHANGED <<memory, saved, grids, stored, counts, owed>>

\* Its own snapshot goes; those of its strip are left for the next launch.
RemoveGrid ==
  /\ Doing("drop")
  /\ grids' = [grids EXCEPT ![Step.tab].slot = 0]
  /\ Went
  /\ UNCHANGED <<memory, saved, scratch, stored, counts, owed>>

RememberProfiles ==
  /\ Doing("remember")
  /\ stored' = Profile(tabs, next)
  /\ Went
  /\ UNCHANGED <<memory, saved, scratch, grids, counts, owed>>

\* activate_tab: a tab not shown since the launch reads its snapshots.
Show(t) ==
  /\ tabs' = [u \in Ids |-> IF u = t /\ u \in Open THEN Hydrate(tabs[u], grids[u]) ELSE tabs[u]]
  /\ stored' = Profile(tabs', next)

\* What comes to the front for a tab that was removed.
ShowNext ==
  /\ Doing("show")
  /\ Show(Step.tab)
  /\ Went
  /\ UNCHANGED <<up, next, saved, scratch, grids, counts, owed>>

Down == /\ up' = FALSE /\ todo' = <<>> /\ next' = 0
        /\ tabs' = [t \in Ids |-> NoTab]
        /\ UNCHANGED <<disk, typed, runs, owed>>

Exit == Doing("exit") /\ Down /\ UNCHANGED crashes

Steps == WriteGrids \/ PassOver \/ WriteText \/ WriteFails \/ Install \/ Move \/ DeleteFile
           \/ TakeName \/ OpenTab \/ RemoveTab \/ DeleteScratch \/ RemoveGrid
           \/ RememberProfiles \/ ShowNext \/ Exit

\* A tab whose query was gone at launch is unsaved, and stored under the name
\* until the profile is stored: a query of that name would be brought up in its
\* place by the next launch.
Awaited(n) == \E t \in Ids : stored.tabs[t].name = n /\ tabs[t].name # n
Free(n) == saved[n] = NoFile /\ (NamesReturn \/ ~Awaited(n))

-----------------------------------------------------------------------------
(* The user.                                                               *)

Start(steps) ==
  /\ Ready
  /\ todo' = steps
  /\ UNCHANGED <<memory, disk, counts, owed>>

Type(t) ==
  /\ Ready /\ t \in Open /\ typed < MaxTexts
  /\ typed' = typed + 1
  /\ tabs' = [tabs EXCEPT ![t].text = typed + 1]
  /\ UNCHANGED <<up, next, todo, disk, runs, crashes, owed>>

\* One statement, whose result replaces any strip; or a queue, as far as it
\* got.  Of a failure, or no columns, nothing is kept.
Run(t) ==
  /\ Ready /\ t \in Open /\ tabs[t].hydrated /\ runs < MaxRuns
  /\ runs' = runs + 1
  /\ \E len \in 0..MaxStrip :
       \E left \in [1..(IF len = 0 THEN 1 ELSE len) -> {0, runs + 1}] :
          tabs' = [tabs EXCEPT ![t].slot = left[Len(left)], ![t].count = 0,
                               ![t].strip = IF len = 0 THEN <<>> ELSE left]
  /\ UNCHANGED <<up, next, todo, disk, typed, crashes, owed>>

Activate(t) ==
  /\ Ready /\ t \in Open
  /\ Show(t)
  /\ UNCHANGED <<up, next, todo, saved, scratch, grids, counts, owed>>

Persist == Open # {} /\ Start(PersistAll)
NewQuery == next < MaxTabs /\ Start(PersistAll \o <<Do("open")>>)

\* Mutant of OpenSaved: the tab that holds the query is not looked for.
OpenSavedAgain(n) ==
  /\ next < MaxTabs /\ saved[n] # NoFile
  /\ Start(PersistAll \o <<Op("open", 0, n, n)>>)

OpenSaved(n) ==
  /\ next < MaxTabs /\ saved[n] # NoFile /\ Holders(n) = {}
  /\ Start(PersistAll \o <<Op("open", 0, n, n)>>)

\* Mutant of SaveAs: the buffer is forgotten before the query is there.
SaveAsForgetting(t, n) ==
  /\ t \in Open /\ tabs[t].name = Unsaved /\ Free(n)
  /\ Start(<<On("forget", t), Op("install", t, n, n), Op("name", t, n, n)>>)

\* confirm_save, of a buffer with no name yet.
SaveAs(t, n) ==
  /\ t \in Open /\ tabs[t].name = Unsaved /\ Free(n)
  /\ Start(<<Op("install", t, n, n), On("forget", t), Op("name", t, n, n)>>)

\* From the tab, which forgets its scratch file again and stores the profile
\* under the old name yet, or from the sidebar; a query no tab holds is written
\* as it was read, which is left out.
Rename(n, m) ==
  /\ n # m /\ saved[n] # NoFile /\ Free(m)
  /\ \/ \E t \in Holders(n) :
          LET move == Op("move", t, n, m)
              take == Op("name", t, n, m)
          IN  \/ Start(<<On("text", t), move, On("forget", t), On("remember", t), take>>)
              \/ Start(<<On("text", t), move, take>>)
     \/ /\ Holders(n) = {}
        /\ Start(<<Op("move", MaxTabs, n, m), Op("name", MaxTabs, n, m)>>)

\* The tab that comes to the front, another of the profile's or a relation's,
\* stores the profile before the files go; none does if the one closed was behind.
Removal(t) ==
  {<<On("remove", t)>> \o front
     \o (IF tabs[t].name = Unsaved THEN <<On("forget", t)>> ELSE <<>>)
     \o <<On("drop", t), Do("remember")>> :
   front \in {<<>>, <<Do("remember")>>} \cup {<<On("show", u)>> : u \in Open \ {t}}}

CloseBuffer(t) ==
  /\ t \in Open
  /\ \E removal \in Removal(t) :
       Start((IF tabs[t].name = Unsaved THEN <<>> ELSE <<On("text", t)>>) \o removal)

DeleteSaved(n) ==
  /\ saved[n] # NoFile
  /\ \/ /\ Holders(n) = {}
        /\ Start(<<Op("delete", 0, n, n), Do("remember")>>)
     \/ \E t \in Holders(n) : \E removal \in Removal(t) :
          Start(<<Op("delete", t, n, n)>> \o removal)

Quit == Start(PersistAll \o <<Do("exit")>>)

User == \/ Persist \/ NewQuery \/ Quit
        \/ \E t \in Ids : Type(t) \/ Run(t) \/ Activate(t) \/ CloseBuffer(t)
        \/ \E n \in Names : \/ OpenSaved(n) \/ DeleteSaved(n)
                            \/ \E t \in Ids : SaveAs(t, n)
                            \/ \E m \in Names : Rename(n, m)

-----------------------------------------------------------------------------
(* The world.                                                              *)

Crash == up /\ crashes < MaxCrashes /\ Down /\ crashes' = crashes + 1

\* Another program, or another instance, puts a file there.
Appears(n) ==
  /\ Free(n) /\ typed < MaxTexts
  /\ typed' = typed + 1
  /\ saved' = [saved EXCEPT ![n] = typed + 1]
  /\ owed' = owed \cup {typed + 1}
  /\ UNCHANGED <<memory, todo, scratch, grids, stored, runs, crashes>>

\* unsaved_where_gone, stored_text and prune_grids.
Launch ==
  /\ ~up
  /\ up' = TRUE /\ next' = stored.next
  /\ tabs' = [t \in Ids |->
       LET entry == stored.tabs[t]
           name == IF entry.name # Unsaved /\ saved[entry.name] = NoFile
                   THEN Unsaved ELSE entry.name
           text == IF name = Unsaved THEN scratch[t] ELSE saved[name]
       IN  IF ~entry.open THEN NoTab
           ELSE [NoTab EXCEPT !.open = TRUE, !.name = name, !.text = text,
                              !.base = text, !.count = entry.count]]
  /\ grids' = [t \in Ids |->
       IF ~stored.tabs[t].open THEN NoSnapshots
       ELSE [grids[t] EXCEPT !.strip =
               [k \in 1..MaxStrip |-> IF k <= stored.tabs[t].count THEN @[k] ELSE 0]]]
  /\ UNCHANGED <<todo, saved, scratch, stored, counts, owed>>

Next == Steps \/ User \/ Crash \/ Launch \/ \E n \in Names : Appears(n)

Spec == Init /\ [][Next]_vars

-----------------------------------------------------------------------------
(* What has to hold.                                                       *)

Strips == UNION {[1..n -> Results] : n \in 0..MaxStrip}
TabRecord == [open : BOOLEAN, name : Names \cup {Unsaved}, text : Texts, base : Texts,
              hydrated : BOOLEAN, slot : Results, strip : Strips, count : 0..MaxStrip]
EntryRecord == [open : BOOLEAN, name : Names \cup {Unsaved}, count : 0..MaxStrip]

Shapes ==
  /\ up \in BOOLEAN /\ next \in 0..MaxTabs /\ tabs \in [Ids -> TabRecord]
  /\ saved \in [Names -> Texts \cup {NoFile}] /\ scratch \in [Ids -> Texts]
  /\ grids \in [Ids -> Snapshots]
  /\ stored \in [tabs : [Ids -> EntryRecord], next : 0..MaxTabs]
  /\ typed \in Texts /\ runs \in Results /\ crashes \in 0..MaxCrashes
  /\ owed \subseteq Texts

\* Each value has its type, and the id a new tab takes is past those in use, now
\* and as stored: else a tab opened after a relaunch takes another's files.
TypeOK ==
  /\ Shapes
  /\ \A t \in Ids : /\ tabs[t].open => t < next
                    /\ stored.tabs[t].open => t < stored.next

\* The next launch finds it: a saved query, or the text of a stored tab.
Found(x) ==
  \/ \E n \in Names : saved[n] = x
  \/ \E t \in Ids : /\ stored.tabs[t].open /\ scratch[t] = x
                    /\ \/ stored.tabs[t].name = Unsaved
                       \/ saved[stored.tabs[t].name] = NoFile

\* No text that was written, and no other program's, is lost but to what
\* replaced or discarded it, wherever between two writes of a save, a rename,
\* a close or a delete the crash came, whichever write failed, whatever file
\* another program put there meanwhile under a name that no stored tab waits
\* for (NamesReturn is FALSE).
TextKept == \A x \in owed : Found(x)

\* An id that has not been handed out has nothing on disk, so no new tab comes
\* up with the text or the rows of one that was closed.
IdsUnused ==
  \A t \in Ids : t >= stored.next => scratch[t] = 0 /\ grids[t] = NoSnapshots

\* A saved query is in one tab at most, in the window and at the next launch,
\* whatever was renamed, saved, closed or brought up in between: of two tabs on
\* one file each would write over what the other wrote (tab_holding finds one).
HeldOnce ==
  \A t, u \in Ids : t # u =>
    /\ tabs[t].name = Unsaved \/ tabs[t].name # tabs[u].name
    /\ stored.tabs[t].name = Unsaved \/ stored.tabs[t].name # stored.tabs[u].name

\* The results on a strip are those of one run: a later, shorter one leaves
\* none of the earlier one's behind.
StripOfOneRun ==
  \A t \in Open : \A i, j \in 1..Len(tabs[t].strip) :
    tabs[t].strip[i] # 0 /\ tabs[t].strip[j] # 0 => tabs[t].strip[i] = tabs[t].strip[j]
=============================================================================
