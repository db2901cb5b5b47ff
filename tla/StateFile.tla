------------------------------- MODULE StateFile -------------------------------
(***************************************************************************)
(* What the compositor remembers of outputs and workspaces from one start  *)
(* to the next (aswlcomp_state.c) and the handlers that use and save it    *)
(* (aswlcomp_output.c).                                                    *)
(*                                                                         *)
(* Outputs are known by name.  Positions are on one axis and every output  *)
(* is one unit wide; scale and transform go the way of the mode.  A save   *)
(* is part of its handler, but the process, or the machine, may stop       *)
(* between its steps.                                                      *)
(***************************************************************************)
EXTENDS Integers, SequencesExt

CONSTANTS
    Outputs, None,
    Preferred, Mode,   \* the two modes an output is in: its own choice, another
    Torn,              \* a file whose contents did not reach the disk
    Places,            \* positions that users choose
    Default,           \* the number of workspaces of main() (9)
    Counts,            \* numbers of workspaces found in the environment or a file
    MaxEvents          \* bound: outputs that come and go, changes, starts

\* What files can say.  A line of one need not name everything.  The field was is
\* history: the position is one that the output was at, or else unknown or made up.
EntriesOf(xs, was) ==
    [on : BOOLEAN \cup {None}, x : xs, mode : {Preferred, Mode, None}, was : {was}]
Entries == EntriesOf(Nat, TRUE) \cup EntriesOf({None, 0}, FALSE)
Tables == UNION {[known -> Entries] : known \in SUBSET Outputs}
Files == [count : Counts \cup {Default, None}, ws : (Nat \ {0}) \cup {None}, outs : Tables]

ASSUME StateFileAssumption ==
    /\ None \notin Outputs /\ Preferred # Mode /\ None \notin {Preferred, Mode} \cup BOOLEAN
    /\ None \notin [on : BOOLEAN, mode : {Preferred, Mode, None}, heard : BOOLEAN]
    /\ None \notin Nat /\ Torn \notin Files \cup {None}
    /\ Places \subseteq Nat /\ Counts \subseteq Nat \ {0} /\ Default \in Nat \ {0}
    /\ MaxEvents \in Nat

VARIABLES
    up,        \* the compositor runs
    forced,    \* ASWLCOMP_OUTPUT_WIDTH and _HEIGHT are set
    live,      \* server->outputs; heard: it has a frame listener; mode: None, it has none
    layout,    \* output_layout: who is in it, where, in the order of arrival
    table,     \* outputs_persist; None for what have_* says is not known
    count, ws, \* workspace_count, current_workspace
    tmp,       \* the temporary file of a save under way
    path,      \* state_path: what the name leads to
    synced,    \* its contents are on the disk
    disk,      \* what the name led to earlier and may lead to after a power cut
    events,
    wished,    \* history: what the file, then the user, wanted each output to be
    seen,      \* history: where each output last was, as far as the file tells
    spoiled,   \* history: outputs that could not be what was wanted since the start
    unsaved    \* history: no save has succeeded since the last change
fs == <<tmp, path, synced, disk>>
vars == <<up, forced, live, layout, table, count, ws, fs, events, wished, seen, spoiled, unsaved>>

-----------------------------------------------------------------------------
\* The layout of wlroots: what was given a place has it, the others follow to the
\* right in the order of their arrival.
Fixed(lay) == {lay[i].x : i \in {j \in DOMAIN lay : lay[j].x # None}}
Right(lay) == IF Fixed(lay) = {} THEN 0 ELSE Max(Fixed(lay)) + 1
Before(lay, i) == Cardinality({j \in 1..(i - 1) : lay[j].x = None})
IndexOf(lay, o) == CHOOSE i \in DOMAIN lay : lay[i].out = o
Laid(lay) ==
    [o \in {lay[i].out : i \in DOMAIN lay} |->
       LET i == IndexOf(lay, o)
       IN  IF lay[i].x = None THEN Right(lay) + Before(lay, i) ELSE lay[i].x]

IsIn(lay, o) == \E i \in DOMAIN lay : lay[i].out = o
Without(lay, o) ==
    IF IsIn(lay, o)
    THEN [i \in 1 .. Len(lay) - 1 |-> IF i < IndexOf(lay, o) THEN lay[i] ELSE lay[i + 1]]
    ELSE lay
With(lay, o, x) ==
    IF IsIn(lay, o)
    THEN [i \in DOMAIN lay |-> IF lay[i].out = o THEN [out |-> o, x |-> x] ELSE lay[i]]
    ELSE Append(lay, [out |-> o, x |-> x])

-----------------------------------------------------------------------------
\* The table and the file

Unknown == [on |-> None, x |-> None, mode |-> None, was |-> FALSE]
Or(value, default) == IF value = None THEN default ELSE value
Plugged(l) == {o \in Outputs : l[o] # None}

\* What is known of an output that is there.
Noted(known, out, placed, x) ==
    [on |-> out.on, mode |-> Or(out.mode, known.mode),
     x |-> IF placed THEN x ELSE known.x, was |-> IF placed THEN TRUE ELSE known.was]

\* aswl_outputs_persist_sync_from_live: those that are not there keep what is known
\* of them.  Fault: the table holds the outputs that are there.
SyncedAfresh(t, l, lay) ==
    LET there == Laid(lay)
    IN  [o \in Plugged(l) |->
           Noted(IF o \in DOMAIN t THEN t[o] ELSE Unknown, l[o], o \in DOMAIN there,
                 IF o \in DOMAIN there THEN there[o] ELSE None)]
Synced(t, l, lay) ==
    LET there == Laid(lay)
    IN  [o \in DOMAIN t \cup Plugged(l) |->
           IF l[o] = None THEN t[o]
           ELSE Noted(IF o \in DOMAIN t THEN t[o] ELSE Unknown, l[o], o \in DOMAIN there,
                      IF o \in DOMAIN there THEN there[o] ELSE None)]

\* Every line names everything: what is not known is written as its default, a
\* position that is not known as 0.
Written(e) == [on |-> Or(e.on, TRUE), x |-> Or(e.x, 0), mode |-> Or(e.mode, Preferred),
               was |-> e.was]
Contents(t, c, w) == [count |-> c, ws |-> w, outs |-> [o \in DOMAIN t |-> Written(t[o])]]

\* aswl_state_save, up to the temporary file
Save(t, c, w) ==
    /\ table' = t
    /\ tmp' = [body |-> Contents(t, c, w), synced |-> FALSE]
    /\ unsaved' = TRUE
    /\ UNCHANGED <<path, synced, disk>>
Unsaving == UNCHANGED <<table, fs, unsaved>>

\* The contents reach the disk, then the name leads to them.
SyncTmp ==
    /\ tmp # None /\ ~tmp.synced
    /\ tmp' = [tmp EXCEPT !.synced = TRUE]
    /\ UNCHANGED <<up, forced, live, layout, table, count, ws, path, synced, disk, events,
                   wished, seen, spoiled, unsaved>>

Renamed ==
    /\ tmp' = None
    /\ path' = tmp.body
    /\ synced' = tmp.synced
    /\ disk' \in {disk, path}
    /\ unsaved' = FALSE
    /\ UNCHANGED <<up, forced, live, layout, table, count, ws, events, wished, seen, spoiled>>
\* Fault: rename does not wait for fsync.
RenameAtOnce == tmp # None /\ Renamed
RenameTmp == tmp # None /\ tmp.synced /\ Renamed

\* Any of the steps may fail; the temporary file is removed and nobody is told.
SaveFails ==
    /\ tmp # None
    /\ tmp' = None
    /\ UNCHANGED <<up, forced, live, layout, table, count, ws, path, synced, disk, events,
                   wished, seen, spoiled, unsaved>>

-----------------------------------------------------------------------------
\* The life of the compositor

Running == up /\ tmp = None
Happens == events < MaxEvents /\ events' = events + 1

Stopped ==
    /\ up' = FALSE
    /\ forced' = FALSE
    /\ live' = [o \in Outputs |-> None]
    /\ layout' = <<>>
    /\ table' = <<>>
    /\ count' = Default
    /\ ws' = 1
    /\ tmp' = None
    /\ wished' = [o \in Outputs |-> None]
    /\ seen' = [o \in Outputs |-> None]
    /\ spoiled' = {}
    /\ unsaved' = TRUE

\* It ends, is killed or crashes, also during a save.  When it ends in order, the
\* outputs that go away with it are not saved (aswl_server_finish).
Stop == up /\ Stopped /\ UNCHANGED <<path, synced, disk, events>>

PowerCut ==
    /\ up
    /\ Stopped
    /\ path' \in {disk, IF synced THEN path ELSE Torn}
    /\ disk' = path'
    /\ synced' = TRUE
    /\ UNCHANGED events

Normalized(w, c) == IF w > c THEN ((w - 1) % c) + 1 ELSE w
LoadedWs(f, c) == Normalized(IF f = None THEN 1 ELSE Or(f.ws, 1), c)

\* main(): the environment's number of workspaces precedes the file's.
Start ==
    /\ ~up /\ path # Torn
    /\ Happens
    /\ up' = TRUE
    /\ forced' \in BOOLEAN
    /\ table' = IF path = None THEN <<>> ELSE path.outs
    /\ \E env \in Counts \cup {None} :
         count' = IF env # None THEN env
                  ELSE IF path = None THEN Default ELSE Or(path.count, Default)
    /\ ws' = LoadedWs(path, count')
    /\ wished' = [o \in Outputs |->
                    LET e == IF o \in DOMAIN table' THEN table'[o] ELSE Unknown
                    IN  [on |-> Written(e).on, mode |-> Written(e).mode]]
    /\ seen' = [o \in Outputs |->
                  IF o \in DOMAIN table' /\ table'[o].was THEN table'[o].x ELSE None]
    /\ UNCHANGED <<live, layout, fs, spoiled, unsaved>>

-----------------------------------------------------------------------------
\* Handlers

Sees(lay) == seen' = [o \in Outputs |-> IF o \in DOMAIN Laid(lay) THEN Laid(lay)[o] ELSE seen[o]]

\* What is asked of an output that appears, of which the backend offers the modes.
\* Fault: every output is turned on.
AskedOn(o, modes) ==
    [on |-> TRUE,
     mode |-> CASE forced -> Mode
                [] ~forced /\ o \in DOMAIN table /\ table[o].mode \in modes -> table[o].mode
                [] OTHER -> Preferred]
Asked(o, modes) ==
    CASE forced -> [on |-> TRUE, mode |-> Mode]
      [] ~forced /\ o \notin DOMAIN table -> [on |-> TRUE, mode |-> Preferred]
      [] OTHER -> [on |-> Or(table[o].on, TRUE),
                   mode |-> IF table[o].mode \in modes THEN table[o].mode ELSE Preferred]

\* Where it is put.  Fault: an output that is not known has a place too.
PlaceZero(o) == IF ~forced /\ o \in DOMAIN table THEN table[o].x ELSE 0
Place(o) == IF ~forced /\ o \in DOMAIN table THEN table[o].x ELSE None

\* Of an output that cannot be set up the handler returns early: it stays in the
\* list, off, without a mode, unheard and unsaved.
PlugFails(o) ==
    /\ live' = [live EXCEPT ![o] = [on |-> FALSE, mode |-> None, heard |-> FALSE]]
    /\ spoiled' = spoiled \cup {o}
    /\ Unsaving
    /\ UNCHANGED <<layout, seen>>

PlugAs(o, setting, otherwise) ==
    LET l == [live EXCEPT ![o] = [on |-> setting.on, mode |-> setting.mode, heard |-> TRUE]]
        lay == IF setting.on THEN With(layout, o, Place(o)) ELSE layout
    IN  /\ live' = l
        /\ layout' = lay
        /\ spoiled' = IF otherwise THEN spoiled \cup {o} ELSE spoiled
        /\ Sees(lay)
        /\ Save(Synced(table, l, lay), count, ws)

\* handle_new_output: if the first commit is refused, another without what was
\* remembered is tried.
Plug(o) ==
    /\ Running /\ live[o] = None
    /\ Happens
    /\ \/ \E modes \in {{Preferred}, {Preferred, Mode}} :
            PlugAs(o, Asked(o, modes), forced \/ wished[o].mode \notin modes)
       \/ PlugAs(o, [on |-> TRUE, mode |-> Preferred], TRUE)
       \/ PlugFails(o)
    /\ UNCHANGED <<up, forced, count, ws, wished>>

Unplug(o) ==
    /\ Running /\ live[o] # None /\ live[o].heard
    /\ Happens
    /\ live' = [live EXCEPT ![o] = None]
    /\ layout' = Without(layout, o)
    /\ Sees(layout')
    /\ Save(Synced(table, live', layout'), count, ws)
    /\ UNCHANGED <<up, forced, count, ws, wished, spoiled>>

\* The frame listener that handle_output_destroy removes was never added.
UnplugUnheard(o) ==
    /\ Running /\ live[o] # None /\ ~live[o].heard
    /\ Happens
    /\ Stopped
    /\ UNCHANGED <<path, synced, disk>>

\* A configuration names every output: here one as it is to be, the others as they
\* are.  The backend may refuse it, and then nothing changes.
OutputManagerApply(o) ==
    /\ Running /\ live[o] # None
    /\ Happens
    /\ \E on \in BOOLEAN, mode \in {Preferred, Mode}, x \in Places :
         LET l == [live EXCEPT ![o] = [on |-> on, mode |-> IF on THEN mode ELSE live[o].mode,
                                       heard |-> live[o].heard]]
             there == Laid(layout)
             stay == [i \in DOMAIN layout |-> [layout[i] EXCEPT !.x = there[layout[i].out]]]
             lay == IF on THEN With(stay, o, x) ELSE Without(stay, o)
         IN  /\ live' = l
             /\ layout' = lay
             /\ wished' = [wished EXCEPT ![o] = [on |-> on, mode |-> Or(l[o].mode, @.mode)]]
             /\ spoiled' = IF l[o].mode = None THEN spoiled ELSE spoiled \ {o}
             /\ Sees(lay)
             /\ Save(Synced(table, l, lay), count, ws)
    /\ UNCHANGED <<up, forced, count, ws>>

SetWorkspace(w) ==
    /\ Running
    /\ Normalized(w, count) # ws
    /\ Happens
    /\ ws' = Normalized(w, count)
    /\ Save(Synced(table, live, layout), count, ws')
    /\ UNCHANGED <<up, forced, live, layout, count, wished, seen, spoiled>>

-----------------------------------------------------------------------------
\* A file from an earlier run or written by hand, or none
HandWritten ==
    [count : Counts \cup {None}, ws : {None, Default},
     outs : {<<>>} \cup UNION {[{o} -> [on : {FALSE, None}, x : {None}, mode : {Mode, None},
                                        was : {FALSE}]] : o \in Outputs}]

Init ==
    /\ up = FALSE
    /\ forced = FALSE
    /\ live = [o \in Outputs |-> None]
    /\ layout = <<>>
    /\ table = <<>>
    /\ count = Default
    /\ ws = 1
    /\ tmp = None
    /\ path \in {None} \cup HandWritten
    /\ synced = TRUE
    /\ disk = path
    /\ events = 0
    /\ wished = [o \in Outputs |-> None]
    /\ seen = [o \in Outputs |-> None]
    /\ spoiled = {}
    /\ unsaved = TRUE

Next ==
    \/ Start \/ Stop \/ PowerCut
    \/ SyncTmp \/ RenameTmp \/ SaveFails
    \/ \E o \in Outputs :
         Plug(o) \/ Unplug(o) \/ UnplugUnheard(o) \/ OutputManagerApply(o)
    \/ \E w \in 1..Default : SetWorkspace(w)

Spec == Init /\ [][Next]_vars

-----------------------------------------------------------------------------
\* Properties

Setting(e) == [on |-> e.on, mode |-> e.mode]

\* TypeOK: the shape of the state, and the workspace shown is one of those there
\* are, whatever the file and the environment say.
TypeOK ==
    /\ {up, forced, synced, unsaved} \subseteq BOOLEAN
    /\ ws \in 1..count /\ count \in Counts \cup {Default}
    /\ \A o \in Plugged(live) : live[o].on => \E i \in DOMAIN layout : layout[i].out = o
    /\ \A i \in DOMAIN layout : live[layout[i].out] # None
    /\ DOMAIN table \subseteq Outputs /\ spoiled \subseteq Outputs
    /\ tmp # None => up
    /\ events \in 0..MaxEvents

\* FileWhole: whatever stops the compositor or the machine, and whenever, the name
\* leads to a complete file (aswl_state_save: fsync, then rename).
FileWhole == path # Torn /\ disk # Torn

\* FileCurrent: after a save that succeeded and until the next change, the file says
\* of every output that is there where it is, and of every output, also of those
\* unplugged long ago, what the user last made of it; except of one that could
\* not be set up so and was noted as it came up instead.
FileCurrent ==
    Running /\ ~unsaved =>
        /\ \A o \in DOMAIN Laid(layout) : path.outs[o].x = Laid(layout)[o]
        /\ \A o \in DOMAIN path.outs \ spoiled : Setting(path.outs[o]) = wished[o]
        /\ path.ws = ws

\* Consistent: memory and file, each whole and agreeing with the other.
Consistent == TypeOK /\ FileWhole /\ FileCurrent

\* EntriesKept: no save and no start loses what is known of an output that is not
\* there; only a power cut brings an older file back.
EntriesKept ==
    [][path # None /\ ~PowerCut => DOMAIN path.outs \subseteq DOMAIN path'.outs]_vars

\* Restored: an output that is unplugged and comes back, or is found at the next
\* start, is on or off and in the mode that the user, or else the file, last gave
\* it; unless it could not be set up so, was offered without that mode, or the
\* environment forced a size.
Restored ==
    \A o \in Plugged(live) \ spoiled : Setting(live[o]) = wished[o]

\* PlacedBack: an output that comes back, in this run or a later one, is put where
\* it last was, also if others moved when it left.  One that never was anywhere
\* does not land on another; unless an earlier save has made up a position for it
\* (Invented): then it is put at 0, whatever is there.
Invented(o) == o \in DOMAIN table /\ table[o].x # None /\ ~table[o].was

PlacedBack ==
    [][\A o \in Outputs :
         LET there == Laid(layout')
         IN  live[o] = None /\ o \in DOMAIN there /\ ~forced
             => IF seen[o] # None THEN there[o] = seen[o]
                ELSE IF Invented(o) THEN there[o] = 0
                ELSE \A p \in DOMAIN there \ {o} : there[p] # there[o]]_vars
=============================================================================
