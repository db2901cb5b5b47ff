---------------------------- MODULE StateFileProofs ----------------------------
(***************************************************************************)
(* Proofs about module StateFile, for every set of outputs.                *)
(***************************************************************************)
EXTENDS StateFile, FiniteSetTheorems, TLAPS

Live == [on : BOOLEAN, mode : {Preferred, Mode, None}, heard : BOOLEAN]
IsEntry(e) == e.on \in BOOLEAN \cup {None} /\ e.mode \in {Preferred, Mode, None}
IsTable(t) == DOMAIN t \subseteq Outputs /\ \A o \in DOMAIN t : IsEntry(t[o])
IsFile(f) == f = None \/ f = Torn \/ IsTable(f.outs)

Typed ==
    /\ live \in [Outputs -> Live \cup {None}]
    /\ \A o \in Plugged(live) \ spoiled : live[o].mode # None
    /\ IsTable(table)
    /\ IsFile(path) /\ IsFile(disk)
    /\ tmp # None => IsTable(tmp.body.outs)
    /\ up => wished = [o \in Outputs |-> wished[o]]
    /\ ~up => Plugged(live) = {} /\ tmp = None

\* What the table says of an output, as it would be applied to it.
Known(t, o) == Setting(Written(IF o \in DOMAIN t THEN t[o] ELSE Unknown))

\* The table says what was wished of every output that could be set up so.
Agrees == up => \A o \in Outputs \ spoiled : wished[o] = Known(table, o)

(***************************************************************************)
(* The inductive invariant.  That outputs are as they were wished is       *)
(* inductive only together with the table saying so of those that are not  *)
(* there: it decides what they will be when they come.                     *)
(***************************************************************************)
IInv == Typed /\ Agrees /\ Restored

-----------------------------------------------------------------------------
\* A line that is written names an output's state and mode.
LEMMA WrittenTyped ==
    ASSUME NEW t, IsTable(t)
    PROVE  IsTable([o \in DOMAIN t |-> Written(t[o])])
<1> SUFFICES ASSUME NEW o \in DOMAIN t
             PROVE  IsEntry(Written(t[o]))
  BY DEF IsTable
<1> QED
  BY DEF IsTable, IsEntry, Written, Or

\* After a synchronisation with the outputs l that are there the table says of
\* each what it is, and of the others what it said before.
LEMMA SyncedSays ==
    ASSUME NEW t, NEW l \in [Outputs -> Live \cup {None}], NEW lay, IsTable(t)
    PROVE  /\ IsTable(Synced(t, l, lay))
           /\ \A o \in Outputs :
                /\ l[o] = None => Known(Synced(t, l, lay), o) = Known(t, o)
                /\ l[o] # None /\ l[o].mode # None => Known(Synced(t, l, lay), o) = Setting(l[o])
<1> DEFINE s == Synced(t, l, lay)
<1>1. DOMAIN s = DOMAIN t \cup Plugged(l)
  BY DEF Synced
<1>2. ASSUME NEW o \in Outputs, l[o] = None
      PROVE  /\ o \in DOMAIN s <=> o \in DOMAIN t
             /\ o \in DOMAIN t => s[o] = t[o]
  BY <1>1, <1>2 DEF Synced, Plugged
<1>3. ASSUME NEW o \in Outputs, l[o] # None
      PROVE  /\ o \in DOMAIN s /\ s[o].on = l[o].on
             /\ s[o].mode \in {l[o].mode, Preferred, Mode, None}
             /\ l[o].mode # None => s[o].mode = l[o].mode
  <2> DEFINE known == IF o \in DOMAIN t THEN t[o] ELSE Unknown
  <2>1. o \in Plugged(l)
    BY <1>3 DEF Plugged
  <2>2. known.mode \in {Preferred, Mode, None}
    BY DEF IsTable, IsEntry, Unknown
  <2>3. s[o].on = l[o].on /\ s[o].mode = Or(l[o].mode, known.mode)
    BY <1>3, <2>1 DEF Synced, Noted
  <2> HIDE DEF s, known
  <2> QED
    BY <1>1, <2>1, <2>2, <2>3 DEF Or
<1>4. IsTable(s)
  <2> SUFFICES ASSUME NEW o \in DOMAIN s
               PROVE  o \in Outputs /\ IsEntry(s[o])
    BY DEF IsTable
  <2>1. o \in Outputs
    BY <1>1 DEF IsTable, Plugged
  <2>2. CASE l[o] = None
    BY <1>2, <2>1, <2>2 DEF IsTable
  <2>3. CASE l[o] # None
    BY <1>3, <2>1, <2>3 DEF IsEntry, Live
  <2> QED
    BY <2>1, <2>2, <2>3
<1>5. ASSUME NEW o \in Outputs
      PROVE  /\ l[o] = None => Known(s, o) = Known(t, o)
             /\ l[o] # None /\ l[o].mode # None => Known(s, o) = Setting(l[o])
  <2>1. CASE l[o] = None
    BY <1>2, <2>1 DEF Known
  <2>2. CASE l[o] # None /\ l[o].mode # None
    <3>1. l[o].on \in BOOLEAN /\ l[o].mode \in {Preferred, Mode}
      BY <2>2 DEF Live
    <3>2. Or(s[o].on, TRUE) = l[o].on /\ Or(s[o].mode, Preferred) = l[o].mode
      BY <1>3, <2>2, <3>1, StateFileAssumption DEF Or
    <3> QED
      BY <1>3, <2>2, <3>2 DEF Known, Written, Setting
  <2> QED
    BY <2>1, <2>2
<1> HIDE DEF s
<1> QED
  BY <1>4, <1>5 DEF s

\* What an output is asked to be when it comes is what was wished of it, unless a
\* size is forced or the mode is not offered.
LEMMA AskedWished ==
    ASSUME IInv, up, NEW o \in Outputs,
           NEW modes \in {{Preferred}, {Preferred, Mode}}
    PROVE  /\ Asked(o, modes).on \in BOOLEAN
           /\ Asked(o, modes).mode \in {Preferred, Mode}
           /\ o \notin spoiled /\ ~forced /\ wished[o].mode \in modes
              => Asked(o, modes) = wished[o]
<1> USE StateFileAssumption
<1>0. o \notin spoiled => wished[o] = Known(table, o)
  BY DEF IInv, Agrees
<1>1. CASE forced
  <2>1. Asked(o, modes) = [on |-> TRUE, mode |-> Mode]
    BY <1>1, Zenon DEF Asked
  <2> QED
    BY <1>1, <2>1
<1>2. CASE ~forced /\ o \notin DOMAIN table
  <2>1. Asked(o, modes) = [on |-> TRUE, mode |-> Preferred]
    BY <1>2 DEF Asked
  <2>2. Known(table, o) = [on |-> TRUE, mode |-> Preferred]
    BY <1>2 DEF Known, Unknown, Written, Or, Setting
  <2>3. TRUE \in BOOLEAN /\ Preferred \in {Preferred, Mode}
    OBVIOUS
  <2>4. o \notin spoiled => Asked(o, modes) = wished[o]
    BY <1>0, <2>1, <2>2
  <2>5. Asked(o, modes).on = TRUE /\ Asked(o, modes).mode = Preferred
    BY <2>1
  <2> QED
    BY <2>3, <2>4, <2>5
<1>3. CASE ~forced /\ o \in DOMAIN table
  <2>1. IsEntry(table[o])
    BY <1>3 DEF IInv, Typed, IsTable
  <2>2. Asked(o, modes) = [on |-> Or(table[o].on, TRUE),
                           mode |-> IF table[o].mode \in modes THEN table[o].mode ELSE Preferred]
    BY <1>3 DEF Asked
  <2>3. Known(table, o) = [on |-> Or(table[o].on, TRUE), mode |-> Or(table[o].mode, Preferred)]
    BY <1>3 DEF Known, Written, Setting
  <2>4. Or(table[o].on, TRUE) \in BOOLEAN
    BY <2>1, Zenon DEF IsEntry, Or
  <2>5. ASSUME Or(table[o].mode, Preferred) \in modes
        PROVE  (IF table[o].mode \in modes THEN table[o].mode ELSE Preferred)
               = Or(table[o].mode, Preferred)
    BY <2>1, <2>5 DEF IsEntry, Or
  <2>6. (IF table[o].mode \in modes THEN table[o].mode ELSE Preferred) \in {Preferred, Mode}
    OBVIOUS
  <2>7. ASSUME o \notin spoiled, wished[o].mode \in modes
        PROVE  Asked(o, modes) = wished[o]
    <3>1. wished[o] = [on |-> Or(table[o].on, TRUE), mode |-> Or(table[o].mode, Preferred)]
      BY <1>0, <2>3, <2>7
    <3>2. wished[o].mode = Or(table[o].mode, Preferred)
      BY <3>1
    <3> QED
      BY <2>2, <2>5, <2>7, <3>1, <3>2
  <2>8. /\ Asked(o, modes).on = Or(table[o].on, TRUE)
        /\ Asked(o, modes).mode
           = (IF table[o].mode \in modes THEN table[o].mode ELSE Preferred)
    BY <2>2
  <2>9. Asked(o, modes).on \in BOOLEAN
    BY <2>4, <2>8, Zenon
  <2>10. Asked(o, modes).mode \in {Preferred, Mode}
    BY <2>6, <2>8, Zenon
  <2> QED
    BY <2>7, <2>9, <2>10
<1> QED
  BY <1>1, <1>2, <1>3

-----------------------------------------------------------------------------
\* Steps

\* A handler that saves: those that are there are then as is wished of them, and
\* of the others nothing else is wished than before.
LEMMA SavingStep ==
    ASSUME IInv, up, up',
           NEW l \in [Outputs -> Live \cup {None}], NEW lay, NEW c, NEW w,
           live' = l, Save(Synced(table, l, lay), c, w),
           wished' = [o \in Outputs |-> wished'[o]],
           \A o \in Outputs \ spoiled' :
              IF l[o] = None THEN o \notin spoiled /\ wished'[o] = wished[o]
                             ELSE l[o].mode # None /\ wished'[o] = Setting(l[o])
    PROVE  IInv'
<1> DEFINE s == Synced(table, l, lay)
<1>1. IsTable(table)
  BY DEF IInv, Typed
<1>2. /\ IsTable(s)
      /\ \A o \in Outputs :
           /\ l[o] = None => Known(s, o) = Known(table, o)
           /\ l[o] # None /\ l[o].mode # None => Known(s, o) = Setting(l[o])
  BY <1>1, SyncedSays
<1>3. table' = s /\ tmp' = [body |-> Contents(s, c, w), synced |-> FALSE]
      /\ UNCHANGED <<path, disk>>
  BY DEF Save
<1>4. IsTable(Contents(s, c, w).outs)
  <2>1. IsTable([o \in DOMAIN s |-> Written(s[o])])
    BY <1>2, WrittenTyped
  <2>2. Contents(s, c, w).outs = [o \in DOMAIN s |-> Written(s[o])]
    BY DEF Contents
  <2> QED
    BY <2>1, <2>2
<1>5. IsTable(table') /\ IsTable(tmp'.body.outs)
  <2>1. tmp'.body = Contents(s, c, w)
    BY <1>3
  <2> QED
    BY <1>2, <1>3, <1>4, <2>1
<1>6. IsFile(path') /\ IsFile(disk')
  BY <1>3 DEF IInv, Typed
<1>7. Typed'
  BY <1>5, <1>6 DEF Typed, IsTable, IsFile, Plugged
<1>8. Agrees'
  <2> SUFFICES ASSUME NEW o \in Outputs \ spoiled'
               PROVE  wished'[o] = Known(s, o)
    BY <1>3 DEF Agrees, Known
  <2>1. CASE l[o] = None
    BY <1>2, <2>1 DEF IInv, Agrees
  <2>2. CASE l[o] # None
    BY <1>2, <2>2
  <2> QED
    BY <2>1, <2>2
<1>9. Restored'
  BY DEF Restored, Plugged
<1> QED
  BY <1>7, <1>8, <1>9 DEF IInv

\* The steps of a save change no output and no wish, and move files about.
LEMMA FileStep ==
    ASSUME IInv, UNCHANGED <<up, live, table, wished, spoiled>>,
           IsFile(path'), IsFile(disk'),
           tmp' = tmp \/ tmp' = None \/ (tmp # None /\ tmp'.body = tmp.body),
           ~up => tmp' = None
    PROVE  IInv'
<1>1. Typed'
  <2>1. tmp' # None => IsTable(tmp'.body.outs)
    BY DEF IInv, Typed
  <2> QED
    BY <2>1 DEF IInv, Typed, IsTable, IsFile, Plugged
<1>2. Agrees'
  BY DEF IInv, Agrees, Known
<1>3. Restored'
  BY DEF IInv, Typed, Restored, Plugged
<1> QED
  BY <1>1, <1>2, <1>3 DEF IInv

\* Nothing is there of a compositor that has stopped.
LEMMA StoppedStep ==
    ASSUME Stopped, IsFile(path'), IsFile(disk')
    PROVE  IInv'
<1>1. Plugged(live)' = {} /\ tmp' = None /\ ~up'
  BY DEF Stopped, Plugged
<1>2. Typed'
  <2>1. live' \in [Outputs -> Live \cup {None}]
    BY DEF Stopped
  <2>2. IsTable(table)'
    BY DEF Stopped, IsTable
  <2> QED
    BY <1>1, <2>1, <2>2 DEF Typed, IsFile
<1> QED
  BY <1>1, <1>2 DEF IInv, Agrees, Restored

\* What is wished after a start is what the file says.
LEMMA StartStep ==
    ASSUME IInv, Start
    PROVE  IInv'
<1>1. up' /\ ~up /\ UNCHANGED <<live, tmp, path, disk>> /\ path # Torn
  BY DEF Start, fs
<1>2. Plugged(live) = {} /\ tmp = None
  BY <1>1 DEF IInv, Typed
<1>3. IsTable(table')
  <2>1. CASE path = None
    BY <2>1 DEF Start, IsTable
  <2>2. CASE path # None
    BY <1>1, <2>2 DEF Start, IInv, Typed, IsFile
  <2> QED
    BY <2>1, <2>2
<1>4. wished' = [o \in Outputs |-> Known(table', o)]
  BY DEF Start, Known, Setting
<1>5. Typed'
  BY <1>1, <1>2, <1>3, <1>4 DEF IInv, Typed, IsTable, IsFile, Plugged
<1>6. Agrees'
  BY <1>4 DEF Agrees, Known
<1>7. Restored'
  BY <1>1, <1>2 DEF Restored, Plugged
<1> QED
  BY <1>5, <1>6, <1>7 DEF IInv

LEMMA PlugAsStep ==
    ASSUME IInv, up, up', NEW o \in Outputs, live[o] = None, wished' = wished,
           NEW setting, setting.on \in BOOLEAN, setting.mode \in {Preferred, Mode},
           NEW otherwise \in BOOLEAN, PlugAs(o, setting, otherwise),
           o \notin spoiled /\ ~otherwise => Setting(setting) = wished[o]
    PROVE  IInv'
<1> DEFINE r == [on |-> setting.on, mode |-> setting.mode, heard |-> TRUE]
           l == [live EXCEPT ![o] = r]
           lay == IF setting.on THEN With(layout, o, Place(o)) ELSE layout
<1>1. r \in Live /\ r # None
  <2>1. r \in Live
    BY DEF Live
  <2> QED
    BY <2>1, StateFileAssumption DEF Live
<1>2. l \in [Outputs -> Live \cup {None}]
  BY <1>1 DEF IInv, Typed
<1>3. live' = l /\ Save(Synced(table, l, lay), count, ws)
  BY DEF PlugAs
<1>4. Setting(r) = Setting(setting)
  BY DEF Setting
<1>5. spoiled' = IF otherwise THEN spoiled \cup {o} ELSE spoiled
  BY DEF PlugAs
<1>6. wished' = [p \in Outputs |-> wished'[p]]
  BY DEF IInv, Typed
<1>7. ASSUME NEW p \in Outputs \ spoiled'
      PROVE  IF l[p] = None THEN p \notin spoiled /\ wished'[p] = wished[p]
                            ELSE l[p].mode # None /\ wished'[p] = Setting(l[p])
  <2>0. p \notin spoiled
    BY <1>5
  <2>1. CASE p = o
    <3>1. ~otherwise
      BY <1>5, <2>1
    <3>2. l[p] = r
      BY <2>1 DEF IInv, Typed
    <3>3. r.mode # None
      BY StateFileAssumption
    <3> QED
      BY <1>1, <1>4, <2>0, <2>1, <3>1, <3>2, <3>3
  <2>2. CASE p # o
    <3>1. l[p] = live[p]
      BY <2>2 DEF IInv, Typed
    <3>2. CASE live[p] = None
      BY <2>0, <3>1, <3>2
    <3>3. CASE live[p] # None
      BY <2>0, <3>1, <3>3 DEF IInv, Typed, Restored, Plugged
    <3> QED
      BY <3>2, <3>3
  <2> QED
    BY <2>1, <2>2
<1> HIDE DEF l, lay
<1> QED
  BY <1>2, <1>3, <1>6, <1>7, SavingStep

LEMMA PlugStep ==
    ASSUME IInv, NEW o \in Outputs, Plug(o)
    PROVE  IInv'
<1>1. up /\ up' /\ live[o] = None /\ wished' = wished
  BY DEF Plug, Running
<1>2. ASSUME NEW modes \in {{Preferred}, {Preferred, Mode}},
             PlugAs(o, Asked(o, modes), forced \/ wished[o].mode \notin modes)
      PROVE  IInv'
  <2> DEFINE otherwise == (forced \/ wished[o].mode \notin modes)
             asked == Asked(o, modes)
  <2>1. asked.on \in BOOLEAN /\ asked.mode \in {Preferred, Mode}
    BY <1>1, AskedWished
  <2>2. ASSUME o \notin spoiled, ~otherwise
        PROVE  Setting(asked) = wished[o]
    <3>1. asked = wished[o]
      BY <1>1, <2>2, AskedWished
    <3>2. wished[o] = Known(table, o)
      BY <1>1, <2>2 DEF IInv, Agrees
    <3> QED
      BY <3>1, <3>2 DEF Known, Setting
  <2>3. PlugAs(o, asked, otherwise) /\ otherwise \in BOOLEAN
    BY <1>2
  <2> HIDE DEF otherwise, asked
  <2> QED
    BY <1>1, <2>1, <2>2, <2>3, PlugAsStep
<1>3. CASE PlugAs(o, [on |-> TRUE, mode |-> Preferred], TRUE)
  <2> DEFINE default == [on |-> TRUE, mode |-> Preferred]
             otherwise == TRUE
  <2>1. default.on \in BOOLEAN /\ default.mode \in {Preferred, Mode}
    OBVIOUS
  <2>2. PlugAs(o, default, otherwise) /\ otherwise \in BOOLEAN
    BY <1>3
  <2>3. o \notin spoiled /\ ~otherwise => Setting(default) = wished[o]
    OBVIOUS
  <2> HIDE DEF default, otherwise
  <2> QED
    BY <1>1, <2>1, <2>2, <2>3, PlugAsStep
<1>4. CASE PlugFails(o)
  <2> DEFINE r == [on |-> FALSE, mode |-> None, heard |-> FALSE]
  <2>1. r \in Live
    BY DEF Live
  <2>2. live' = [live EXCEPT ![o] = r] /\ spoiled' = spoiled \cup {o}
        /\ UNCHANGED <<table, tmp, path, disk>>
    BY <1>4 DEF PlugFails, Unsaving, fs
  <2>3. Typed'
    <3>1. live' \in [Outputs -> Live \cup {None}]
      BY <2>1, <2>2 DEF IInv, Typed
    <3>2. \A p \in Plugged(live') \ spoiled' : live'[p].mode # None
      BY <2>2 DEF IInv, Typed, Plugged
    <3> QED
      BY <1>1, <2>2, <3>1, <3>2 DEF IInv, Typed, IsTable, IsFile
  <2>4. Agrees'
    BY <1>1, <2>2 DEF IInv, Agrees, Known
  <2>5. Restored'
    BY <1>1, <2>2 DEF IInv, Typed, Restored, Plugged
  <2> QED
    BY <2>3, <2>4, <2>5 DEF IInv
<1> QED
  BY <1>2, <1>3, <1>4 DEF Plug

LEMMA UnplugStep ==
    ASSUME IInv, NEW o \in Outputs, Unplug(o)
    PROVE  IInv'
<1> DEFINE l == [live EXCEPT ![o] = None]
<1>1. up /\ up' /\ live' = l /\ wished' = wished /\ spoiled' = spoiled
  BY DEF Unplug, Running
<1>2. l \in [Outputs -> Live \cup {None}]
  BY DEF IInv, Typed
<1>3. Save(Synced(table, l, layout'), count, ws)
  BY <1>1 DEF Unplug
<1>4. wished' = [p \in Outputs |-> wished'[p]]
  BY <1>1 DEF IInv, Typed
<1>5. ASSUME NEW p \in Outputs \ spoiled'
      PROVE  IF l[p] = None THEN p \notin spoiled /\ wished'[p] = wished[p]
                            ELSE l[p].mode # None /\ wished'[p] = Setting(l[p])
  <2>1. CASE l[p] = None
    BY <1>1, <2>1
  <2>2. CASE l[p] # None
    <3>1. l[p] = live[p]
      BY <2>2 DEF IInv, Typed
    <3> QED
      BY <1>1, <2>2, <3>1 DEF IInv, Typed, Restored, Plugged
  <2> QED
    BY <2>1, <2>2
<1> HIDE DEF l
<1> QED
  BY <1>1, <1>2, <1>3, <1>4, <1>5, SavingStep

LEMMA ApplyStep ==
    ASSUME IInv, NEW o \in Outputs, OutputManagerApply(o)
    PROVE  IInv'
<1>1. up /\ up' /\ live[o] # None
  BY DEF OutputManagerApply, Running
<1>0. PICK on \in BOOLEAN, mode \in {Preferred, Mode} :
        \E lay :
          /\ live' = [live EXCEPT ![o] = [on |-> on, mode |-> IF on THEN mode ELSE live[o].mode,
                                          heard |-> live[o].heard]]
          /\ wished' = [wished EXCEPT ![o] = [on |-> on, mode |-> Or(live'[o].mode, @.mode)]]
          /\ spoiled' = IF live'[o].mode = None THEN spoiled ELSE spoiled \ {o}
          /\ Save(Synced(table, live', lay), count, ws)
  BY ZenonT(60) DEF OutputManagerApply
<1>2. PICK lay :
        /\ live' = [live EXCEPT ![o] = [on |-> on, mode |-> IF on THEN mode ELSE live[o].mode,
                                        heard |-> live[o].heard]]
        /\ wished' = [wished EXCEPT ![o] = [on |-> on, mode |-> Or(live'[o].mode, @.mode)]]
        /\ spoiled' = IF live'[o].mode = None THEN spoiled ELSE spoiled \ {o}
        /\ Save(Synced(table, live', lay), count, ws)
  BY <1>0
<1> DEFINE r == [on |-> on, mode |-> IF on THEN mode ELSE live[o].mode,
                heard |-> live[o].heard]
           l == [live EXCEPT ![o] = r]
<1>3. live' = l
  BY <1>2
<1>4. live[o] \in Live
  BY <1>1 DEF IInv, Typed
<1>5. r \in Live /\ r.on = on
  BY <1>4 DEF Live
<1>6. r # None
  BY <1>5, StateFileAssumption DEF Live
<1>7. l \in [Outputs -> Live \cup {None}] /\ l[o] = r
  BY <1>5 DEF IInv, Typed
<1>8. wished' = [p \in Outputs |-> wished'[p]]
  BY <1>1, <1>2 DEF IInv, Typed
<1>9. ASSUME NEW p \in Outputs \ spoiled'
      PROVE  IF l[p] = None THEN p \notin spoiled /\ wished'[p] = wished[p]
                            ELSE l[p].mode # None /\ wished'[p] = Setting(l[p])
  <2>1. CASE p = o
    <3>0. r.mode # None
      <4> SUFFICES ASSUME r.mode = None PROVE FALSE
        OBVIOUS
      <4>1. spoiled' = spoiled
        BY <1>2, <1>3, <1>7
      <4>2. live[o].mode # None
        BY <1>1, <2>1, <4>1 DEF IInv, Typed, Plugged
      <4>3. mode # None
        BY StateFileAssumption
      <4> QED
        BY <4>2, <4>3
    <3>1. wished'[o] = [on |-> on, mode |-> r.mode]
      BY <1>1, <1>2, <1>3, <1>7, <3>0 DEF IInv, Typed, Or
    <3> QED
      BY <1>5, <1>6, <1>7, <2>1, <3>0, <3>1 DEF Setting
  <2>2. CASE p # o
    <3>1. l[p] = live[p] /\ wished'[p] = wished[p] /\ p \notin spoiled
      BY <1>1, <1>2, <2>2 DEF IInv, Typed
    <3>2. CASE live[p] = None
      BY <3>1, <3>2
    <3>3. CASE live[p] # None
      BY <3>1, <3>3 DEF IInv, Typed, Restored, Plugged
    <3> QED
      BY <3>2, <3>3
  <2> QED
    BY <2>1, <2>2
<1>10. Save(Synced(table, l, lay), count, ws)
  BY <1>2, <1>3
<1> HIDE DEF l
<1> QED
  BY <1>1, <1>3, <1>7, <1>8, <1>9, <1>10, SavingStep

LEMMA SetWorkspaceStep ==
    ASSUME IInv, NEW w, SetWorkspace(w)
    PROVE  IInv'
<1>1. up /\ up' /\ live' = live /\ wished' = wished /\ spoiled' = spoiled
      /\ Save(Synced(table, live, layout), count, ws')
  BY DEF SetWorkspace, Running
<1>2. live \in [Outputs -> Live \cup {None}] /\ wished' = [p \in Outputs |-> wished'[p]]
  BY <1>1 DEF IInv, Typed
<1>3. \A p \in Outputs \ spoiled' :
        IF live[p] = None THEN p \notin spoiled /\ wished'[p] = wished[p]
                          ELSE live[p].mode # None /\ wished'[p] = Setting(live[p])
  BY <1>1 DEF IInv, Typed, Restored, Plugged
<1> QED
  BY <1>1, <1>2, <1>3, SavingStep

-----------------------------------------------------------------------------
LEMMA Initially ==
    ASSUME Init
    PROVE  IInv
<1>1. path \in {None} \cup HandWritten /\ disk = path /\ ~up /\ tmp = None
  BY DEF Init
<1>2. IsFile(path)
  <2>1. ASSUME NEW f \in HandWritten
        PROVE  IsTable(f.outs)
    <3>1. CASE f.outs = <<>>
      BY <3>1 DEF IsTable
    <3>2. CASE f.outs # <<>>
      <4>1. PICK o \in Outputs :
              f.outs \in [{o} -> [on : {FALSE, None}, x : {None}, mode : {Mode, None}, was : {FALSE}]]
        BY <3>2 DEF HandWritten
      <4>2. f.outs[o].on \in {FALSE, None} /\ f.outs[o].mode \in {Mode, None}
        BY <4>1
      <4>3. IsEntry(f.outs[o])
        BY <4>2 DEF IsEntry
      <4> QED
        BY <4>1, <4>3 DEF IsTable
    <3> QED
      BY <3>1, <3>2
  <2> QED
    BY <1>1, <2>1 DEF IsFile
<1>3. live \in [Outputs -> Live \cup {None}] /\ Plugged(live) = {}
  BY DEF Init, Plugged
<1>4. IsTable(table)
  BY DEF Init, IsTable
<1> QED
  BY <1>1, <1>2, <1>3, <1>4 DEF IInv, Typed, Agrees, Restored

LEMMA Inductive ==
    ASSUME IInv, [Next]_vars
    PROVE  IInv'
<1>1. IsFile(path) /\ IsFile(disk)
  BY DEF IInv, Typed
<1>2. CASE Start
  BY <1>2, StartStep
<1>3. CASE Stop
  BY <1>1, <1>3, StoppedStep DEF Stop
<1>4. CASE PowerCut
  <2>1. IsFile(path') /\ disk' = path'
    BY <1>1, <1>4 DEF PowerCut, IsFile
  <2> QED
    BY <1>4, <2>1, StoppedStep DEF PowerCut
<1>5. CASE SyncTmp
  BY <1>1, <1>5, FileStep DEF SyncTmp, IInv, Typed
<1>6. CASE RenameTmp
  <2>1. path' = tmp.body /\ IsTable(tmp.body.outs) /\ disk' \in {disk, path} /\ tmp' = None
    BY <1>6 DEF RenameTmp, Renamed, IInv, Typed
  <2>2. IsFile(path') /\ IsFile(disk')
    BY <1>1, <2>1 DEF IsFile
  <2> QED
    BY <1>6, <2>1, <2>2, FileStep DEF RenameTmp, Renamed
<1>7. CASE SaveFails
  BY <1>1, <1>7, FileStep DEF SaveFails
<1>8. ASSUME NEW o \in Outputs, UnplugUnheard(o)
      PROVE  IInv'
  BY <1>1, <1>8, StoppedStep DEF UnplugUnheard
<1>9. CASE UNCHANGED vars
  BY <1>1, <1>9, FileStep DEF vars, fs, IInv, Typed
<1> QED
  BY <1>2, <1>3, <1>4, <1>5, <1>6, <1>7, <1>8, <1>9,
     PlugStep, UnplugStep, ApplyStep, SetWorkspaceStep DEF Next

(***************************************************************************)
(* Whatever comes, goes, is reconfigured, fails to be saved or crashes, an *)
(* output that is there is on or off and in the mode that was last wished  *)
(* of it, but for those that could not be set up so (handle_new_output,    *)
(* aswl_output_persist_apply).                                             *)
(***************************************************************************)
THEOREM WishesRestored == Spec => []Restored
<1>1. Init => IInv
  BY Initially
<1>2. IInv /\ [Next]_vars => IInv'
  BY Inductive
<1>3. IInv => Restored
  BY DEF IInv
<1> QED
  BY <1>1, <1>2, <1>3, PTL DEF Spec

-----------------------------------------------------------------------------
(***************************************************************************)
(* While the compositor runs its table knows every output the file knows,  *)
(* and a save writes the whole table: with this no save can lose a line.   *)
(***************************************************************************)
Kept ==
    /\ up /\ path # None => DOMAIN path.outs \subseteq DOMAIN table
    /\ tmp # None => up /\ DOMAIN tmp.body.outs = DOMAIN table

LEMMA SavingKeeps ==
    ASSUME Kept, up, up', NEW l, NEW lay, NEW c, NEW w, Save(Synced(table, l, lay), c, w)
    PROVE  Kept' /\ path' = path
<1>1. DOMAIN table \subseteq DOMAIN table'
  BY DEF Save, Synced
<1>2. path' = path
  BY DEF Save
<1>3. DOMAIN tmp'.body.outs = DOMAIN table'
  BY DEF Save, Contents
<1> QED
  BY <1>1, <1>2, <1>3 DEF Kept

\* The steps keep Kept, and but for a power cut none takes a line from the file.
LEMMA KeepsEntries ==
    ASSUME Kept, [Next]_vars
    PROVE  /\ Kept'
           /\ path # None /\ ~PowerCut => DOMAIN path.outs \subseteq DOMAIN path'.outs
<1>1. ASSUME Stopped
      PROVE  Kept'
  BY <1>1 DEF Stopped, Kept
<1>2. ASSUME UNCHANGED <<up, table, path>>, tmp' = None \/ tmp' = tmp \/
             (tmp # None /\ tmp'.body = tmp.body)
      PROVE  Kept' /\ path' = path
  BY <1>2 DEF Kept
<1>3. CASE Start
  BY <1>3 DEF Start, fs, Kept
<1>4. CASE Stop
  BY <1>1, <1>4 DEF Stop
<1>5. CASE PowerCut
  BY <1>1, <1>5 DEF PowerCut
<1>6. CASE SyncTmp
  BY <1>2, <1>6 DEF SyncTmp
<1>7. CASE RenameTmp
  BY <1>7 DEF RenameTmp, Renamed, Kept
<1>8. CASE SaveFails
  BY <1>2, <1>8 DEF SaveFails
<1>9. ASSUME NEW o \in Outputs, Plug(o)
      PROVE  Kept' /\ path' = path
  <2>1. ASSUME NEW setting, NEW otherwise, PlugAs(o, setting, otherwise)
        PROVE  Kept' /\ path' = path
    <3>1. up /\ up'
      BY <1>9 DEF Plug, Running
    <3>2. PICK l, lay : Save(Synced(table, l, lay), count, ws)
      BY <2>1 DEF PlugAs
    <3> QED
      BY <3>1, <3>2, SavingKeeps
  <2>2. ASSUME PlugFails(o)
        PROVE  Kept' /\ path' = path
    BY <1>2, <1>9, <2>2 DEF Plug, PlugFails, Unsaving, fs
  <2> QED
    BY <1>9, <2>1, <2>2 DEF Plug
<1>10. ASSUME NEW o \in Outputs, Unplug(o)
       PROVE  Kept' /\ path' = path
  BY <1>10, SavingKeeps DEF Unplug, Running
<1>11. ASSUME NEW o \in Outputs, UnplugUnheard(o)
       PROVE  Kept' /\ path' = path
  BY <1>1, <1>11 DEF UnplugUnheard
<1>12. ASSUME NEW o \in Outputs, OutputManagerApply(o)
       PROVE  Kept' /\ path' = path
  <2>1. up /\ up'
    BY <1>12 DEF OutputManagerApply, Running
  <2>2. PICK l, lay : Save(Synced(table, l, lay), count, ws)
    BY <1>12 DEF OutputManagerApply
  <2> QED
    BY <2>1, <2>2, SavingKeeps
<1>13. ASSUME NEW w, SetWorkspace(w)
       PROVE  Kept' /\ path' = path
  BY <1>13, SavingKeeps DEF SetWorkspace, Running
<1>14. CASE UNCHANGED vars
  BY <1>2, <1>14 DEF vars, fs
<1> QED
  BY <1>3, <1>4, <1>5, <1>6, <1>7, <1>8, <1>9, <1>10, <1>11, <1>12, <1>13, <1>14
     DEF Next, Start, Stop, SyncTmp, SaveFails, fs

(***************************************************************************)
(* No save and no start loses what is known of an output that is not there *)
(* (aswl_output_persist_get, aswl_outputs_persist_sync_from_live).         *)
(***************************************************************************)
THEOREM EntriesAlwaysKept == Spec => EntriesKept
<1>1. Init => Kept
  BY DEF Init, Kept
<1>2. Kept /\ [Next]_vars => Kept'
  BY KeepsEntries
<1>3. Kept /\ [Next]_vars =>
        [path # None /\ ~PowerCut => DOMAIN path.outs \subseteq DOMAIN path'.outs]_vars
  BY KeepsEntries
<1> QED
  BY <1>1, <1>2, <1>3, PTL DEF Spec, EntriesKept

-----------------------------------------------------------------------------
(***************************************************************************)
(* Where outputs are: facts about the layout, which decides it.            *)
(***************************************************************************)
Spots == [out : Outputs, x : Nat \cup {None}]
OnceEach(lay) == \A i, j \in DOMAIN lay : lay[i].out = lay[j].out => i = j
IsLayout(lay) == lay \in Seq(Spots) /\ OnceEach(lay)
Outs(lay) == {lay[i].out : i \in DOMAIN lay}
KnownX(t, o) == IF o \in DOMAIN t /\ t[o].was THEN t[o].x ELSE None

\* A finite set of numbers that is not empty has a greatest: otherwise take a least
\* such set without one, and from that an element.
LEMMA Greatest ==
    ASSUME NEW S, S \subseteq Nat, IsFiniteSet(S), S # {}
    PROVE  Max(S) \in S /\ \A y \in S : Max(S) >= y
<1> DEFINE HasMax(T) == \E x \in T : \A y \in T : x >= y
           R == StrictSubsetOrdering(Nat)
           F == FiniteSubsetsOf(Nat)
           Bad == {T \in F : T # {} /\ ~HasMax(T)}
<1>1. IsWellFoundedOn(R, F)
  BY FS_StrictSubsetOrderingWellFounded
<1>2. Bad \subseteq F
  OBVIOUS
<1>3. ASSUME Bad # {} PROVE FALSE
  <2> HIDE DEF R, F
  <2>1. PICK T \in Bad : \A U \in Bad : ~(<<U, T>> \in R)
    BY <1>1, <1>2, <1>3, WFMin
  <2>2. T \subseteq Nat /\ IsFiniteSet(T) /\ T # {} /\ ~HasMax(T)
    BY DEF F, FiniteSubsetsOf
  <2>3. PICK x \in T : TRUE
    BY <2>2
  <2> DEFINE U == T \ {x}
  <2>4. IsFiniteSet(U) /\ U \subseteq Nat /\ U \subseteq T /\ U # T
    BY <2>2, <2>3, FS_RemoveElement
  <2>5. <<U, T>> \in R
    BY <2>2, <2>4 DEF R, StrictSubsetOrdering
  <2>6. U \notin Bad
    BY <2>1, <2>5
  <2>7. U = {} \/ HasMax(U)
    BY <2>4, <2>6 DEF F, FiniteSubsetsOf
  <2>8. CASE U = {}
    BY <2>2, <2>3, <2>8
  <2>9. CASE HasMax(U)
    <3>1. PICK m \in U : \A y \in U : m >= y
      BY <2>9
    <3>2. m \in Nat /\ x \in Nat /\ m \in T
      BY <2>2, <2>4
    <3>3. CASE m >= x
      BY <2>2, <3>1, <3>2, <3>3
    <3>4. CASE x > m
      <4>1. \A y \in T : x >= y
        BY <2>2, <3>1, <3>2, <3>4
      <4> QED
        BY <2>2, <4>1
    <3> QED
      BY <3>2, <3>3, <3>4
  <2> QED
    BY <2>7, <2>8, <2>9
<1>4. S \in F
  BY DEF FiniteSubsetsOf
<1>5. HasMax(S)
  BY <1>3, <1>4
<1> QED
  BY <1>5 DEF Max

\* Whatever has a place of its own is to the left of Right.
LEMMA RightOf ==
    ASSUME NEW lay, IsLayout(lay)
    PROVE  /\ Right(lay) \in Nat
           /\ \A i \in DOMAIN lay : lay[i].x # None => lay[i].x \in Nat /\ lay[i].x < Right(lay)
<1> DEFINE I == {i \in DOMAIN lay : lay[i].x # None}
           f == [i \in I |-> lay[i].x]
<1>1. DOMAIN lay = 1 .. Len(lay) /\ Len(lay) \in Nat
      /\ \A i \in DOMAIN lay : lay[i].x \in Nat \cup {None}
  <2>1. DOMAIN lay = 1 .. Len(lay) /\ Len(lay) \in Nat /\ lay \in Seq(Spots)
    BY DEF IsLayout
  <2>2. ASSUME NEW i \in DOMAIN lay PROVE lay[i].x \in Nat \cup {None}
    <3>1. lay[i] \in Spots
      BY <2>1
    <3> QED
      BY <3>1 DEF Spots
  <2> QED
    BY <2>1, <2>2
<1>2. IsFiniteSet(I)
  <2>1. IsFiniteSet(1 .. Len(lay))
    BY <1>1, FS_Interval
  <2> QED
    BY <1>1, <2>1, FS_Subset
<1>3. Fixed(lay) = {lay[i].x : i \in I}
  BY DEF Fixed
<1>4. Fixed(lay) \subseteq Nat
  BY <1>1, <1>3
<1>5. IsFiniteSet(Fixed(lay))
  <2>1. f \in Surjection(I, Fixed(lay))
    BY <1>3 DEF Surjection
  <2> HIDE DEF I, f
  <2> QED
    BY <1>2, <2>1, FS_Surjection
<1>6. CASE Fixed(lay) = {}
  <2>1. I = {}
    BY <1>3, <1>6
  <2> QED
    BY <1>6, <2>1 DEF Right
<1>7. CASE Fixed(lay) # {}
  <2>1. /\ Max(Fixed(lay)) \in Fixed(lay)
        /\ \A y \in Fixed(lay) : Max(Fixed(lay)) >= y
    BY <1>4, <1>5, <1>7, Greatest
  <2>2. Max(Fixed(lay)) \in Nat /\ Right(lay) = Max(Fixed(lay)) + 1
    BY <1>4, <1>7, <2>1 DEF Right
  <2>3. ASSUME NEW i \in DOMAIN lay, lay[i].x # None
        PROVE  lay[i].x \in Nat /\ lay[i].x < Right(lay)
    <3>1. lay[i].x \in Fixed(lay) /\ lay[i].x \in Nat
      BY <1>1, <1>3, <2>3
    <3> QED
      BY <2>1, <2>2, <3>1
  <2> QED
    BY <2>2, <2>3
<1> QED
  BY <1>6, <1>7

\* The outputs without a place of their own are counted from left to right.
LEMMA BeforeGrows ==
    ASSUME NEW lay, IsLayout(lay), NEW i \in DOMAIN lay
    PROVE  /\ Before(lay, i) \in Nat
           /\ \A j \in DOMAIN lay : i < j /\ lay[i].x = None => Before(lay, i) < Before(lay, j)
<1> DEFINE B(j) == {k \in 1 .. (j - 1) : lay[k].x = None}
<1>1. DOMAIN lay = 1 .. Len(lay) /\ Len(lay) \in Nat
  BY DEF IsLayout
<1>2. ASSUME NEW j \in DOMAIN lay
      PROVE  IsFiniteSet(B(j)) /\ Cardinality(B(j)) \in Nat /\ Before(lay, j) = Cardinality(B(j))
  <2>1. IsFiniteSet(1 .. (j - 1))
    BY <1>1, FS_Interval
  <2>2. IsFiniteSet(B(j))
    BY <2>1, FS_Subset
  <2> QED
    BY <2>2, FS_CardinalityType DEF Before
<1>3. ASSUME NEW j \in DOMAIN lay, i < j, lay[i].x = None
      PROVE  Before(lay, i) < Before(lay, j)
  <2>1. i \in B(j) /\ i \notin B(i) /\ B(i) \subseteq B(j)
    BY <1>1, <1>3
  <2>2. IsFiniteSet(B(i)) /\ Cardinality(B(i)) \in Nat /\ Before(lay, i) = Cardinality(B(i))
    BY <1>2
  <2>3. IsFiniteSet(B(j)) /\ Cardinality(B(j)) \in Nat /\ Before(lay, j) = Cardinality(B(j))
    BY <1>2
  <2> HIDE DEF B
  <2>4. Cardinality(B(i)) <= Cardinality(B(j))
        /\ (Cardinality(B(j)) = Cardinality(B(i)) => B(j) = B(i))
    BY <2>1, <2>3, FS_Subset
  <2> QED
    BY <2>1, <2>2, <2>3, <2>4
<1>4. Before(lay, i) \in Nat
  BY <1>2
<1> QED
  BY <1>3, <1>4

\* Everything in the layout is somewhere: where it was put, or to the right.
LEMMA LaidIs ==
    ASSUME NEW lay, IsLayout(lay)
    PROVE  /\ DOMAIN Laid(lay) = Outs(lay)
           /\ \A o \in Outs(lay) : Laid(lay)[o] \in Nat
           /\ \A i \in DOMAIN lay :
                Laid(lay)[lay[i].out] = IF lay[i].x = None THEN Right(lay) + Before(lay, i)
                                                           ELSE lay[i].x
<1>1. DOMAIN Laid(lay) = Outs(lay)
  BY DEF Laid, Outs
<1>2. ASSUME NEW i \in DOMAIN lay
      PROVE  /\ Laid(lay)[lay[i].out] = IF lay[i].x = None THEN Right(lay) + Before(lay, i)
                                                           ELSE lay[i].x
             /\ Laid(lay)[lay[i].out] \in Nat
  <2>1. IndexOf(lay, lay[i].out) = i
    BY DEF IndexOf, IsLayout, OnceEach
  <2>2. Laid(lay)[lay[i].out] = IF lay[i].x = None THEN Right(lay) + Before(lay, i)
                                                   ELSE lay[i].x
    BY <2>1 DEF Laid
  <2>3. Right(lay) \in Nat /\ Before(lay, i) \in Nat /\ (lay[i].x # None => lay[i].x \in Nat)
    BY RightOf, BeforeGrows
  <2> QED
    BY <2>2, <2>3
<1> QED
  BY <1>1, <1>2 DEF Outs

LEMMA WithIs ==
    ASSUME NEW lay, IsLayout(lay), NEW o \in Outputs, NEW x \in Nat \cup {None}
    PROVE  /\ IsLayout(With(lay, o, x))
           /\ Outs(With(lay, o, x)) = Outs(lay) \cup {o}
<1> DEFINE e == [out |-> o, x |-> x]
<1>1. e \in Spots /\ e.out = o
  BY DEF Spots
<1>2. DOMAIN lay = 1 .. Len(lay) /\ Len(lay) \in Nat /\ lay \in Seq(Spots)
  BY DEF IsLayout
<1> HIDE DEF e
<1>3. CASE IsIn(lay, o)
  <2> DEFINE w == [i \in DOMAIN lay |-> IF lay[i].out = o THEN e ELSE lay[i]]
  <2>1. With(lay, o, x) = w
    BY <1>3 DEF With, e
  <2>2. \A i \in 1 .. Len(lay) : (IF lay[i].out = o THEN e ELSE lay[i]) \in Spots
    BY <1>1, <1>2
  <2>3. w \in Seq(Spots)
    BY <1>2, <2>2
  <2>4. \A i \in DOMAIN lay : w[i].out = lay[i].out
    BY <1>1
  <2>5. DOMAIN w = DOMAIN lay
    OBVIOUS
  <2> HIDE DEF w
  <2>6. OnceEach(w)
    BY <2>4, <2>5 DEF OnceEach, IsLayout
  <2>7. Outs(w) = Outs(lay) /\ o \in Outs(lay)
    BY <1>3, <2>4, <2>5 DEF Outs, IsIn
  <2> QED
    BY <2>1, <2>3, <2>6, <2>7 DEF IsLayout
<1>4. CASE ~IsIn(lay, o)
  <2> DEFINE w == Append(lay, e)
             n == Len(lay)
  <2>1. With(lay, o, x) = w
    BY <1>4 DEF With, e
  <2>2. w \in Seq(Spots) /\ DOMAIN w = 1 .. n + 1 /\ w[n + 1] = e
        /\ \A i \in 1 .. n : w[i] = lay[i]
    BY <1>1, <1>2
  <2> HIDE DEF w
  <2>3. OnceEach(w)
    BY <1>1, <1>2, <1>4, <2>2 DEF OnceEach, IsLayout, IsIn
  <2>4. Outs(w) = Outs(lay) \cup {o}
    <3>1. \A i \in DOMAIN w : w[i].out \in Outs(lay) \cup {o}
      BY <1>1, <1>2, <2>2 DEF Outs
    <3>2. \A i \in DOMAIN lay : lay[i].out \in Outs(w)
      BY <1>2, <2>2 DEF Outs
    <3>3. o \in Outs(w)
      BY <1>1, <1>2, <2>2 DEF Outs
    <3> QED
      BY <3>1, <3>2, <3>3 DEF Outs
  <2> QED
    BY <2>1, <2>2, <2>3, <2>4 DEF IsLayout
<1> QED
  BY <1>3, <1>4

LEMMA WithoutIs ==
    ASSUME NEW lay, IsLayout(lay), NEW o
    PROVE  /\ IsLayout(Without(lay, o))
           /\ Outs(Without(lay, o)) = Outs(lay) \ {o}
<1>1. DOMAIN lay = 1 .. Len(lay) /\ Len(lay) \in Nat /\ lay \in Seq(Spots)
  BY DEF IsLayout
<1>2. CASE IsIn(lay, o)
  <2> DEFINE k == IndexOf(lay, o)
             n == Len(lay)
             w == [i \in 1 .. n - 1 |-> IF i < k THEN lay[i] ELSE lay[i + 1]]
  <2>1. k \in 1 .. n /\ lay[k].out = o
    BY <1>1, <1>2 DEF IndexOf, IsIn
  <2>2. Without(lay, o) = w
    BY <1>2 DEF Without
  <2> HIDE DEF k
  <2>3. \A i \in 1 .. n - 1 : (IF i < k THEN lay[i] ELSE lay[i + 1]) \in Spots
    BY <1>1, <2>1
  <2>4. w \in Seq(Spots)
    BY <1>1, <2>1, <2>3
  <2>5. DOMAIN w = 1 .. n - 1
        /\ \A i \in 1 .. n - 1 : w[i] = IF i < k THEN lay[i] ELSE lay[i + 1]
    OBVIOUS
  <2>6. n \in Nat
    BY <1>1
  <2> HIDE DEF w, n
  <2>7. DOMAIN lay = 1 .. n
    BY <1>1 DEF n
  <2>8. OnceEach(w)
    <3> DEFINE from(i) == IF i < k THEN i ELSE i + 1
    <3>1. ASSUME NEW i \in DOMAIN w PROVE from(i) \in DOMAIN lay /\ w[i] = lay[from(i)]
      BY <2>1, <2>5, <2>6, <2>7
    <3>2. ASSUME NEW i \in DOMAIN w, NEW j \in DOMAIN w, from(i) = from(j) PROVE i = j
      BY <2>1, <2>5, <2>6, <3>2
    <3> HIDE DEF from
    <3>3. ASSUME NEW i \in DOMAIN w, NEW j \in DOMAIN w, w[i].out = w[j].out PROVE i = j
      BY <3>1, <3>2, <3>3 DEF OnceEach, IsLayout
    <3> QED
      BY <3>3 DEF OnceEach
  <2>9. ASSUME NEW i \in DOMAIN w PROVE w[i].out \in Outs(lay) \ {o}
    <3>1. PICK j \in DOMAIN lay : j # k /\ w[i] = lay[j]
      BY <2>1, <2>5, <2>6, <2>7, SMTT(20)
    <3> QED
      BY <2>1, <2>7, <3>1 DEF Outs, OnceEach, IsLayout
  <2>10. ASSUME NEW j \in DOMAIN lay, lay[j].out # o PROVE lay[j].out \in Outs(w)
    <3>1. j # k
      BY <2>1, <2>10
    <3>2. CASE j < k
      <4>1. j \in DOMAIN w /\ w[j] = lay[j]
        BY <2>1, <2>5, <2>6, <2>7, <3>2
      <4> QED
        BY <4>1 DEF Outs
    <3>3. CASE j > k
      <4>1. j - 1 \in DOMAIN w /\ w[j - 1] = lay[j]
        BY <2>1, <2>5, <2>6, <2>7, <3>3
      <4> QED
        BY <4>1 DEF Outs
    <3> QED
      BY <2>1, <2>6, <2>7, <3>1, <3>2, <3>3
  <2>11. Outs(w) = Outs(lay) \ {o}
    BY <2>9, <2>10 DEF Outs
  <2> QED
    BY <2>2, <2>4, <2>8, <2>11 DEF IsLayout, w, n
<1>3. CASE ~IsIn(lay, o)
  <2>1. Without(lay, o) = lay
    BY <1>3 DEF Without
  <2>2. o \notin Outs(lay)
    BY <1>3 DEF IsIn, Outs
  <2> QED
    BY <2>1, <2>2
<1> QED
  BY <1>2, <1>3

\* Turning every output's place into one of its own, as a client that configures
\* them does, keeps who is in the layout.
LEMMA StayIs ==
    ASSUME NEW lay, IsLayout(lay)
    PROVE  LET stay == [i \in DOMAIN lay |-> [lay[i] EXCEPT !.x = Laid(lay)[lay[i].out]]]
           IN  IsLayout(stay) /\ Outs(stay) = Outs(lay)
<1> DEFINE spot(i) == [lay[i] EXCEPT !.x = Laid(lay)[lay[i].out]]
           stay == [i \in DOMAIN lay |-> spot(i)]
<1>1. DOMAIN lay = 1 .. Len(lay) /\ Len(lay) \in Nat /\ lay \in Seq(Spots)
  BY DEF IsLayout
<1>2. ASSUME NEW i \in DOMAIN lay
      PROVE  spot(i) \in Spots /\ spot(i).out = lay[i].out
  <2>1. lay[i] \in Spots
    BY <1>1
  <2>2. Laid(lay)[lay[i].out] \in Nat
    BY LaidIs DEF Outs
  <2> QED
    BY <2>1, <2>2 DEF Spots
<1> HIDE DEF spot
<1>3. stay \in Seq(Spots)
  <2>1. \A i \in 1 .. Len(lay) : spot(i) \in Spots
    BY <1>1, <1>2
  <2> QED
    BY <1>1, <2>1
<1>4. DOMAIN stay = DOMAIN lay /\ \A i \in DOMAIN lay : stay[i].out = lay[i].out
  BY <1>2
<1> HIDE DEF stay
<1>5. OnceEach(stay) /\ Outs(stay) = Outs(lay)
  BY <1>4 DEF OnceEach, IsLayout, Outs
<1> QED
  BY <1>3, <1>5 DEF IsLayout, stay, spot

\* A line of a table: a position that is not one that the output was at is not known
\* or made up.
LEMMA EntryIs ==
    ASSUME NEW e \in Entries
    PROVE  /\ e.on \in BOOLEAN \cup {None} /\ e.x \in Nat \cup {None}
           /\ e.mode \in {Preferred, Mode, None}
           /\ \/ e.was = TRUE /\ e.x \in Nat
              \/ e.was = FALSE /\ e.x \in {None, 0}
<1>1. CASE e \in EntriesOf(Nat, TRUE)
  <2>1. e.was = TRUE
    BY <1>1 DEF EntriesOf
  <2>2. e.on \in BOOLEAN \cup {None} /\ e.x \in Nat /\ e.mode \in {Preferred, Mode, None}
    BY <1>1 DEF EntriesOf
  <2> QED
    BY <2>1, <2>2
<1>2. CASE e \in EntriesOf({None, 0}, FALSE)
  <2>1. e.was = FALSE
    BY <1>2 DEF EntriesOf
  <2>2. e.on \in BOOLEAN \cup {None} /\ e.x \in {None, 0} /\ e.mode \in {Preferred, Mode, None}
    BY <1>2 DEF EntriesOf
  <2> QED
    BY <2>1, <2>2
<1> QED
  BY <1>1, <1>2 DEF Entries

\* After a synchronisation the table says where those in the layout are, and of the
\* others what it said.
LEMMA SyncedPlaces ==
    ASSUME NEW t \in Tables, NEW l \in [Outputs -> Live \cup {None}],
           NEW lay, IsLayout(lay), \A o \in Outs(lay) : l[o] # None
    PROVE  /\ Synced(t, l, lay) \in Tables
           /\ \A o \in Outs(lay) : /\ o \in DOMAIN Synced(t, l, lay)
                                   /\ Synced(t, l, lay)[o].x = Laid(lay)[o]
                                   /\ Synced(t, l, lay)[o].was
           /\ \A o \in Outputs \ Outs(lay) :
                KnownX(Synced(t, l, lay), o) = KnownX(t, o)
<1> DEFINE s == Synced(t, l, lay)
           known(o) == IF o \in DOMAIN t THEN t[o] ELSE Unknown
           entry(o) == IF l[o] = None THEN t[o]
                       ELSE Noted(known(o), l[o], o \in Outs(lay),
                                  IF o \in Outs(lay) THEN Laid(lay)[o] ELSE None)
<1>1. DOMAIN t \subseteq Outputs /\ \A o \in DOMAIN t : t[o] \in Entries
  BY DEF Tables
<1>2. Outs(lay) \subseteq Outputs
  <2>1. \A i \in DOMAIN lay : lay[i] \in Spots
    BY DEF IsLayout
  <2> QED
    BY <2>1 DEF Outs, Spots
<1>3. s = [o \in DOMAIN t \cup Plugged(l) |-> entry(o)]
  BY LaidIs DEF Synced
<1>4. ASSUME NEW o \in DOMAIN t \cup Plugged(l)
      PROVE  entry(o) \in Entries
  <2>1. CASE l[o] = None
    BY <1>1, <2>1 DEF Plugged
  <2>2. CASE l[o] # None
    <3>1. known(o) \in Entries
      BY <1>1 DEF Unknown, Entries, EntriesOf
    <3>2. l[o].on \in BOOLEAN /\ l[o].mode \in {Preferred, Mode, None}
      BY <1>1, <2>2 DEF Live, Plugged
    <3>3. o \in Outs(lay) => Laid(lay)[o] \in Nat
      BY LaidIs
    <3> HIDE DEF known
    <3> QED
      BY <2>2, <3>1, <3>2, <3>3 DEF Noted, Or, Entries, EntriesOf
  <2> QED
    BY <2>1, <2>2
<1>5. DOMAIN s = DOMAIN t \cup Plugged(l) /\ Plugged(l) \subseteq Outputs
  BY <1>3 DEF Plugged
<1>6. s \in Tables
  <2>1. s \in [DOMAIN t \cup Plugged(l) -> Entries]
    BY <1>3, <1>4
  <2> QED
    BY <1>1, <1>5, <2>1 DEF Tables
<1>7. ASSUME NEW o \in Outs(lay)
      PROVE  o \in DOMAIN s /\ s[o].x = Laid(lay)[o] /\ s[o].was
  <2>1. l[o] # None /\ o \in DOMAIN t \cup Plugged(l)
    BY <1>2, <1>7 DEF Plugged
  <2>2. s[o] = entry(o)
    BY <1>3, <2>1
  <2>3. s[o].x = Laid(lay)[o] /\ s[o].was = TRUE
    BY <1>7, <2>1, <2>2 DEF Noted
  <2> QED
    BY <1>5, <2>1, <2>3
<1>8. ASSUME NEW o \in Outputs \ Outs(lay)
      PROVE  KnownX(s, o) = KnownX(t, o)
  <2>1. CASE l[o] = None
    BY <1>3, <1>5, <2>1 DEF KnownX, Plugged
  <2>2. CASE l[o] # None
    <3>1. o \in DOMAIN s
      BY <1>5, <2>2 DEF Plugged
    <3>2. s[o] = entry(o)
      BY <1>3, <1>5, <3>1
    <3>3. s[o].x = known(o).x /\ s[o].was = known(o).was
      BY <1>8, <2>2, <3>2 DEF Noted
    <3>5. CASE o \in DOMAIN t
      <4>1. known(o) = t[o] /\ t[o].was \in BOOLEAN
        BY <1>1, <3>5, EntryIs
      <4> QED
        BY <3>1, <3>3, <3>5, <4>1 DEF KnownX
    <3>6. CASE o \notin DOMAIN t
      <4>1. known(o).was = FALSE
        BY <3>6 DEF Unknown
      <4> QED
        BY <3>1, <3>3, <3>6, <4>1 DEF KnownX
    <3> QED
      BY <3>5, <3>6
  <2> QED
    BY <2>1, <2>2
<1> HIDE DEF s
<1> QED
  BY <1>6, <1>7, <1>8 DEF s

\* What is written is a file, and so not one that is torn.
LEMMA ContentsTyped ==
    ASSUME NEW t \in Tables, NEW c \in Counts \cup {Default}, NEW w \in 1..c
    PROVE  Contents(t, c, w) \in Files
<1>1. DOMAIN t \in SUBSET Outputs /\ \A o \in DOMAIN t : t[o] \in Entries
  BY DEF Tables
<1>2. ASSUME NEW o \in DOMAIN t
      PROVE  Written(t[o]) \in Entries
  <2>1. /\ t[o].on \in BOOLEAN \cup {None} /\ t[o].x \in Nat \cup {None}
        /\ t[o].mode \in {Preferred, Mode, None} /\ t[o].was \in BOOLEAN
        /\ ~t[o].was => t[o].x \in {None, 0}
    BY <1>1, EntryIs
  <2>2. Or(t[o].on, TRUE) \in BOOLEAN
    BY <2>1, Zenon DEF Or
  <2>3. Or(t[o].x, 0) \in Nat /\ (~t[o].was => Or(t[o].x, 0) = 0)
    BY <2>1 DEF Or
  <2>4. Or(t[o].mode, Preferred) \in {Preferred, Mode}
    BY <2>1 DEF Or
  <2> QED
    BY <2>1, <2>2, <2>3, <2>4 DEF Written, Entries, EntriesOf
<1>3. [o \in DOMAIN t |-> Written(t[o])] \in [DOMAIN t -> Entries]
  BY <1>2
<1>4. [o \in DOMAIN t |-> Written(t[o])] \in Tables
  BY <1>1, <1>3 DEF Tables
<1>5. w \in Nat \ {0}
  BY StateFileAssumption
<1> QED
  BY <1>4, <1>5 DEF Contents, Files

-----------------------------------------------------------------------------
(***************************************************************************)
(* The inductive invariant of where outputs are and of what files say.  It *)
(* goes with IInv, of which it uses Typed, and IInv does not need it.  The *)
(* table says where everything in the layout is, and of the others where   *)
(* they last were; a save under way holds what the table says.             *)
(***************************************************************************)
Shape ==
    /\ up \in BOOLEAN /\ forced \in BOOLEAN /\ unsaved \in BOOLEAN /\ synced = TRUE
    /\ count \in Counts \cup {Default} /\ ws \in 1..count
    /\ events \in 0..MaxEvents /\ spoiled \subseteq Outputs
    /\ ~up => unsaved

LayoutOK ==
    /\ IsLayout(layout)
    /\ \A o \in Outs(layout) : live[o] # None
    /\ \A o \in Plugged(live) : live[o].on => o \in Outs(layout)

FilesOK ==
    /\ table \in Tables
    /\ path \in Files \cup {None} /\ disk \in Files \cup {None}
    /\ tmp # None => /\ tmp.body = Contents(table, count, ws) /\ tmp.synced \in BOOLEAN
                     /\ unsaved
    /\ tmp = None /\ ~unsaved => path = Contents(table, count, ws)

Noticed ==
    /\ \A o \in Outs(layout) :
         o \in DOMAIN table /\ table[o].x = Laid(layout)[o] /\ table[o].was
    /\ \A o \in Outputs : seen[o] = KnownX(table, o)

Whereabouts == Shape /\ LayoutOK /\ FilesOK /\ Noticed

LEMMA NormalizedTyped ==
    ASSUME NEW w \in Nat \ {0}, NEW c \in Counts \cup {Default}
    PROVE  Normalized(w, c) \in 1..c
<1>1. c \in Nat \ {0}
  BY StateFileAssumption
<1> QED
  BY <1>1 DEF Normalized

\* In the layout are outputs, known by their names.
LEMMA OutsTyped ==
    ASSUME NEW lay, IsLayout(lay)
    PROVE  Outs(lay) \subseteq Outputs
<1>1. \A i \in DOMAIN lay : lay[i] \in Spots
  BY DEF IsLayout
<1> QED
  BY <1>1 DEF Outs, Spots

\* Handlers that save keep what the table says of places.
LEMMA SavingNotices ==
    ASSUME Typed', Whereabouts, Shape', LayoutOK',
           Save(Synced(table, live', layout'), count', ws'),
           \A o \in Outputs : seen'[o] = IF o \in Outs(layout') THEN Laid(layout')[o] ELSE seen[o]
    PROVE  Whereabouts'
<1> DEFINE s == Synced(table, live', layout')
<1>1. /\ live' \in [Outputs -> Live \cup {None}] /\ IsLayout(layout')
      /\ \A o \in Outs(layout') : live'[o] # None
      /\ table \in Tables
  BY DEF Typed, LayoutOK, Whereabouts, FilesOK
<1>2. /\ s \in Tables
      /\ \A o \in Outs(layout') : o \in DOMAIN s /\ s[o].x = Laid(layout')[o] /\ s[o].was
      /\ \A o \in Outputs \ Outs(layout') : KnownX(s, o) = KnownX(table, o)
  BY <1>1, SyncedPlaces
<1>3. /\ table' = s /\ path' = path /\ disk' = disk /\ unsaved' = TRUE
      /\ tmp' = [body |-> Contents(s, count', ws'), synced |-> FALSE]
  BY DEF Save
<1> HIDE DEF s
<1>4. Noticed'
  <2>1. ASSUME NEW o \in Outputs PROVE seen'[o] = KnownX(table', o)
    <3>1. CASE o \in Outs(layout')
      BY <1>2, <1>3, <3>1 DEF KnownX
    <3>2. CASE o \notin Outs(layout')
      BY <1>2, <1>3, <3>2 DEF Whereabouts, Noticed
    <3> QED
      BY <3>1, <3>2
  <2> QED
    BY <1>2, <1>3, <2>1 DEF Noticed
<1>5. FilesOK'
  <2>1. tmp'.body = Contents(table', count', ws') /\ tmp'.synced \in BOOLEAN
    BY <1>3
  <2> QED
    BY <1>2, <1>3, <2>1 DEF Whereabouts, FilesOK
<1> QED
  BY <1>4, <1>5 DEF Whereabouts

\* The layout as it is seen; who is in it.
LEMMA SeesOuts ==
    ASSUME NEW lay, IsLayout(lay), Sees(lay)
    PROVE  \A o \in Outputs : seen'[o] = IF o \in Outs(lay) THEN Laid(lay)[o] ELSE seen[o]
BY LaidIs DEF Sees

LEMMA PlacesTyped ==
    ASSUME Whereabouts, NEW o \in Outputs
    PROVE  /\ Place(o) \in Nat \cup {None}
           /\ ~forced => Place(o) = IF seen[o] = None /\ Invented(o) THEN 0 ELSE seen[o]
<1>1. o \in DOMAIN table => /\ table[o].x \in Nat \cup {None} /\ table[o].was \in BOOLEAN
                            /\ table[o].was => table[o].x # None
                            /\ ~table[o].was => table[o].x \in {None, 0}
  <2>1. o \in DOMAIN table => table[o] \in Entries
    BY DEF Whereabouts, FilesOK, Tables
  <2> QED
    BY <2>1, EntryIs, StateFileAssumption
<1>2. seen[o] = KnownX(table, o)
  BY DEF Whereabouts, Noticed
<1> QED
  BY <1>1, <1>2 DEF Place, KnownX, Invented

LEMMA PlugAsNotices ==
    ASSUME IInv, Whereabouts, NEW o \in Outputs, live[o] = None, Typed', up, up' = up,
           UNCHANGED <<forced, count, ws>>, events' \in 0..MaxEvents,
           NEW setting, setting.on \in BOOLEAN, setting.mode \in {Preferred, Mode},
           NEW otherwise, PlugAs(o, setting, otherwise)
    PROVE  Whereabouts'
<1> DEFINE r == [on |-> setting.on, mode |-> setting.mode, heard |-> TRUE]
           l == [live EXCEPT ![o] = r]
           lay == IF setting.on THEN With(layout, o, Place(o)) ELSE layout
<1>1. /\ live' = l /\ layout' = lay /\ Sees(lay)
      /\ spoiled' = (IF otherwise THEN spoiled \cup {o} ELSE spoiled)
      /\ Save(Synced(table, live', layout'), count', ws')
  BY DEF PlugAs
<1>2. r # None /\ r.on = setting.on
  <2>1. r \in Live
    BY DEF Live
  <2> QED
    BY <2>1, StateFileAssumption DEF Live
<1>3. l[o] = r /\ \A p \in Outputs \ {o} : l[p] = live[p]
  BY DEF IInv, Typed
<1>4. IsLayout(layout) /\ o \notin Outs(layout) /\ Outs(layout) \subseteq Outputs
  BY OutsTyped DEF Whereabouts, LayoutOK
<1>5. Place(o) \in Nat \cup {None}
  BY PlacesTyped
<1>6. IsLayout(lay) /\ Outs(lay) = IF setting.on THEN Outs(layout) \cup {o} ELSE Outs(layout)
  BY <1>4, <1>5, WithIs
<1> HIDE DEF r, l, lay
<1>7. LayoutOK'
  <2>1. \A p \in Outs(lay) : l[p] # None
    BY <1>2, <1>3, <1>4, <1>6 DEF Whereabouts, LayoutOK
  <2>2. ASSUME NEW p \in Outputs, l[p] # None, l[p].on PROVE p \in Outs(lay)
    <3>1. CASE p = o
      BY <1>2, <1>3, <1>6, <2>2, <3>1
    <3>2. CASE p # o
      <4>1. live[p] # None /\ live[p].on
        BY <1>3, <2>2, <3>2
      <4> QED
        BY <1>6, <4>1 DEF Whereabouts, LayoutOK, Plugged
    <3> QED
      BY <3>1, <3>2
  <2> QED
    BY <1>1, <1>6, <2>1, <2>2 DEF LayoutOK, Plugged
<1>8. Shape'
  <2>1. unsaved' = TRUE /\ synced' = synced
    BY DEF PlugAs, Save
  <2> QED
    BY <1>1, <2>1 DEF Whereabouts, Shape
<1>9. \A p \in Outputs : seen'[p] = IF p \in Outs(layout') THEN Laid(layout')[p] ELSE seen[p]
  BY <1>1, <1>6, SeesOuts
<1> QED
  BY <1>1, <1>7, <1>8, <1>9, SavingNotices

LEMMA PlugNotices ==
    ASSUME IInv, Whereabouts, Typed', NEW o \in Outputs, Plug(o)
    PROVE  Whereabouts'
<1>1. /\ up /\ up' = up /\ live[o] = None /\ UNCHANGED <<forced, count, ws>>
      /\ events' \in 0..MaxEvents
  BY StateFileAssumption DEF Plug, Running, Happens, Whereabouts, Shape
<1>2. ASSUME NEW modes \in {{Preferred}, {Preferred, Mode}},
             PlugAs(o, Asked(o, modes), forced \/ wished[o].mode \notin modes)
      PROVE  Whereabouts'
  <2> DEFINE asked == Asked(o, modes)
             otherwise == (forced \/ wished[o].mode \notin modes)
  <2>1. asked.on \in BOOLEAN /\ asked.mode \in {Preferred, Mode}
    BY <1>1, AskedWished
  <2>2. PlugAs(o, asked, otherwise)
    BY <1>2
  <2> HIDE DEF asked, otherwise
  <2> QED
    BY <1>1, <2>1, <2>2, PlugAsNotices
<1>3. CASE PlugAs(o, [on |-> TRUE, mode |-> Preferred], TRUE)
  <2> DEFINE default == [on |-> TRUE, mode |-> Preferred]
             otherwise == TRUE
  <2>1. default.on \in BOOLEAN /\ default.mode \in {Preferred, Mode}
    OBVIOUS
  <2>2. PlugAs(o, default, otherwise)
    BY <1>3
  <2> HIDE DEF default, otherwise
  <2> QED
    BY <1>1, <2>1, <2>2, PlugAsNotices
<1>4. CASE PlugFails(o)
  <2> DEFINE r == [on |-> FALSE, mode |-> None, heard |-> FALSE]
  <2>1. /\ live' = [live EXCEPT ![o] = r] /\ spoiled' = spoiled \cup {o}
        /\ UNCHANGED <<table, tmp, path, synced, disk, unsaved, layout, seen>>
    BY <1>4 DEF PlugFails, Unsaving, fs
  <2>2. r # None /\ r.on = FALSE
    <3>1. r \in Live
      BY DEF Live
    <3> QED
      BY <3>1, StateFileAssumption DEF Live
  <2>3. live'[o] = r /\ \A p \in Outputs \ {o} : live'[p] = live[p]
    BY <2>1 DEF IInv, Typed
  <2> HIDE DEF r
  <2>4. Shape'
    BY <1>1, <2>1 DEF Whereabouts, Shape
  <2>5. LayoutOK'
    <3>1. Outs(layout) \subseteq Outputs
      BY OutsTyped DEF Whereabouts, LayoutOK
    <3>2. \A p \in Outs(layout') : live'[p] # None
      BY <2>1, <2>2, <2>3, <3>1 DEF Whereabouts, LayoutOK
    <3>3. ASSUME NEW p \in Outputs, live'[p] # None, live'[p].on PROVE p \in Outs(layout')
      BY <2>1, <2>2, <2>3, <3>3 DEF Whereabouts, LayoutOK, Plugged
    <3> QED
      BY <2>1, <3>2, <3>3 DEF Whereabouts, LayoutOK, Plugged
  <2>6. FilesOK'
    BY <1>1, <2>1 DEF Whereabouts, FilesOK
  <2>7. Noticed'
    BY <1>1, <2>1 DEF Whereabouts, Noticed
  <2> QED
    BY <2>4, <2>5, <2>6, <2>7 DEF Whereabouts
<1> QED
  BY <1>2, <1>3, <1>4 DEF Plug

LEMMA UnplugNotices ==
    ASSUME IInv, Whereabouts, Typed', NEW o \in Outputs, Unplug(o)
    PROVE  Whereabouts'
<1> DEFINE lay == Without(layout, o)
<1>1. /\ up /\ up' = up /\ live' = [live EXCEPT ![o] = None] /\ layout' = lay /\ Sees(lay)
      /\ UNCHANGED <<forced, count, ws, spoiled>> /\ events' \in 0..MaxEvents
      /\ Save(Synced(table, live', layout'), count', ws')
  BY StateFileAssumption DEF Unplug, Running, Happens, Whereabouts, Shape
<1>2. live'[o] = None /\ \A p \in Outputs \ {o} : live'[p] = live[p]
  BY <1>1 DEF IInv, Typed
<1>3. IsLayout(lay) /\ Outs(lay) = Outs(layout) \ {o} /\ Outs(lay) \subseteq Outputs
  BY WithoutIs, OutsTyped DEF Whereabouts, LayoutOK
<1> HIDE DEF lay
<1>4. LayoutOK'
  <2>1. \A p \in Outs(lay) : live'[p] # None
    BY <1>2, <1>3 DEF Whereabouts, LayoutOK
  <2>2. ASSUME NEW p \in Outputs, live'[p] # None, live'[p].on PROVE p \in Outs(lay)
    BY <1>2, <1>3, <2>2 DEF Whereabouts, LayoutOK, Plugged
  <2> QED
    BY <1>1, <1>3, <2>1, <2>2 DEF LayoutOK, Plugged
<1>5. Shape'
  <2>1. unsaved' = TRUE /\ synced' = synced
    BY <1>1 DEF Save
  <2> QED
    BY <1>1, <2>1 DEF Whereabouts, Shape
<1>6. \A p \in Outputs : seen'[p] = IF p \in Outs(layout') THEN Laid(layout')[p] ELSE seen[p]
  BY <1>1, <1>3, SeesOuts
<1> QED
  BY <1>1, <1>4, <1>5, <1>6, SavingNotices

LEMMA ApplyNotices ==
    ASSUME IInv, Whereabouts, Typed', NEW o \in Outputs, OutputManagerApply(o)
    PROVE  Whereabouts'
<1> DEFINE stay == [i \in DOMAIN layout |-> [layout[i] EXCEPT !.x = Laid(layout)[layout[i].out]]]
<1>1. /\ up /\ up' = up /\ live[o] # None /\ UNCHANGED <<forced, count, ws>>
      /\ events' \in 0..MaxEvents
  BY StateFileAssumption DEF OutputManagerApply, Running, Happens, Whereabouts, Shape
<1>2. PICK on \in BOOLEAN, mode \in {Preferred, Mode}, x \in Places :
        LET l == [live EXCEPT ![o] = [on |-> on, mode |-> IF on THEN mode ELSE live[o].mode,
                                      heard |-> live[o].heard]]
            lay == IF on THEN With(stay, o, x) ELSE Without(stay, o)
        IN  /\ live' = l
            /\ layout' = lay
            /\ spoiled' = IF l[o].mode = None THEN spoiled ELSE spoiled \ {o}
            /\ Sees(lay)
            /\ Save(Synced(table, l, lay), count, ws)
  BY ZenonT(60) DEF OutputManagerApply
<1> DEFINE r == [on |-> on, mode |-> IF on THEN mode ELSE live[o].mode, heard |-> live[o].heard]
           lay == IF on THEN With(stay, o, x) ELSE Without(stay, o)
<1>3. /\ live' = [live EXCEPT ![o] = r] /\ layout' = lay /\ spoiled' \in {spoiled, spoiled \ {o}}
      /\ Sees(lay) /\ Save(Synced(table, live', layout'), count', ws')
  BY <1>1, <1>2
<1>4. r # None /\ r.on = on
  <2>1. live[o] \in Live
    BY <1>1 DEF IInv, Typed
  <2>2. r \in Live /\ r.on = on
    BY <2>1 DEF Live
  <2> QED
    BY <2>2, StateFileAssumption DEF Live
<1>5. live'[o] = r /\ \A p \in Outputs \ {o} : live'[p] = live[p]
  BY <1>3 DEF IInv, Typed
<1>6. IsLayout(stay) /\ Outs(stay) = Outs(layout)
  BY StayIs DEF Whereabouts, LayoutOK
<1>7. x \in Nat \cup {None}
  BY StateFileAssumption
<1> HIDE DEF stay, r
<1>8. IsLayout(lay)
      /\ Outs(lay) = (IF on THEN Outs(layout) \cup {o} ELSE Outs(layout) \ {o})
      /\ Outs(layout) \subseteq Outputs
  <2>1. CASE on
    BY <1>6, <1>7, <2>1, WithIs, OutsTyped
  <2>2. CASE ~on
    BY <1>6, <2>2, WithoutIs, OutsTyped
  <2> QED
    BY <2>1, <2>2
<1> HIDE DEF lay
<1>9. LayoutOK'
  <2>1. \A p \in Outs(lay) : live'[p] # None
    BY <1>4, <1>5, <1>8 DEF Whereabouts, LayoutOK
  <2>2. ASSUME NEW p \in Outputs, live'[p] # None, live'[p].on PROVE p \in Outs(lay)
    <3>1. CASE p = o
      BY <1>4, <1>5, <1>8, <2>2, <3>1
    <3>2. CASE p # o
      BY <1>5, <1>8, <2>2, <3>2 DEF Whereabouts, LayoutOK, Plugged
    <3> QED
      BY <3>1, <3>2
  <2> QED
    BY <1>3, <1>8, <2>1, <2>2 DEF LayoutOK, Plugged
<1>10. Shape'
  <2>1. unsaved' = TRUE /\ synced' = synced
    BY <1>3 DEF Save
  <2> QED
    BY <1>1, <1>3, <2>1 DEF Whereabouts, Shape
<1>11. \A p \in Outputs : seen'[p] = IF p \in Outs(layout') THEN Laid(layout')[p] ELSE seen[p]
  BY <1>3, <1>8, SeesOuts
<1> QED
  BY <1>3, <1>9, <1>10, <1>11, SavingNotices

LEMMA SetWorkspaceNotices ==
    ASSUME IInv, Whereabouts, Typed', NEW w \in 1..Default, SetWorkspace(w)
    PROVE  Whereabouts'
<1>1. /\ up /\ UNCHANGED <<up, forced, live, layout, count, seen, spoiled>>
      /\ events' \in 0..MaxEvents /\ ws' = Normalized(w, count)
      /\ Save(Synced(table, live', layout'), count', ws')
  BY StateFileAssumption DEF SetWorkspace, Running, Happens, Whereabouts, Shape
<1>2. ws' \in 1..count
  <2>1. w \in Nat \ {0}
    BY StateFileAssumption
  <2> QED
    BY <1>1, <2>1, NormalizedTyped DEF Whereabouts, Shape
<1>3. Shape'
  <2>1. unsaved' = TRUE /\ synced' = synced
    BY <1>1 DEF Save
  <2> QED
    BY <1>1, <1>2, <2>1 DEF Whereabouts, Shape
<1>4. LayoutOK'
  BY <1>1 DEF Whereabouts, LayoutOK, Plugged
<1>5. ASSUME NEW o \in Outputs
      PROVE  seen'[o] = IF o \in Outs(layout') THEN Laid(layout')[o] ELSE seen[o]
  BY <1>1 DEF Whereabouts, Noticed, KnownX
<1> QED
  BY <1>1, <1>3, <1>4, <1>5, SavingNotices

\* Of what has stopped nothing is left but the file.
LEMMA StoppedNotices ==
    ASSUME Whereabouts, Stopped, synced' = TRUE, events' \in 0..MaxEvents,
           path' \in Files \cup {None}, disk' \in Files \cup {None}
    PROVE  Whereabouts'
<1>1. <<>> \in Seq(Spots) /\ DOMAIN <<>> = {}
  OBVIOUS
<1>2. layout' = <<>> /\ table' = <<>> /\ live' = [o \in Outputs |-> None]
      /\ seen' = [o \in Outputs |-> None] /\ tmp' = None /\ unsaved' = TRUE
  BY DEF Stopped
<1>3. Outs(layout') = {} /\ OnceEach(layout') /\ IsLayout(layout')
  BY <1>1, <1>2 DEF Outs, OnceEach, IsLayout
<1>4. LayoutOK'
  BY <1>2, <1>3 DEF LayoutOK, Plugged
<1>5. table' \in Tables
  <2>1. <<>> \in [{} -> Entries]
    OBVIOUS
  <2> QED
    BY <1>2, <2>1 DEF Tables
<1>6. FilesOK'
  BY <1>2, <1>5 DEF FilesOK
<1>7. Noticed'
  BY <1>1, <1>2, <1>3 DEF Noticed, KnownX
<1>8. Shape'
  <2>1. Default \in Nat \ {0}
    BY StateFileAssumption
  <2>2. up' = FALSE /\ forced' = FALSE /\ count' = Default /\ ws' = 1 /\ spoiled' = {}
    BY DEF Stopped
  <2>3. count' \in Counts \cup {Default} /\ ws' \in 1..count'
    BY <2>1, <2>2
  <2>4. spoiled' \subseteq Outputs
    BY <2>2
  <2>5. up' \in BOOLEAN /\ forced' \in BOOLEAN /\ unsaved' \in BOOLEAN /\ (~up' => unsaved')
    BY <1>2, <2>2
  <2> QED
    BY <2>3, <2>4, <2>5 DEF Shape
<1> QED
  BY <1>4, <1>6, <1>7, <1>8 DEF Whereabouts

LEMMA StartNotices ==
    ASSUME IInv, Whereabouts, Start
    PROVE  Whereabouts'
<1>1. /\ ~up /\ up' = TRUE /\ path # Torn
      /\ UNCHANGED <<live, layout, tmp, path, synced, disk, spoiled, unsaved>>
      /\ table' = (IF path = None THEN <<>> ELSE path.outs)
      /\ ws' = LoadedWs(path, count') /\ events' \in 0..MaxEvents /\ forced' \in BOOLEAN
      /\ seen' = [o \in Outputs |->
                    IF o \in DOMAIN table' /\ table'[o].was THEN table'[o].x ELSE None]
  BY StateFileAssumption DEF Start, fs, Happens, Whereabouts, Shape
<1>2. path # None => /\ path.count \in Counts \cup {Default, None}
                     /\ path.ws \in (Nat \ {0}) \cup {None} /\ path.outs \in Tables
  BY DEF Whereabouts, FilesOK, Files
<1>3. table' \in Tables
  <2>1. <<>> \in [{} -> Entries]
    OBVIOUS
  <2>2. <<>> \in Tables
    BY <2>1 DEF Tables
  <2> QED
    BY <1>1, <1>2, <2>2
<1>4. count' \in Counts \cup {Default}
  <2>1. PICK env \in Counts \cup {None} :
          count' = IF env # None THEN env
                   ELSE IF path = None THEN Default ELSE Or(path.count, Default)
    BY DEF Start
  <2>2. path # None => Or(path.count, Default) \in Counts \cup {Default}
    BY <1>2 DEF Or
  <2> QED
    BY <2>1, <2>2
<1>5. ws' \in 1..count'
  <2> DEFINE w == IF path = None THEN 1 ELSE Or(path.ws, 1)
  <2>1. w \in Nat \ {0}
    BY <1>2 DEF Or
  <2>2. ws' = Normalized(w, count')
    BY <1>1 DEF LoadedWs
  <2> HIDE DEF w
  <2> QED
    BY <1>4, <2>1, <2>2, NormalizedTyped
<1>6. tmp = None /\ Outs(layout) = {} /\ unsaved
  BY <1>1, OutsTyped DEF IInv, Typed, Plugged, Whereabouts, LayoutOK, Shape
<1>7. Shape'
  BY <1>1, <1>4, <1>5, <1>6 DEF Whereabouts, Shape
<1>8. LayoutOK'
  BY <1>1 DEF Whereabouts, LayoutOK, Plugged
<1>9. FilesOK'
  BY <1>1, <1>3, <1>6 DEF Whereabouts, FilesOK
<1>10. Noticed'
  BY <1>1, <1>6 DEF Noticed, KnownX
<1> QED
  BY <1>7, <1>8, <1>9, <1>10 DEF Whereabouts

\* The steps of a save move what was written, and nothing else.
LEMMA FileNotices ==
    ASSUME Whereabouts,
           UNCHANGED <<up, forced, live, layout, table, count, ws, events, seen, spoiled>>,
           synced' = TRUE, unsaved' \in BOOLEAN, ~up => unsaved', FilesOK'
    PROVE  Whereabouts'
BY DEF Whereabouts, Shape, LayoutOK, Noticed, Plugged

-----------------------------------------------------------------------------
LEMMA InitiallyNoticed ==
    ASSUME Init
    PROVE  Whereabouts
<1>1. /\ up = FALSE /\ forced = FALSE /\ unsaved = TRUE /\ synced = TRUE
      /\ live = [o \in Outputs |-> None] /\ layout = <<>> /\ table = <<>>
      /\ count = Default /\ ws = 1 /\ tmp = None /\ disk = path /\ events = 0
      /\ seen = [o \in Outputs |-> None] /\ spoiled = {}
      /\ path \in {None} \cup HandWritten
  BY DEF Init
<1>2. Shape
  <2>1. Default \in Nat \ {0} /\ MaxEvents \in Nat
    BY StateFileAssumption
  <2>2. count \in Counts \cup {Default} /\ ws \in 1..count /\ events \in 0..MaxEvents
    BY <1>1, <2>1
  <2> QED
    BY <1>1, <2>2 DEF Shape
<1>3. <<>> \in Seq(Spots) /\ DOMAIN <<>> = {} /\ <<>> \in [{} -> Entries]
  OBVIOUS
<1>4. Outs(layout) = {} /\ IsLayout(layout)
  BY <1>1, <1>3 DEF Outs, OnceEach, IsLayout
<1>5. LayoutOK
  BY <1>1, <1>4 DEF LayoutOK, Plugged
<1>6. Noticed
  BY <1>1, <1>3, <1>4 DEF Noticed, KnownX
<1>7. path \in Files \cup {None}
  <2> SUFFICES ASSUME NEW f \in HandWritten PROVE f \in Files
    BY <1>1
  <2>1. /\ f \in [count : Counts \cup {None}, ws : {None, Default},
                  outs : {<<>>} \cup UNION {[{o} -> [on : {FALSE, None}, x : {None}, mode : {Mode, None},
                                                     was : {FALSE}]] : o \in Outputs}]
        /\ Default \in Nat \ {0}
    BY StateFileAssumption DEF HandWritten
  <2>2. f.outs \in Tables
    <3>1. CASE f.outs = <<>>
      BY <1>3, <3>1 DEF Tables
    <3>2. CASE f.outs # <<>>
      <4>1. PICK o \in Outputs :
              f.outs \in [{o} -> [on : {FALSE, None}, x : {None}, mode : {Mode, None}, was : {FALSE}]]
        BY <2>1, <3>2
      <4>2. [on : {FALSE, None}, x : {None}, mode : {Mode, None}, was : {FALSE}] \subseteq Entries
        BY DEF Entries, EntriesOf
      <4>3. f.outs \in [{o} -> Entries]
        BY <4>1, <4>2
      <4> QED
        BY <4>3 DEF Tables
    <3> QED
      BY <3>1, <3>2
  <2> QED
    BY <2>1, <2>2 DEF Files
<1>8. FilesOK
  BY <1>1, <1>3, <1>7 DEF FilesOK, Tables
<1> QED
  BY <1>2, <1>5, <1>6, <1>8 DEF Whereabouts

LEMMA AlwaysNoticed ==
    ASSUME IInv, Whereabouts, [Next]_vars
    PROVE  Whereabouts'
<1>0. Typed'
  BY Inductive DEF IInv
<1>1. /\ path \in Files \cup {None} /\ disk \in Files \cup {None} /\ synced = TRUE
      /\ events \in 0..MaxEvents /\ MaxEvents \in Nat
  BY StateFileAssumption DEF Whereabouts, FilesOK, Shape
<1>2. CASE Start
  BY <1>2, StartNotices
<1>3. CASE Stop
  BY <1>1, <1>3, StoppedNotices DEF Stop
<1>4. CASE PowerCut
  <2>1. path' \in {disk, path} /\ disk' = path' /\ synced' = TRUE /\ events' = events
    BY <1>1, <1>4 DEF PowerCut
  <2> QED
    BY <1>1, <1>4, <2>1, StoppedNotices DEF PowerCut
<1>5. CASE SyncTmp
  <2>1. FilesOK'
    BY <1>5 DEF SyncTmp, Whereabouts, FilesOK
  <2> QED
    BY <1>1, <1>5, <2>1, FileNotices DEF SyncTmp, Whereabouts, Shape
<1>6. CASE RenameTmp
  <2>1. /\ tmp # None /\ tmp.synced /\ tmp' = None /\ path' = tmp.body /\ synced' = tmp.synced
        /\ disk' \in {disk, path} /\ unsaved' = FALSE
        /\ UNCHANGED <<up, forced, live, layout, table, count, ws, events, seen, spoiled>>
    BY <1>6 DEF RenameTmp, Renamed
  <2>2. /\ tmp.body = Contents(table, count, ws) /\ tmp.synced \in BOOLEAN
        /\ table \in Tables /\ count \in Counts \cup {Default} /\ ws \in 1..count
    BY <2>1 DEF Whereabouts, FilesOK, Shape
  <2>3. path' \in Files
    BY <2>1, <2>2, ContentsTyped
  <2>4. FilesOK'
    BY <1>1, <2>1, <2>2, <2>3 DEF FilesOK
  <2>5. up
    BY <2>1 DEF IInv, Typed
  <2> QED
    BY <2>1, <2>2, <2>4, <2>5, FileNotices
<1>7. CASE SaveFails
  <2>1. FilesOK'
    BY <1>7 DEF SaveFails, Whereabouts, FilesOK
  <2> QED
    BY <1>1, <1>7, <2>1, FileNotices DEF SaveFails, Whereabouts, Shape
<1>8. ASSUME NEW o \in Outputs, UnplugUnheard(o)
      PROVE  Whereabouts'
  BY <1>1, <1>8, StoppedNotices DEF UnplugUnheard, Happens
<1>9. CASE UNCHANGED vars
  <2>1. FilesOK'
    BY <1>9 DEF vars, fs, Whereabouts, FilesOK
  <2> QED
    BY <1>1, <1>9, <2>1, FileNotices DEF vars, fs, Whereabouts, Shape
<1> QED
  BY <1>0, <1>2, <1>3, <1>4, <1>5, <1>6, <1>7, <1>8, <1>9,
     PlugNotices, UnplugNotices, ApplyNotices, SetWorkspaceNotices DEF Next

-----------------------------------------------------------------------------
\* Memory and file agree when nothing is left to save.
LEMMA ConsistentThen ==
    ASSUME IInv, Whereabouts
    PROVE  Consistent
<1>1. TypeOK
  <2>1. DOMAIN table \subseteq Outputs
    BY DEF Whereabouts, FilesOK, Tables
  <2>2. \A i \in DOMAIN layout : live[layout[i].out] # None
    BY DEF Whereabouts, LayoutOK, Outs
  <2>3. ASSUME NEW o \in Plugged(live), live[o].on
        PROVE  \E i \in DOMAIN layout : layout[i].out = o
    BY <2>3 DEF Whereabouts, LayoutOK, Outs
  <2>4. tmp # None => up
    BY DEF IInv, Typed, Whereabouts, Shape
  <2> QED
    BY <2>1, <2>2, <2>3, <2>4 DEF TypeOK, Whereabouts, Shape
<1>2. FileWhole
  <2>1. Torn \notin Files \cup {None}
    BY StateFileAssumption
  <2> QED
    BY <2>1 DEF FileWhole, Whereabouts, FilesOK
<1>3. FileCurrent
  <2> SUFFICES ASSUME Running, ~unsaved
               PROVE  /\ \A o \in DOMAIN Laid(layout) : path.outs[o].x = Laid(layout)[o]
                      /\ \A o \in DOMAIN path.outs \ spoiled : Setting(path.outs[o]) = wished[o]
                      /\ path.ws = ws
    BY DEF FileCurrent
  <2>1. path = Contents(table, count, ws) /\ up
    BY DEF Running, Whereabouts, FilesOK
  <2>2. path.ws = ws /\ path.outs = [o \in DOMAIN table |-> Written(table[o])]
    BY <2>1 DEF Contents
  <2>3. ASSUME NEW o \in DOMAIN Laid(layout)
        PROVE  path.outs[o].x = Laid(layout)[o]
    <3>1. IsLayout(layout) /\ o \in Outs(layout)
      BY LaidIs DEF Whereabouts, LayoutOK
    <3>2. Laid(layout)[o] \in Nat /\ o \in DOMAIN table /\ table[o].x = Laid(layout)[o]
      BY <3>1, LaidIs DEF Whereabouts, Noticed
    <3>3. Or(table[o].x, 0) = table[o].x
      BY <3>2, StateFileAssumption DEF Or
    <3> QED
      BY <2>2, <3>2, <3>3 DEF Written
  <2>4. ASSUME NEW o \in DOMAIN path.outs \ spoiled
        PROVE  Setting(path.outs[o]) = wished[o]
    <3>1. o \in DOMAIN table /\ o \in Outputs \ spoiled
      BY <2>2 DEF IInv, Typed, IsTable
    <3>2. wished[o] = Known(table, o)
      BY <2>1, <3>1 DEF IInv, Agrees
    <3> QED
      BY <2>2, <3>1, <3>2 DEF Known
  <2> QED
    BY <2>2, <2>3, <2>4
<1> QED
  BY <1>1, <1>2, <1>3 DEF Consistent

(***************************************************************************)
(* Whenever the compositor or the machine stops, the name leads to a whole *)
(* file, and after a save and until the next change that file says where   *)
(* every output is and what was last wished of it (aswl_state_save,        *)
(* aswl_outputs_persist_sync_from_live, aswl_state_load).                  *)
(***************************************************************************)
THEOREM MemoryAndFileAgree == Spec => []Consistent
<1>1. Init => IInv /\ Whereabouts
  BY Initially, InitiallyNoticed
<1>2. IInv /\ Whereabouts /\ [Next]_vars => IInv' /\ Whereabouts'
  BY Inductive, AlwaysNoticed
<1>3. IInv /\ Whereabouts => Consistent
  BY ConsistentThen
<1> QED
  BY <1>1, <1>2, <1>3, PTL DEF Spec

\* The last to come, if it has no place of its own, is to the right of all others.
LEMMA LastIsRight ==
    ASSUME NEW lay, IsLayout(lay), NEW o \in Outputs, o \notin Outs(lay),
           NEW x \in Nat \cup {None}
    PROVE  LET there == Laid(With(lay, o, x))
           IN  /\ x # None => there[o] = x
               /\ x = None => \A p \in DOMAIN there \ {o} : there[p] < there[o]
<1> DEFINE w == With(lay, o, x)
           n == Len(lay) + 1
<1>1. DOMAIN lay = 1 .. Len(lay) /\ Len(lay) \in Nat
  BY DEF IsLayout
<1>2. w = Append(lay, [out |-> o, x |-> x])
  BY DEF With, IsIn, Outs
<1>3. IsLayout(w) /\ Outs(w) = Outs(lay) \cup {o}
  BY WithIs
<1>4. DOMAIN w = 1 .. n /\ w[n].out = o /\ w[n].x = x
  BY <1>1, <1>2 DEF IsLayout
<1> HIDE DEF w
<1>5. n \in DOMAIN w /\ n \in Nat
  BY <1>1, <1>4
<1>6. x # None => Laid(w)[o] = x
  BY <1>3, <1>4, <1>5, LaidIs
<1>7. ASSUME x = None, NEW p \in DOMAIN Laid(w) \ {o}
      PROVE  Laid(w)[p] < Laid(w)[o]
  <2>1. PICK j \in DOMAIN w : w[j].out = p
    BY <1>3, LaidIs DEF Outs
  <2>2. j < n
    BY <1>4, <1>5, <1>7, <2>1
  <2>3. Laid(w)[o] = Right(w) + Before(w, n)
    BY <1>3, <1>4, <1>5, <1>7, LaidIs
  <2>4. Laid(w)[p] = IF w[j].x = None THEN Right(w) + Before(w, j) ELSE w[j].x
    BY <1>3, <2>1, LaidIs
  <2>5. Right(w) \in Nat /\ Before(w, n) \in Nat /\ Before(w, j) \in Nat
    BY <1>3, <1>5, RightOf, BeforeGrows
  <2>6. CASE w[j].x = None
    <3>1. Before(w, j) < Before(w, n)
      BY <1>3, <1>5, <2>2, <2>6, BeforeGrows
    <3> QED
      BY <2>3, <2>4, <2>5, <2>6, <3>1
  <2>7. CASE w[j].x # None
    <3>1. w[j].x \in Nat /\ w[j].x < Right(w)
      BY <1>3, <2>7, RightOf
    <3> QED
      BY <2>3, <2>4, <2>5, <2>7, <3>1
  <2> QED
    BY <2>6, <2>7
<1> QED
  BY <1>6, <1>7 DEF w

\* Only what is there gets into the layout, and only by appearing.
LEMMA OnlyPlugPlaces ==
    ASSUME IInv, Whereabouts, [Next]_vars, NEW o \in Outputs, live[o] = None, o \in Outs(layout')
    PROVE  Plug(o)
<1>1. IsLayout(layout) /\ o \notin Outs(layout)
  BY DEF Whereabouts, LayoutOK
<1>2. ASSUME layout' = layout
      PROVE  FALSE
  BY <1>1, <1>2
<1>3. ASSUME Stopped
      PROVE  FALSE
  <2>1. DOMAIN layout' = {}
    BY <1>3 DEF Stopped
  <2> QED
    BY <2>1 DEF Outs
<1>4. CASE Start
  BY <1>2, <1>4 DEF Start
<1>5. CASE Stop \/ PowerCut
  BY <1>3, <1>5 DEF Stop, PowerCut
<1>6. CASE SyncTmp \/ RenameTmp \/ SaveFails
  BY <1>2, <1>6 DEF SyncTmp, RenameTmp, Renamed, SaveFails
<1>7. ASSUME NEW p \in Outputs, Plug(p), p # o
      PROVE  FALSE
  <2>1. ASSUME NEW setting, NEW otherwise, PlugAs(p, setting, otherwise)
        PROVE  FALSE
    <3>1. layout' = (IF setting.on THEN With(layout, p, Place(p)) ELSE layout)
      BY <2>1 DEF PlugAs
    <3>2. Outs(With(layout, p, Place(p))) = Outs(layout) \cup {p}
      BY <1>1, PlacesTyped, WithIs
    <3> QED
      BY <1>1, <1>7, <3>1, <3>2
  <2>2. ASSUME PlugFails(p)
        PROVE  FALSE
    BY <1>2, <2>2 DEF PlugFails
  <2> QED
    BY <1>7, <2>1, <2>2 DEF Plug
<1>8. ASSUME NEW p \in Outputs, Unplug(p)
      PROVE  FALSE
  <2>1. Outs(layout') = Outs(layout) \ {p}
    BY <1>1, <1>8, WithoutIs DEF Unplug
  <2> QED
    BY <1>1, <2>1
<1>9. ASSUME NEW p \in Outputs, UnplugUnheard(p)
      PROVE  FALSE
  BY <1>3, <1>9 DEF UnplugUnheard
<1>10. ASSUME NEW p \in Outputs, OutputManagerApply(p)
       PROVE  FALSE
  <2> DEFINE stay == [i \in DOMAIN layout |-> [layout[i] EXCEPT !.x = Laid(layout)[layout[i].out]]]
  <2>1. PICK on \in BOOLEAN, x \in Places :
          layout' = IF on THEN With(stay, p, x) ELSE Without(stay, p)
    BY <1>10 DEF OutputManagerApply
  <2>2. IsLayout(stay) /\ Outs(stay) = Outs(layout)
    BY <1>1, StayIs
  <2>3. x \in Nat \cup {None} /\ p # o
    BY <1>10, StateFileAssumption DEF OutputManagerApply
  <2> HIDE DEF stay
  <2>4. Outs(With(stay, p, x)) = Outs(layout) \cup {p}
    BY <2>2, <2>3, WithIs
  <2>5. Outs(Without(stay, p)) = Outs(layout) \ {p}
    BY <2>2, WithoutIs
  <2> QED
    BY <1>1, <2>1, <2>3, <2>4, <2>5
<1>11. ASSUME NEW w, SetWorkspace(w)
       PROVE  FALSE
  BY <1>2, <1>11 DEF SetWorkspace
<1>12. CASE UNCHANGED vars
  BY <1>2, <1>12 DEF vars
<1> QED
  BY <1>4, <1>5, <1>6, <1>7, <1>8, <1>9, <1>10, <1>11, <1>12 DEF Next

(***************************************************************************)
(* An output that comes back is put where it last was, also if others have *)
(* moved since.  One that never was anywhere lands on no other, but for    *)
(* those that an earlier save wrote to be at 0: they are put there         *)
(* (handle_new_output, aswl_outputs_persist_sync_from_live, aswl_state_    *)
(* save).                                                                  *)
(***************************************************************************)
THEOREM AlwaysPlacedBack == Spec => PlacedBack
<1>1. Init => IInv /\ Whereabouts
  BY Initially, InitiallyNoticed
<1>2. IInv /\ Whereabouts /\ [Next]_vars => IInv' /\ Whereabouts'
  BY Inductive, AlwaysNoticed
<1>3. ASSUME IInv, Whereabouts, [Next]_vars, NEW o \in Outputs,
             live[o] = None, o \in DOMAIN Laid(layout'), ~forced
      PROVE  IF seen[o] # None THEN Laid(layout')[o] = seen[o]
             ELSE IF Invented(o) THEN Laid(layout')[o] = 0
             ELSE \A p \in DOMAIN Laid(layout') \ {o} : Laid(layout')[p] # Laid(layout')[o]
  <2>1. IsLayout(layout) /\ o \notin Outs(layout)
    BY <1>3 DEF Whereabouts, LayoutOK
  <2>2. IsLayout(layout')
    BY <1>3, AlwaysNoticed DEF Whereabouts, LayoutOK
  <2>3. DOMAIN Laid(layout') = Outs(layout') /\ \A p \in Outs(layout') : Laid(layout')[p] \in Nat
    BY <2>2, LaidIs
  <2>4. Plug(o)
    BY <1>3, <2>3, OnlyPlugPlaces
  <2>5. layout' # layout
    BY <1>3, <2>1, <2>3
  <2>6. layout' = With(layout, o, Place(o))
    BY <2>4, <2>5 DEF Plug, PlugAs, PlugFails
  <2>7. /\ Place(o) \in Nat \cup {None}
        /\ Place(o) = IF seen[o] = None /\ Invented(o) THEN 0 ELSE seen[o]
    BY <1>3, PlacesTyped
  <2>8. CASE seen[o] # None
    BY <2>1, <2>6, <2>7, <2>8, LastIsRight
  <2>10. CASE seen[o] = None /\ Invented(o)
    <3>1. Place(o) = 0 /\ Place(o) # None
      BY <2>7, <2>10, StateFileAssumption
    <3>2. Laid(layout')[o] = 0
      BY <2>1, <2>6, <2>7, <3>1, LastIsRight
    <3> QED
      BY <2>10, <3>2
  <2>9. CASE seen[o] = None /\ ~Invented(o)
    <3>1. \A p \in DOMAIN Laid(layout') \ {o} : Laid(layout')[p] < Laid(layout')[o]
      BY <2>1, <2>6, <2>7, <2>9, LastIsRight
    <3>2. ASSUME NEW p \in DOMAIN Laid(layout') \ {o}
          PROVE  Laid(layout')[p] # Laid(layout')[o]
      <4>1. Laid(layout')[p] \in Nat /\ Laid(layout')[o] \in Nat
        BY <1>3, <2>3
      <4> QED
        BY <3>1, <4>1
    <3> QED
      BY <2>9, <3>2
  <2> QED
    BY <2>8, <2>9, <2>10
<1>4. IInv /\ Whereabouts /\ [Next]_vars =>
        [\A o \in Outputs :
           LET there == Laid(layout')
           IN  live[o] = None /\ o \in DOMAIN there /\ ~forced
               => IF seen[o] # None THEN there[o] = seen[o]
                  ELSE IF Invented(o) THEN there[o] = 0
                  ELSE \A p \in DOMAIN there \ {o} : there[p] # there[o]]_vars
  BY <1>3
<1> QED
  BY <1>1, <1>2, <1>4, PTL DEF Spec, PlacedBack
=============================================================================
