--------------------------- MODULE ModulePipesProofs ---------------------------
(***************************************************************************)
(* Proofs about module ModulePipes, for any modules, masks, scripts and    *)
(* chatter, sizes of the pipes and rounds of the wait.                     *)
(***************************************************************************)
EXTENDS ModulePipes, SequenceTheorems, FiniteSetTheorems, TLAPS

Module == [active : {-1, 0, 1}, mask : SUBSET Types, lock : SUBSET Types, named : BOOLEAN,
           queue : Seq(Unit)]
Peer == [life : {"off", "up", "gone"}, script : Seq(Commands \ {"unlock"}), cmds : Seq(Commands),
         socket : Seq(Unit), heard : Seq(Unit)]
Packet == [to : SUBSET Clients, type : Types]
Frame == [todo : Seq(Packet), msg : Message \cup {None}, to : SUBSET Clients, at : Nat,
          tries : 0..MaxTries]

\* A broadcast that has come to a module has come to one of the list.
Frames == {f \in Frame : /\ f.msg # None => f.at \in 1..Len(list)
                         /\ f.tries > 0 => f.msg # None}

Typed ==
    /\ policy \in {"allow", "kill_old", "kill_new"}
    /\ list \in Seq(Clients)
    /\ mod \in [Clients -> Module] /\ peer \in [Clients -> Peer]
    /\ stack \in Seq(Frames)
    /\ buffer \in Message \cup {None} /\ ids \in Nat /\ started \in 0..MaxBroadcasts
    /\ owed \in [Clients -> Seq(Unit)]
    /\ spoiled \subseteq Clients /\ astray \subseteq Clients

ListOK ==
    /\ \A i, j \in DOMAIN list : list[i] = list[j] => i = j
    /\ \A c \in Clients :
         /\ mod[c].active = -1 => mod[c] = Dead
         /\ mod[c].active # -1 => c \in Listed

\* A client that has not connected was sent nothing; no pipe holds more than it can.
PeersOK ==
    \A c \in Clients :
        /\ peer[c].life = "off" => /\ mod[c] = Dead /\ owed[c] = <<>>
                                   /\ peer[c].socket = <<>> /\ peer[c].heard = <<>>
        /\ Len(peer[c].socket) <= Room

IInv == Typed /\ ListOK /\ PeersOK /\ StreamWhole /\ OneOfEachName

-----------------------------------------------------------------------------
LEMMA Parameters ==
    /\ Room \in Nat /\ Room > 1 /\ MaxTries \in Nat /\ MaxTries > 0 /\ MaxBroadcasts \in Nat
    /\ \A c \in Clients : Scripts[c] \subseteq Seq(Commands \ {"unlock"})
                          /\ Wants[c] \subseteq Types
                          /\ Locks[c] \subseteq Types
                          /\ Chatter[c] \subseteq {"name", "mask", "bad"}
BY PipesAssumption

LEMMA NoneIsNoMessage == None \notin Message
BY DEF None, Message, Types

LEMMA UnitsAre == ASSUME NEW m \in Message, NEW n \in 1..2 PROVE Units(m, n) \in Seq(Unit)
<1>1. \A k \in 1..n : [msg |-> m, part |-> k] \in Unit
  BY DEF Unit
<1>2. Units(m, n) \in [1..n -> Unit]
  BY <1>1 DEF Units
<1> QED
  BY <1>2, SeqDef

LEMMA UnitsIn == ASSUME NEW m \in Message PROVE Units(m, Size[m.type]) \in Seq(Unit)
<1>1. m.type \in Types /\ Size[m.type] \in 1..2
  BY DEF Message, Size, Types
<1> QED
  BY <1>1, UnitsAre

LEMMA DeadIs == Dead \in Module /\ Dead.active = -1 /\ Dead.queue = <<>> /\ Dead.named = FALSE
<1>1. <<>> \in Seq(Unit)
  BY EmptySeq
<1> QED
  BY <1>1 DEF Dead, Module

\* What is written of a queue and what is left of it are the queue.
LEMMA Parting ==
    ASSUME NEW q \in Seq(Unit), NEW s \in Seq(Unit), NEW n \in 0..Len(q)
    PROVE  LET w == SubSeq(q, 1, n)
               k == SubSeq(q, n + 1, Len(q))
           IN  /\ w \in Seq(Unit) /\ k \in Seq(Unit) /\ s \o w \in Seq(Unit)
               /\ Len(s \o w) = Len(s) + n
               /\ (s \o w) \o k = s \o q
<1> DEFINE w == SubSeq(q, 1, n)
           k == SubSeq(q, n + 1, Len(q))
<1>1. Len(q) \in Nat /\ Len(s) \in Nat /\ n \in Nat /\ n <= Len(q)
  BY LenProperties
<1>2. \A i \in 1..Len(q) : q[i] \in Unit
  BY ElementOfSeq
<1>3. w \in Seq(Unit) /\ Len(w) = n
  <2>1. \A i \in 1..n : q[i] \in Unit
    BY <1>1, <1>2
  <2> QED
    BY <1>1, <2>1, SubSeqProperties
<1>4. k \in Seq(Unit)
  <2>1. \A i \in (n + 1)..Len(q) : q[i] \in Unit
    BY <1>1, <1>2
  <2> QED
    BY <1>1, <2>1, SubSeqProperties
<1>5. w \o k = q
  <2>1. SubSeq(q, 1, Len(q)) = q
    BY SubSeqFull
  <2>2. 1 \in 1..Len(q) + 1 /\ n \in (1 - 1)..Len(q) /\ Len(q) \in n..Len(q)
    BY <1>1
  <2>3. SubSeq(q, 1, n) \o SubSeq(q, n + 1, Len(q)) = SubSeq(q, 1, Len(q))
    BY <2>2, ConcatAdjacentSubSeq
  <2> QED
    BY <2>1, <2>3
<1> HIDE DEF w, k
<1>6. s \o w \in Seq(Unit) /\ Len(s \o w) = Len(s) + n
  BY <1>3, ConcatProperties
<1>7. (s \o w) \o k = s \o (w \o k)
  BY <1>3, <1>4, ConcatAssociative, SMTT(20)
<1> QED
  BY <1>3, <1>4, <1>5, <1>6, <1>7 DEF w, k

\* FlushQueue: what it writes leaves the queue, and nothing else changes.
Flushed(old, s, r) ==
    /\ r.module.active = old.active /\ r.module.named = old.named
    /\ r.module.mask = old.mask /\ r.module.lock = old.lock
    /\ r.socket \o r.module.queue = s \o old.queue

LEMMA FlushQueueIs ==
    ASSUME Typed, PeersOK, NEW c \in Clients
    PROVE  LET r == FlushQueue(c) IN
           /\ r.module \in Module /\ r.socket \in Seq(Unit) /\ Len(r.socket) <= Room
           /\ r.module = Dead \/ Flushed(mod[c], peer[c].socket, r)
           /\ r.res < 0 => r.module = Dead \/ (r.module = mod[c] /\ mod[c].active <= 0)
           /\ r.res >= 0 => mod[c].active > 0 /\ Flushed(mod[c], peer[c].socket, r)
<1> DEFINE q == mod[c].queue
           s == peer[c].socket
           n == Fits(c)
           r == FlushQueue(c)
<1>1. mod[c] \in Module /\ q \in Seq(Unit) /\ s \in Seq(Unit) /\ Len(s) <= Room
  BY DEF Typed, Module, Peer, PeersOK
<1>2. Len(q) \in Nat /\ Len(s) \in Nat
  BY <1>1, LenProperties
<1>3. r = IF mod[c].active <= 0 THEN [res |-> -1, module |-> mod[c], socket |-> s]
          ELSE IF q # <<>> /\ peer[c].life = "gone"
          THEN [res |-> -1, module |-> Dead, socket |-> <<>>]
          ELSE [res |-> IF n = Len(q) THEN 1 ELSE 0,
                module |-> [mod[c] EXCEPT !.queue = SubSeq(q, n + 1, Len(q))],
                socket |-> s \o SubSeq(q, 1, n)]
  BY DEF FlushQueue, WriteOut
<1>4. n = IF Len(q) > Room - Len(s) THEN Room - Len(s) ELSE Len(q)
  BY DEF Fits
<1> HIDE DEF q, s, n, r
<1>5. n \in 0..Len(q) /\ Len(s) + n <= Room
  BY <1>1, <1>2, <1>4, Parameters
<1>10. mod[c].active \in {-1, 0, 1} /\ ~(-1 >= 0)
  BY <1>1 DEF Module
<1>6. CASE mod[c].active <= 0
  <2>1. r.res = -1 /\ r.module = mod[c] /\ r.socket = s
    BY <1>3, <1>6
  <2> QED
    BY <1>1, <1>6, <1>10, <2>1 DEF r, q, s, Flushed
<1>7. CASE mod[c].active > 0 /\ q # <<>> /\ peer[c].life = "gone"
  <2>1. Len(<<>>) <= Room /\ <<>> \in Seq(Unit)
    BY Parameters, EmptySeq
  <2> QED
    BY <1>1, <1>3, <1>7, <2>1, DeadIs DEF r, Module
<1>8. CASE mod[c].active > 0 /\ ~(q # <<>> /\ peer[c].life = "gone")
  <2> DEFINE w == SubSeq(q, 1, n)
             k == SubSeq(q, n + 1, Len(q))
             m == [mod[c] EXCEPT !.queue = k]
  <2>1. /\ k \in Seq(Unit) /\ s \o w \in Seq(Unit)
        /\ Len(s \o w) = Len(s) + n
        /\ (s \o w) \o k = s \o q
    BY <1>1, <1>5, Parting
  <2>2. m \in Module /\ m.active = mod[c].active /\ m.queue = k
        /\ m.named = mod[c].named /\ m.mask = mod[c].mask /\ m.lock = mod[c].lock
    BY <1>1, <2>1 DEF Module
  <2>3. r.module = m /\ r.socket = s \o w /\ ~(r.res < 0)
    <3>1. ~(mod[c].active <= 0)
      BY <1>8, <1>10
    <3>2. r = [res |-> IF n = Len(q) THEN 1 ELSE 0, module |-> m, socket |-> s \o w]
      BY <1>3, <1>8, <3>1
    <3>3. r.res = (IF n = Len(q) THEN 1 ELSE 0) /\ r.module = m /\ r.socket = s \o w
      BY ONLY <3>2
    <3> QED
      BY <3>3
  <2> HIDE DEF w, k, m
  <2> QED
    BY <1>5, <1>8, <2>1, <2>2, <2>3 DEF r, q, s, Flushed
<1>9. mod[c].active <= 0 \/ mod[c].active > 0
  BY <1>1 DEF Module
<1> QED
  BY <1>6, <1>7, <1>8, <1>9

-----------------------------------------------------------------------------
\* RunCommand

UniqueNames(modules) ==
    policy # "allow" => \A c, d \in Listed : modules[c].named /\ modules[d].named => c = d

\* What a command leaves of a module: nothing, or all but masks and name.
After(c, d, old, new) ==
    \/ new = Dead
    \/ new = old
    \/ /\ d = c /\ new.active = old.active /\ new.queue = old.queue
       /\ new.lock = old.lock \/ new.lock = Locks[c]

LEMMA LastOfOne ==
    ASSUME Typed, ListOK, NEW d \in Listed
    PROVE  LastListed({d}) = d
<1>1. list \in [1..Len(list) -> Clients] /\ Len(list) \in Nat
  BY LenProperties DEF Typed
<1>2. PICK i \in DOMAIN list : list[i] = d
  BY DEF Listed
<1>3. list[i] \in {d} /\ \A j \in DOMAIN list : list[j] \in {d} => j <= i
  BY <1>1, <1>2 DEF ListOK
<1> QED
  BY <1>3 DEF LastListed

LEMMA SetNameIs ==
    ASSUME Typed, ListOK, NEW c \in Clients, NEW modules \in [Clients -> Module],
           UniqueNames(modules)
    PROVE  LET new == SetName(c, modules) IN
           /\ new \in [Clients -> Module]
           /\ \A d \in Clients : After(c, d, modules[d], new[d])
           /\ UniqueNames(new)
<1> DEFINE now == [modules EXCEPT ![c].named = TRUE]
           old == SameName(c, modules)
           new == SetName(c, modules)
<1>1. now \in [Clients -> Module]
      /\ \A d \in Clients : /\ After(c, d, modules[d], now[d])
                            /\ d # c => now[d] = modules[d]
  BY DEF Module, After
<1>2. old = {d \in Listed \ {c} : modules[d].named} /\ Listed \subseteq Clients
  <2>1. list \in [1..Len(list) -> Clients]
    BY LenProperties DEF Typed
  <2> QED
    BY <2>1 DEF SameName, Listed
<1> HIDE DEF now, old
<1>3. CASE policy = "allow"
  BY <1>1, <1>3 DEF SetName, UniqueNames, now
<1>4. CASE policy # "allow" /\ old = {}
  <2>1. new = now
    BY <1>4 DEF SetName, now, old
  <2>2. \A x, y \in Listed : now[x].named /\ now[y].named => x = y
    BY <1>1, <1>2, <1>4
  <2> QED
    BY <1>1, <2>1, <2>2 DEF UniqueNames
<1>5. CASE policy # "allow" /\ old # {}
  <2>1. PICK d \in Listed : old = {d} /\ d # c /\ modules[d].named
    BY <1>2, <1>5 DEF UniqueNames
  <2>2. LastListed(old) = d
    BY <2>1, LastOfOne
  <2>3. CASE policy = "kill_old"
    <3>1. new = [now EXCEPT ![d] = Dead]
      BY <1>5, <2>2, <2>3 DEF SetName, now, old
    <3>2. new \in [Clients -> Module] /\ new[d] = Dead
          /\ \A x \in Clients : x # d => new[x] = now[x]
      BY <1>1, <1>2, <3>1, DeadIs
    <3>3. \A x, y \in Listed : new[x].named /\ new[y].named => x = y
      <4> SUFFICES ASSUME NEW x \in Listed, new[x].named PROVE x = c
        OBVIOUS
      <4>1. x # d
        BY <1>2, <3>2, DeadIs
      <4>2. x # c => x \in old
        BY <1>1, <1>2, <3>2, <4>1
      <4> QED
        BY <2>1, <4>1, <4>2
    <3>4. \A x \in Clients : After(c, x, modules[x], new[x])
      BY <1>1, <3>2 DEF After
    <3> QED
      BY <3>2, <3>3, <3>4 DEF UniqueNames
  <2>4. CASE policy = "kill_new"
    <3>1. new = [now EXCEPT ![c] = Dead]
      BY <1>5, <2>4 DEF SetName, now, old
    <3>2. new \in [Clients -> Module] /\ new[c] = Dead
          /\ \A x \in Clients : x # c => new[x] = modules[x]
      BY <1>1, <3>1, DeadIs
    <3>3. \A x, y \in Listed : new[x].named /\ new[y].named => x = y
      BY <1>2, <1>5, <3>2, DeadIs DEF UniqueNames
    <3>4. \A x \in Clients : After(c, x, modules[x], new[x])
      BY <3>2 DEF After
    <3> QED
      BY <3>2, <3>3, <3>4 DEF UniqueNames
  <2> QED
    BY <1>5, <2>3, <2>4 DEF Typed
<1> QED
  BY <1>3, <1>4, <1>5

LEMMA RunCommandIs ==
    ASSUME Typed, ListOK, NEW c \in Clients, NEW modules \in [Clients -> Module],
           UniqueNames(modules), NEW cmd
    PROVE  LET new == RunCommand(c, cmd, modules) IN
           /\ new \in [Clients -> Module]
           /\ \A d \in Clients : After(c, d, modules[d], new[d])
           /\ UniqueNames(new)
<1>1. CASE cmd = "mask"
  <2> DEFINE new == [modules EXCEPT ![c].mask = Wants[c], ![c].lock = Locks[c]]
  <2>1. new = RunCommand(c, cmd, modules)
    BY <1>1 DEF RunCommand
  <2>2. Wants[c] \subseteq Types /\ Locks[c] \subseteq Types
    BY Parameters
  <2>3. new \in [Clients -> Module]
        /\ \A d \in Clients : After(c, d, modules[d], new[d]) /\ new[d].named = modules[d].named
    BY <2>2 DEF Module, After
  <2>4. Listed \subseteq Clients
    <3>1. list \in [1..Len(list) -> Clients]
      BY LenProperties DEF Typed
    <3> QED
      BY <3>1 DEF Listed
  <2> QED
    BY <2>1, <2>3, <2>4 DEF UniqueNames
<1>2. CASE cmd = "name"
  BY <1>2, SetNameIs DEF RunCommand
<1>3. CASE cmd # "mask" /\ cmd # "name"
  BY <1>3 DEF RunCommand, After
<1> QED
  BY <1>1, <1>2, <1>3

-----------------------------------------------------------------------------
\* The sequences in progress

LEMMA ListIs ==
    ASSUME Typed
    PROVE  /\ list \in [1..Len(list) -> Clients] /\ Len(list) \in Nat
           /\ DOMAIN list = 1..Len(list) /\ Listed \subseteq Clients
           /\ \A i \in 1..Len(list) : list[i] \in Clients
<1>1. list \in [1..Len(list) -> Clients] /\ Len(list) \in Nat /\ DOMAIN list = 1..Len(list)
  BY LenProperties DEF Typed
<1> QED
  BY <1>1 DEF Listed

LEMMA TopIs ==
    ASSUME Typed, stack # <<>>
    PROVE  /\ Len(stack) \in Nat /\ Len(stack) \in 1..Len(stack) /\ DOMAIN stack = 1..Len(stack)
           /\ Top = stack[Len(stack)] /\ Top \in Frames
<1>1. stack \in Seq(Frames)
  BY DEF Typed
<1>2. Len(stack) \in Nat \ {0}
  BY <1>1, EmptySeq
<1>3. stack \in [1..Len(stack) -> Frames] /\ DOMAIN stack = 1..Len(stack)
  BY <1>1, LenProperties
<1> QED
  BY <1>2, <1>3 DEF Top, Last

LEMMA SetTopIs ==
    ASSUME Typed, stack # <<>>, NEW f \in Frames
    PROVE  /\ SetTop(f) \in Seq(Frames) /\ Len(SetTop(f)) = Len(stack)
           /\ \A j \in 1..Len(stack) : SetTop(f)[j] = IF j = Len(stack) THEN f ELSE stack[j]
<1>1. stack \in Seq(Frames) /\ Len(stack) \in 1..Len(stack)
  BY TopIs DEF Typed
<1> QED
  BY <1>1, ExceptSeq DEF SetTop

LEMMA CallsIs ==
    ASSUME NEW s \in Seq(Frames), NEW todo \in Seq(Packet)
    PROVE  /\ Calls(s, todo) \in Seq(Frames)
           /\ Len(s) \in Nat /\ Len(Calls(s, todo)) \in Len(s)..(Len(s) + 1)
           /\ \A i \in 1..Len(s) : Calls(s, todo)[i] = s[i]
           /\ Len(Calls(s, todo)) > Len(s) => Calls(s, todo)[Len(s) + 1].tries = 0
<1> DEFINE f == [todo |-> todo, msg |-> None, to |-> {}, at |-> 0, tries |-> 0]
<1>1. f \in Frames /\ f.tries = 0
  BY Parameters DEF Frames, Frame
<1>2. Len(s) \in Nat
  BY LenProperties
<1>3. CASE todo = <<>>
  BY <1>2, <1>3 DEF Calls
<1>4. CASE todo # <<>>
  <2>1. Calls(s, todo) = Append(s, f)
    BY <1>4 DEF Calls
  <2> HIDE DEF f
  <2>2. /\ Append(s, f) \in Seq(Frames) /\ Len(Append(s, f)) = Len(s) + 1
        /\ \A i \in 1..Len(s) : Append(s, f)[i] = s[i]
        /\ Append(s, f)[Len(s) + 1] = f
    BY <1>1, AppendProperties
  <2> QED
    BY <1>1, <1>2, <2>1, <2>2
<1> QED
  BY <1>3, <1>4

LEMMA OnePacket == ASSUME NEW p \in Packet PROVE <<p>> \in Seq(Packet) /\ <<p>> # <<>>
OBVIOUS

LEMMA CommandSendsIs ==
    ASSUME NEW c \in Clients, NEW cmd
    PROVE  CommandSends(c, cmd) \in Seq(Packet)
<1> DEFINE l == [to |-> {c}, type |-> "list"]
           o == [to |-> Clients, type |-> "order"]
           s == [to |-> Clients, type |-> "status"]
<1>1. l \in Packet /\ o \in Packet /\ s \in Packet
  BY DEF Packet, Types
<1> HIDE DEF l, o, s
<1>2. <<l, o>> \in Seq(Packet) /\ <<s>> \in Seq(Packet) /\ <<>> \in Seq(Packet)
  BY <1>1
<1> QED
  BY <1>2 DEF CommandSends, l, o, s

LEMMA NextChannelIs ==
    ASSUME Typed, NEW f \in Frames, f.msg # None
    PROVE  /\ NextChannel(f) \in Frames /\ NextChannel(f).tries = 0
<1>1. f \in Frame /\ f.at \in 1..Len(list) /\ Len(list) \in Nat
  BY ListIs DEF Frames
<1>4. 0 \in 0..MaxTries
  BY Parameters
<1>2. CASE f.at > 1
  <2> DEFINE n == f.at - 1
  <2>1. n \in Nat /\ n \in 1..Len(list)
    BY <1>1, <1>2
  <2>2. NextChannel(f) = [f EXCEPT !.at = n, !.tries = 0]
    BY <1>1, <1>2 DEF NextChannel, Frame
  <2> HIDE DEF n
  <2>3. NextChannel(f) \in Frame
    BY <1>1, <1>4, <2>1, <2>2 DEF Frame
  <2>4. NextChannel(f).at = n /\ NextChannel(f).tries = 0
    BY <1>1, <2>2 DEF Frame
  <2> QED
    BY <2>1, <2>3, <2>4 DEF Frames
<1>3. CASE ~(f.at > 1)
  <2> DEFINE m == None
             n == 0
  <2>1. NextChannel(f) = [f EXCEPT !.msg = m, !.at = n, !.tries = 0]
    BY <1>3 DEF NextChannel
  <2>4. m \in Message \cup {None} /\ n \in Nat
    OBVIOUS
  <2> HIDE DEF m, n
  <2>2. NextChannel(f) \in Frame
    BY <1>1, <1>4, <2>1, <2>4 DEF Frame
  <2>3. NextChannel(f).msg = None /\ NextChannel(f).tries = 0
    BY <1>1, <2>1 DEF Frame, m
  <2> QED
    BY <2>2, <2>3 DEF Frames
<1> QED
  BY <1>2, <1>3

LEMMA RetriedIs ==
    ASSUME Typed, NEW f \in Frames, f.tries > 0
    PROVE  /\ f.msg # None /\ f.at \in 1..Len(list) /\ Retried(f) \in Frames
           /\ IF f.tries < MaxTries
              THEN Retried(f).tries > 0 /\ Retried(f).at = f.at /\ Retried(f).msg = f.msg
              ELSE Retried(f).tries = 0
<1>1. f \in Frame /\ f.msg # None /\ f.at \in 1..Len(list) /\ f.tries \in 0..MaxTries
  BY DEF Frames, Frame
<1>2. CASE f.tries < MaxTries
  <2>1. f.tries + 1 \in 0..MaxTries /\ f.tries + 1 > 0
    BY <1>1, <1>2, Parameters
  <2>2. Retried(f) = [f EXCEPT !.tries = f.tries + 1]
    BY <1>1, <1>2 DEF Retried, Frame
  <2> QED
    BY <1>1, <1>2, <2>1, <2>2 DEF Frames, Frame
<1>3. CASE ~(f.tries < MaxTries)
  BY <1>1, <1>3, NextChannelIs DEF Retried
<1> QED
  BY <1>1, <1>2, <1>3

-----------------------------------------------------------------------------
\* Steps that neither write a pipe nor touch a module

Quiet == UNCHANGED <<policy, list, mod, peer, owed, spoiled, astray>>

LEMMA QuietStep ==
    ASSUME IInv, Quiet, stack' \in Seq(Frames),
           buffer' \in Message \cup {None}, ids' \in Nat, started' \in 0..MaxBroadcasts
    PROVE  IInv'
<1>1. Frames' = Frames
  BY DEF Quiet, Frames
<1>2. Typed'
  BY <1>1 DEF IInv, Typed, Quiet
<1>3. ListOK' /\ PeersOK'
  BY DEF IInv, ListOK, PeersOK, Listed, Quiet
<1>4. StreamWhole'
  BY DEF IInv, StreamWhole, Alive, Quiet
<1>5. OneOfEachName'
  BY DEF IInv, OneOfEachName, Listed, Quiet
<1> QED
  BY <1>2, <1>3, <1>4, <1>5 DEF IInv

LEMMA BroadcastStep == ASSUME IInv, Broadcast PROVE IInv'
<1> DEFINE p == [to |-> Clients, type |-> "status"]
<1>1. p \in Packet
  BY DEF Packet, Types
<1>2. /\ Quiet /\ started < MaxBroadcasts /\ started' = started + 1
      /\ stack' = Calls(<<>>, <<p>>) /\ UNCHANGED <<buffer, ids>>
  BY DEF Broadcast, Quiet
<1> HIDE DEF p
<1>3. stack' \in Seq(Frames)
  <2>1. <<>> \in Seq(Frames)
    BY EmptySeq
  <2> QED
    BY <1>1, <1>2, <2>1, OnePacket, CallsIs
<1>4. started' \in 0..MaxBroadcasts
  BY <1>2, Parameters DEF IInv, Typed
<1> QED
  BY <1>2, <1>3, <1>4, QuietStep DEF IInv, Typed

LEMMA SendPacketIs ==
    ASSUME IInv, SendPacket
    PROVE  /\ stack # <<>> /\ Quiet /\ UNCHANGED started
           /\ buffer' \in Message /\ ids' \in Nat
           /\ Top.tries = 0 /\ \E g \in Frames : g.tries = 0 /\ stack' = SetTop(g)
<1>1. /\ stack # <<>> /\ Top.msg = None /\ Top.todo # <<>>
      /\ ids' = ids + 1 /\ Quiet /\ UNCHANGED started
  BY DEF SendPacket, Quiet
<1> DEFINE m == [id |-> ids + 1, type |-> Head(Top.todo).type]
           f == [Top EXCEPT !.todo = Tail(@), !.to = Head(Top.todo).to]
           g == IF list = <<>> THEN f ELSE [f EXCEPT !.msg = m, !.at = Len(list)]
<1>2. buffer' = m /\ stack' = SetTop(g)
  BY DEF SendPacket
<1>3. Typed /\ Top \in Frames /\ ids \in Nat
  BY <1>1, TopIs DEF IInv, Typed
<1>4. Top \in Frame /\ Top.todo \in Seq(Packet) /\ Head(Top.todo) \in Packet
      /\ Tail(Top.todo) \in Seq(Packet) /\ Top.tries = 0
  <2>1. Top \in Frame /\ ~(Top.tries > 0)
    BY <1>1, <1>3 DEF Frames
  <2>2. Top.todo \in Seq(Packet) /\ Top.tries \in Nat
    BY <2>1, Parameters DEF Frame
  <2> QED
    BY <1>1, <2>1, <2>2, HeadTailProperties
<1>5. m \in Message
  BY <1>3, <1>4 DEF Message, Packet
<1>6. f \in Frame /\ f.msg = None /\ f.tries = 0
  BY <1>1, <1>4 DEF Frame, Packet
<1>7. g \in Frames /\ g.tries = 0
  <2>1. CASE list = <<>>
    <3>1. g = f
      BY <2>1
    <3> HIDE DEF f, m, g
    <3> QED
      BY <1>6, <3>1 DEF Frames
  <2>2. CASE list # <<>>
    <3> DEFINE n == Len(list)
    <3>1. n \in 1..Len(list) /\ n \in Nat
      BY <1>3, <2>2, EmptySeq DEF Typed
    <3>2. g = [f EXCEPT !.msg = m, !.at = n]
      BY <2>2
    <3> HIDE DEF f, m, g, n
    <3>3. g \in Frame
      BY <1>5, <1>6, <3>1, <3>2 DEF Frame
    <3>4. g.at = n /\ g.tries = 0
      BY <1>6, <3>2 DEF Frame
    <3> QED
      BY <3>1, <3>3, <3>4 DEF Frames
  <2> QED
    BY <2>1, <2>2
<1> HIDE DEF g, m
<1> QED
  BY <1>1, <1>2, <1>3, <1>4, <1>5, <1>7

LEMMA SendPacketStep == ASSUME IInv, SendPacket PROVE IInv'
<1>1. stack' \in Seq(Frames)
  BY SendPacketIs, SetTopIs DEF IInv
<1> QED
  BY <1>1, SendPacketIs, QuietStep DEF IInv, Typed

LEMMA PacketsSentStep == ASSUME IInv, PacketsSent PROVE IInv'
<1>1. stack # <<>> /\ stack' = Front(stack) /\ Quiet /\ UNCHANGED <<buffer, ids, started>>
  BY DEF PacketsSent, Quiet
<1>2. Typed /\ stack \in Seq(Frames)
  BY DEF IInv, Typed
<1>3. \A i \in 1..(Len(stack) - 1) : stack[i] \in Frames
  BY <1>1, <1>2, TopIs, ElementOfSeq
<1>4. stack' \in Seq(Frames)
  BY <1>1, <1>2, <1>3, TopIs, SubSeqProperties DEF Front
<1> QED
  BY <1>1, <1>2, <1>4, QuietStep DEF Typed

-----------------------------------------------------------------------------
\* Steps that write, read or run commands

Cat(s, t) == s \o t
Said(c) == Cat(Cat(peer[c].heard, peer[c].socket), mod[c].queue)

LEMMA SaidIs == \A c : Said(c) = peer[c].heard \o peer[c].socket \o mod[c].queue
BY DEF Said, Cat

LEMMA CatIn == \A s, t \in Seq(Unit) : Cat(s, t) \in Seq(Unit)
BY ConcatProperties DEF Cat

LEMMA CatAssociative ==
    \A s, t, u \in Seq(Unit) : Cat(Cat(s, t), u) = Cat(s, Cat(t, u))
BY ConcatAssociative DEF Cat

LEMMA Regroup ==
    ASSUME NEW h \in Seq(Unit), NEW s \in Seq(Unit), NEW q \in Seq(Unit),
           NEW t \in Seq(Unit), NEW k \in Seq(Unit), Cat(t, k) = Cat(s, q)
    PROVE  Cat(Cat(h, t), k) = Cat(Cat(h, s), q)
BY CatAssociative

LEMMA Extended ==
    ASSUME NEW h \in Seq(Unit), NEW s \in Seq(Unit), NEW q \in Seq(Unit), NEW u \in Seq(Unit)
    PROVE  Cat(Cat(h, s), Cat(q, u)) = Cat(Cat(Cat(h, s), q), u)
BY CatIn, CatAssociative

\* A step that sends d nothing new: it dies, or what it was sent stays the same.
Carried(d) ==
    /\ mod'[d] = Dead \/ (mod[d].active # -1 /\ mod'[d].active # -1)
    /\ peer[d].life = "off" => mod'[d] = mod[d] /\ peer'[d] = peer[d]
    /\ peer'[d].life = "off" => peer[d].life = "off"
    /\ peer'[d].life = "up" /\ mod'[d].active # -1 => peer[d].life = "up" /\ Said(d)' = Said(d)
    /\ Len(peer'[d].socket) <= Room

LEMMA CarriedStep ==
    ASSUME IInv, UNCHANGED <<policy, list, buffer, ids, started, owed, spoiled>>,
           mod' \in [Clients -> Module], peer' \in [Clients -> Peer],
           stack' \in Seq(Frames), astray' \subseteq Clients,
           \A d \in Clients : Carried(d), UniqueNames(mod')
    PROVE  IInv'
<1>1. Frames' = Frames /\ Listed' = Listed
  BY DEF Frames, Listed
<1>2. Typed'
  BY <1>1 DEF IInv, Typed
<1>3. ListOK'
  BY <1>1 DEF IInv, ListOK, Carried
<1>4. PeersOK'
  BY DEF IInv, PeersOK, Carried
<1>5. StreamWhole'
  <2> SUFFICES ASSUME NEW c \in Clients \ spoiled, mod'[c].active >= 0, peer'[c].life = "up"
               PROVE  Said(c)' = owed[c]
    BY DEF StreamWhole, Alive, Said, Cat
  <2>1. mod'[c].active # -1 /\ mod[c] \in Module
    BY DEF IInv, Typed, Module
  <2>2. Said(c)' = Said(c) /\ peer[c].life = "up" /\ mod[c].active # -1
    BY <2>1, DeadIs DEF Carried
  <2>3. mod[c].active >= 0
    BY <2>1, <2>2 DEF Module
  <2> QED
    BY <2>2, <2>3, SaidIs DEF IInv, StreamWhole, Alive
<1>6. OneOfEachName'
  BY <1>1 DEF OneOfEachName, UniqueNames
<1> QED
  BY <1>2, <1>3, <1>4, <1>5, <1>6 DEF IInv

LEMMA SameCarried ==
    ASSUME IInv, NEW d \in Clients, mod'[d] = mod[d], peer'[d] = peer[d]
    PROVE  Carried(d)
<1>1. mod[d] \in Module
  BY DEF IInv, Typed
<1> QED
  BY <1>1 DEF IInv, ListOK, PeersOK, Carried, Said

LEMMA NamesUnique == IInv => UniqueNames(mod)
BY DEF IInv, OneOfEachName, UniqueNames

\* The message is appended to the queue of the module whose turn it is.
LEMMA PositiveWriteStep == ASSUME IInv, PositiveWrite PROVE IInv'
<1> DEFINE f == Top
           c == list[f.at]
           asks(m) == c \in f.to /\ mod[c].active >= 0 /\ m.type \in mod[c].mask
           u == Units(f.msg, Size[f.msg.type])
<1>1. stack # <<>> /\ f.msg # None /\ f.tries = 0
      /\ UNCHANGED <<policy, list, peer, buffer, ids, started>>
  BY DEF PositiveWrite
<1>2. PICK b \in {buffer, f.msg}, grabbed \in BOOLEAN :
        /\ mod' = IF asks(b) THEN [mod EXCEPT ![c].queue = @ \o Units(b, Size[f.msg.type])]
                             ELSE mod
        /\ LET waits == asks(b) /\ b.type \in mod[c].lock /\ ~grabbed
           IN  /\ stack' = SetTop(IF waits THEN [f EXCEPT !.tries = 1] ELSE NextChannel(f))
               /\ astray' = IF asks(b) /\ b.type \in Locks[c] /\ (~waits \/ WaitedFor(c))
                            THEN astray \cup {c} ELSE astray
        /\ owed' = IF asks(f.msg) THEN [owed EXCEPT ![c] = @ \o u] ELSE owed
        /\ spoiled' = IF b # f.msg /\ (asks(b) \/ asks(f.msg)) THEN spoiled \cup {c}
                      ELSE spoiled
  BY DEF PositiveWrite
<1>3. Typed /\ ListOK /\ PeersOK
  BY DEF IInv
<1>4. f \in Frames /\ f.msg \in Message /\ f.at \in 1..Len(list) /\ c \in Clients
  <2>1. f \in Frames
    BY <1>1, <1>3, TopIs
  <2>2. f.msg \in Message /\ f.at \in 1..Len(list)
    BY <1>1, <2>1 DEF Frames, Frame
  <2> QED
    BY <1>3, <2>1, <2>2, ListIs
<1>5. mod[c] \in Module /\ peer[c] \in Peer /\ mod[c].queue \in Seq(Unit)
  BY <1>3, <1>4 DEF Typed, Module
<1>6. u \in Seq(Unit) /\ Size[f.msg.type] \in 1..2
  BY <1>4, UnitsIn DEF Message, Size, Types
<1> DEFINE v == Units(b, Size[f.msg.type])
<1>7. asks(b) => v \in Seq(Unit)
  <2> SUFFICES ASSUME asks(b) PROVE v \in Seq(Unit)
    OBVIOUS
  <2>1. b \in Message \cup {None}
    BY <1>3, <1>4 DEF Typed
  <2>2. b.type \in Types
    BY <1>5 DEF Module
  <2>3. b \in Message
    BY <2>1, <2>2 DEF None, Types
  <2> QED
    BY <1>6, <2>3, UnitsAre
<1> DEFINE n == [mod[c] EXCEPT !.queue = mod[c].queue \o v]
<1>8. mod' = IF asks(b) THEN [mod EXCEPT ![c] = n] ELSE mod
  BY <1>2, <1>3, <1>4 DEF Typed
<1>9. asks(b) => /\ n \in Module /\ n.queue = mod[c].queue \o v /\ n.active = mod[c].active
                 /\ n.named = mod[c].named
  <2> SUFFICES ASSUME asks(b)
               PROVE  /\ n \in Module /\ n.queue = mod[c].queue \o v
                      /\ n.active = mod[c].active /\ n.named = mod[c].named
    OBVIOUS
  <2>1. mod[c].queue \o v \in Seq(Unit)
    BY <1>5, <1>7, ConcatProperties
  <2> QED
    BY <1>5, <2>1 DEF Module
<1>10. stack' \in Seq(Frames)
  <2>1. NextChannel(f) \in Frames
    BY <1>1, <1>3, <1>4, NextChannelIs
  <2> DEFINE one == 1
             g == [f EXCEPT !.tries = one]
  <2>2. g \in Frames
    <3>1. one \in 0..MaxTries
      BY Parameters
    <3> HIDE DEF one, f
    <3>2. g \in Frame /\ g.at = f.at /\ g.msg = f.msg
      BY <1>4, <3>1 DEF Frames, Frame
    <3> QED
      BY <1>1, <1>4, <3>2 DEF Frames, f
  <2>3. \E h \in Frames : stack' = SetTop(h)
    BY <1>2, <2>1, <2>2
  <2> QED
    BY <1>1, <1>3, <2>3, SetTopIs
<1> HIDE DEF f, c, u, v, n
<1>11. /\ mod' \in [Clients -> Module]
       /\ \A d \in Clients : d # c => mod'[d] = mod[d]
       /\ mod'[c] = IF asks(b) THEN n ELSE mod[c]
  BY <1>3, <1>4, <1>8, <1>9 DEF Typed
<1>12. /\ owed' \in [Clients -> Seq(Unit)]
       /\ \A d \in Clients : d # c => owed'[d] = owed[d]
       /\ owed'[c] = IF asks(f.msg) THEN owed[c] \o u ELSE owed[c]
  <2>1. owed[c] \o u \in Seq(Unit)
    BY <1>3, <1>4, <1>6, ConcatProperties DEF Typed
  <2> QED
    BY <1>2, <1>3, <1>4, <2>1 DEF Typed
<1>13. Typed'
  <2>1. Frames' = Frames
    BY <1>1 DEF Frames
  <2>2. spoiled' \subseteq Clients /\ astray' \subseteq Clients
    BY <1>2, <1>3, <1>4 DEF Typed
  <2> QED
    BY <1>1, <1>3, <1>10, <1>11, <1>12, <2>1, <2>2 DEF Typed
<1>14. ListOK'
  <2>1. \A d \in Clients : mod'[d] = mod[d] \/ (mod[d].active >= 0 /\ mod'[d].active = mod[d].active)
    BY <1>9, <1>11
  <2> QED
    BY <1>1, <1>3, <2>1 DEF ListOK, Listed
<1>15. peer[c].life = "off" => ~asks(b) /\ ~asks(f.msg)
  BY <1>3, <1>4, DeadIs DEF PeersOK
<1>16. PeersOK'
  BY <1>1, <1>3, <1>11, <1>12, <1>15 DEF PeersOK
<1>17. StreamWhole'
  <2> SUFFICES ASSUME NEW d \in Clients \ spoiled', mod'[d].active >= 0, peer[d].life = "up"
               PROVE  Said(d)' = owed'[d]
    BY <1>1 DEF StreamWhole, Alive, Said, Cat
  <2>1. d \notin spoiled
    BY <1>2
  <2>2. mod[d].active >= 0
    BY <1>9, <1>11
  <2>3. Said(d) = owed[d]
    BY <2>1, <2>2, SaidIs DEF IInv, StreamWhole, Alive
  <2>4. CASE d # c \/ (~asks(b) /\ ~asks(f.msg))
    BY <1>1, <1>11, <1>12, <2>3, <2>4 DEF Said
  <2>5. CASE d = c /\ (asks(b) \/ asks(f.msg))
    <3>1. b = f.msg /\ asks(b)
      BY <1>2, <2>5
    <3>2. v = u
      BY <3>1 DEF u, v
    <3>3. mod'[d].queue = Cat(mod[d].queue, u)
      BY <1>9, <1>11, <2>5, <3>1, <3>2 DEF Cat
    <3>4. peer[d].heard \in Seq(Unit) /\ peer[d].socket \in Seq(Unit) /\ mod[d].queue \in Seq(Unit)
      BY <1>5, <2>5 DEF Peer
    <3>5. Said(d)' = Cat(Said(d), u)
      BY <1>1, <1>6, <3>3, <3>4, Extended DEF Said
    <3>6. owed'[d] = Cat(owed[d], u)
      BY <1>12, <2>5, <3>1 DEF Cat
    <3> QED
      BY <2>3, <3>5, <3>6
  <2> QED
    BY <2>4, <2>5
<1>18. OneOfEachName'
  <2>1. \A d \in Clients : mod'[d].named = mod[d].named
    BY <1>9, <1>11
  <2>2. Listed' = Listed /\ Listed \subseteq Clients
    BY <1>1, <1>3, ListIs DEF Listed
  <2> QED
    BY <1>1, <2>1, <2>2 DEF IInv, OneOfEachName
<1> QED
  BY <1>13, <1>14, <1>16, <1>17, <1>18 DEF IInv

LEMMA DeadCarried ==
    ASSUME IInv, NEW d \in Clients, mod'[d] = Dead, peer'[d].life = peer[d].life,
           peer[d].life = "off" => peer'[d] = peer[d], Len(peer'[d].socket) <= Room
    PROVE  Carried(d)
BY DeadIs DEF IInv, PeersOK, Carried

LEMMA FlushedCarried ==
    ASSUME IInv, NEW d \in Clients, mod[d].active # -1, FlushQueue(d).module # Dead,
           mod'[d].active # -1, mod'[d].queue = FlushQueue(d).module.queue,
           peer'[d].life = peer[d].life, peer'[d].heard = peer[d].heard,
           peer'[d].socket = FlushQueue(d).socket
    PROVE  Carried(d)
<1>1. Typed /\ PeersOK
  BY DEF IInv
<1> DEFINE r == FlushQueue(d)
<1>2. r.module \in Module /\ r.socket \in Seq(Unit) /\ Len(r.socket) <= Room
  BY <1>1, FlushQueueIs
<1>3. Flushed(mod[d], peer[d].socket, r)
  BY <1>1, FlushQueueIs
<1>4. mod[d].queue \in Seq(Unit) /\ peer[d].socket \in Seq(Unit) /\ peer[d].heard \in Seq(Unit)
      /\ r.module.queue \in Seq(Unit)
  BY <1>1, <1>2 DEF Typed, Module, Peer
<1>5. Cat(r.socket, r.module.queue) = Cat(peer[d].socket, mod[d].queue)
  BY <1>3 DEF Flushed, Cat
<1> HIDE DEF r
<1>6. Cat(Cat(peer[d].heard, r.socket), r.module.queue)
        = Cat(Cat(peer[d].heard, peer[d].socket), mod[d].queue)
  BY <1>2, <1>4, <1>5, Regroup
<1>7. Said(d)' = Said(d)
  BY <1>6 DEF Said, r
<1>8. peer[d].life # "off"
  BY <1>1, DeadIs DEF PeersOK
<1> QED
  BY <1>2, <1>7, <1>8 DEF Carried, r

LEMMA NamesFewer ==
    ASSUME IInv, NEW new, \A d \in Clients : new[d].named => mod[d].named
    PROVE  UniqueNames(new)
<1>1. Listed \subseteq Clients
  BY ListIs DEF IInv
<1> QED
  BY <1>1 DEF IInv, OneOfEachName, UniqueNames

\* The command read is the first the client sent.
LEMMA IncomingIs ==
    ASSUME Typed, NEW c \in Clients, Incoming(c) \notin {"eof", "nothing"}
    PROVE  Tail(peer[c].cmds) \in Seq(Commands)
<1>1. peer[c].cmds # <<>>
  BY DEF Incoming
<1> QED
  BY <1>1, HeadTailProperties DEF Typed, Peer

\* A step that serves one client: the others at most die.
LEMMA ServedStep ==
    ASSUME IInv, UNCHANGED <<policy, list, buffer, ids, started, owed, spoiled>>,
           NEW c \in Clients, mod[c].active # -1,
           mod' \in [Clients -> Module], UniqueNames(mod'),
           \A d \in Clients : d # c => mod'[d] = mod[d] \/ mod'[d] = Dead,
           peer' \in [Clients -> Peer], \A d \in Clients : d # c => peer'[d] = peer[d],
           peer'[c].life = peer[c].life, Len(peer'[c].socket) <= Room,
           mod'[c] = Dead \/ Carried(c),
           stack' \in Seq(Frames), astray' \subseteq Clients
    PROVE  IInv'
<1>1. peer[c].life # "off"
  BY DeadIs DEF IInv, PeersOK
<1>2. ASSUME NEW d \in Clients, d # c PROVE Carried(d)
  <2>1. CASE mod'[d] = Dead
    <3>1. Len(peer'[d].socket) <= Room
      BY <1>2 DEF IInv, PeersOK
    <3> QED
      BY <1>2, <2>1, <3>1, DeadCarried
  <2>2. CASE mod'[d] = mod[d]
    BY <1>2, <2>2, SameCarried
  <2> QED
    BY <1>2, <2>1, <2>2
<1>3. Carried(c)
  BY <1>1, DeadCarried
<1>4. \A d \in Clients : Carried(d)
  BY <1>2, <1>3
<1> QED
  BY <1>4, CarriedStep

LEMMA AwaitUnlockStep == ASSUME IInv, AwaitUnlock PROVE IInv'
<1> DEFINE f == Top
           c == list[f.at]
           r == FlushQueue(c)
           cmd == Incoming(c)
           flushed == [mod EXCEPT ![c] = r.module]
           ended == SetTop(NextChannel(f))
           again == SetTop(Retried(f))
           late == IF f.tries < MaxTries THEN astray ELSE astray \cup {c}
           cmds == Tail(peer[c].cmds)
           written == [peer EXCEPT ![c].socket = r.socket]
           rest == [peer EXCEPT ![c].socket = r.socket, ![c].cmds = cmds]
           ran == RunCommand(c, cmd, flushed)
           called == Calls(again, CommandSends(c, cmd))
<1>1. Typed /\ ListOK /\ PeersOK /\ stack # <<>> /\ f.tries > 0
      /\ UNCHANGED <<policy, list, buffer, ids, started, owed, spoiled>>
  BY DEF IInv, AwaitUnlock
<1>2. f \in Frames /\ f.msg # None /\ f.at \in 1..Len(list) /\ c \in Clients
  <2>1. f \in Frames
    BY <1>1, TopIs
  <2>2. f.msg # None /\ f.at \in 1..Len(list)
    BY <1>1, <2>1, RetriedIs
  <2> QED
    BY <1>1, <2>1, <2>2, ListIs
<1>3. \/ r.res < 0 /\ mod' = flushed /\ stack' = ended /\ UNCHANGED <<peer, astray>>
      \/ /\ r.res >= 0 /\ mod' = [mod EXCEPT ![c] = Dead] /\ stack' = ended
         /\ UNCHANGED <<peer, astray>>
      \/ /\ r.res >= 0 /\ mod' = flushed /\ stack' = again /\ astray' = late
         /\ peer' = written
      \/ /\ r.res >= 0 /\ cmd \notin {"eof", "nothing"} /\ mod' = flushed /\ stack' = ended
         /\ astray' \in {astray, astray \cup {c}} /\ peer' = rest
      \/ /\ r.res >= 0 /\ cmd \notin {"eof", "nothing"} /\ mod' = ran /\ stack' = called
         /\ astray' = late /\ peer' = rest
  <2>1. peer \in [Clients -> Peer] /\ c \in Clients
    BY <1>1, <1>2 DEF Typed
  <2>2. [peer EXCEPT ![c].socket = r.socket, ![c].cmds = Tail(@)] = rest
    BY <2>1 DEF Peer
  <2> QED
    BY <2>2 DEF AwaitUnlock, Unlocks
<1>4. ended \in Seq(Frames) /\ again \in Seq(Frames)
  BY <1>1, <1>2, NextChannelIs, RetriedIs, SetTopIs
<1>5. called \in Seq(Frames)
  BY <1>2, <1>4, CallsIs, CommandSendsIs
<1>6. astray' \subseteq Clients
  BY <1>1, <1>2, <1>3 DEF Typed
<1>7. /\ r.module \in Module /\ r.socket \in Seq(Unit) /\ Len(r.socket) <= Room
      /\ r.module = Dead \/ Flushed(mod[c], peer[c].socket, r)
      /\ r.res < 0 => r.module = Dead \/ (r.module = mod[c] /\ mod[c].active <= 0)
      /\ r.res >= 0 => mod[c].active > 0 /\ Flushed(mod[c], peer[c].socket, r)
  BY <1>1, <1>2, FlushQueueIs
<1>8. mod \in [Clients -> Module] /\ peer \in [Clients -> Peer] /\ mod[c] \in Module
  BY <1>1, <1>2 DEF Typed
<1>9. cmd \notin {"eof", "nothing"} => cmds \in Seq(Commands)
  BY <1>1, <1>2, IncomingIs
<1> HIDE DEF f, c, r, cmd, ended, again, late, cmds, called
<1>10. flushed \in [Clients -> Module] /\ flushed[c] = r.module
       /\ \A d \in Clients : d # c => flushed[d] = mod[d]
  BY <1>2, <1>7, <1>8
<1> HIDE DEF flushed
<1>11. UniqueNames(flushed)
  <2>1. \A d \in Clients : flushed[d].named => mod[d].named
    BY <1>7, <1>10, DeadIs DEF Flushed
  <2> QED
    BY <2>1, NamesFewer
<1>12. /\ ran \in [Clients -> Module] /\ UniqueNames(ran)
       /\ \A d \in Clients : After(c, d, flushed[d], ran[d])
  BY <1>1, <1>2, <1>10, <1>11, RunCommandIs
<1> HIDE DEF ran
<1>13. written \in [Clients -> Peer] /\ written[c].socket = r.socket
       /\ written[c].life = peer[c].life /\ written[c].heard = peer[c].heard
       /\ \A d \in Clients : d # c => written[d] = peer[d]
  BY <1>2, <1>7, <1>8 DEF Peer
<1>14. cmd \notin {"eof", "nothing"} =>
         /\ rest \in [Clients -> Peer] /\ rest[c].socket = r.socket
         /\ rest[c].life = peer[c].life /\ rest[c].heard = peer[c].heard
         /\ \A d \in Clients : d # c => rest[d] = peer[d]
  BY <1>2, <1>7, <1>8, <1>9 DEF Peer
<1> HIDE DEF written, rest
<1>15. CASE r.res < 0 /\ mod' = flushed /\ stack' = ended /\ UNCHANGED <<peer, astray>>
  <2>1. mod'[c] = mod[c] \/ mod'[c] = Dead
    BY <1>7, <1>10, <1>15
  <2>2. ASSUME NEW d \in Clients PROVE Carried(d)
    <3>1. mod'[d] = mod[d] \/ mod'[d] = Dead
      BY <1>10, <1>15, <2>1
    <3>2. peer'[d] = peer[d] /\ Len(peer[d].socket) <= Room
      BY <1>1, <1>15 DEF PeersOK
    <3> QED
      BY <3>1, <3>2, SameCarried, DeadCarried
  <2> QED
    BY <1>1, <1>4, <1>6, <1>8, <1>10, <1>11, <1>15, <2>2, CarriedStep
<1>16. CASE /\ r.res >= 0 /\ mod' = [mod EXCEPT ![c] = Dead] /\ stack' = ended
            /\ UNCHANGED <<peer, astray>>
  <2>1. /\ mod' \in [Clients -> Module] /\ mod'[c] = Dead
        /\ \A d \in Clients : d # c => mod'[d] = mod[d]
    BY <1>2, <1>8, <1>16, DeadIs
  <2>2. \A d \in Clients : mod'[d].named => mod[d].named
    BY <2>1, DeadIs
  <2>3. UniqueNames(mod')
    BY <2>2, NamesFewer
  <2>4. peer'[c].life = peer[c].life /\ Len(peer'[c].socket) <= Room
    BY <1>1, <1>2, <1>16 DEF PeersOK
  <2>5. mod[c].active # -1
    BY <1>7, <1>16
  <2> QED
    BY <1>1, <1>2, <1>4, <1>6, <1>8, <1>16, <2>1, <2>3, <2>4, <2>5, ServedStep
<1>17. CASE /\ r.res >= 0
            /\ mod' = flushed \/ mod' = ran
            /\ peer' \in [Clients -> Peer] /\ peer'[c].socket = r.socket
            /\ peer'[c].life = peer[c].life /\ peer'[c].heard = peer[c].heard
            /\ \A d \in Clients : d # c => peer'[d] = peer[d]
            /\ stack' \in Seq(Frames)
  <2>1. mod[c].active # -1
    BY <1>7, <1>17
  <2>2. mod' \in [Clients -> Module] /\ UniqueNames(mod')
        /\ \A d \in Clients : After(c, d, flushed[d], mod'[d])
    BY <1>10, <1>11, <1>12, <1>17 DEF After
  <2>3. \A d \in Clients : d # c => mod'[d] = mod[d] \/ mod'[d] = Dead
    BY <1>10, <2>2 DEF After
  <2>4. ASSUME mod'[c] # Dead PROVE Carried(c)
    <3>1. Flushed(mod[c], peer[c].socket, r) /\ r.module # Dead
      BY <1>7, <1>17, <2>1, DeadIs DEF Flushed
    <3>2. mod'[c].active = r.module.active /\ mod'[c].queue = r.module.queue
      BY <1>2, <1>10, <2>2, <2>4 DEF After
    <3>3. mod'[c].active # -1
      BY <2>1, <3>1, <3>2 DEF Flushed
    <3> QED
      BY <1>2, <1>17, <2>1, <3>1, <3>2, <3>3, FlushedCarried DEF r
  <2> QED
    BY <1>1, <1>2, <1>6, <1>7, <1>17, <2>1, <2>2, <2>3, <2>4, ServedStep
<1> QED
  BY <1>3, <1>4, <1>5, <1>13, <1>14, <1>15, <1>16, <1>17

LEMMA HandleModuleInputStep ==
    ASSUME IInv, NEW c \in Clients, HandleModuleInput(c) PROVE IInv'
<1> DEFINE cmd == Incoming(c)
           one == 1
           m == [mod[c] EXCEPT !.active = one]
           heeded == [mod EXCEPT ![c] = m]
           cmds == Tail(peer[c].cmds)
           p == [peer[c] EXCEPT !.cmds = cmds]
           ran == RunCommand(c, cmd, heeded)
           called == Calls(<<>>, CommandSends(c, cmd))
<1>1. /\ stack = <<>> /\ c \in Listed /\ mod[c].active >= 0
      /\ UNCHANGED <<policy, list, buffer, ids, started, owed, spoiled, astray>>
  BY DEF HandleModuleInput
<1>2. Typed /\ ListOK /\ PeersOK
  BY DEF IInv
<1>3. mod \in [Clients -> Module] /\ peer \in [Clients -> Peer]
      /\ mod[c] \in Module /\ peer[c] \in Peer
  BY <1>2 DEF Typed
<1>4. \/ mod' = [mod EXCEPT ![c] = Dead] /\ UNCHANGED <<peer, stack>>
      \/ /\ cmd \notin {"eof", "nothing"} /\ peer' = [peer EXCEPT ![c] = p]
         /\ mod' = ran /\ stack' = called
  <2>1. [mod EXCEPT ![c].active = 1] = heeded /\ [peer EXCEPT ![c].cmds = Tail(@)] = [peer EXCEPT ![c] = p]
    BY <1>3
  <2> QED
    BY <2>1 DEF HandleModuleInput
<1>5. mod[c].active # -1 /\ Len(peer[c].socket) <= Room /\ astray' \subseteq Clients
  BY <1>1, <1>2 DEF PeersOK, Typed
<1>6. called \in Seq(Frames)
  <2>1. <<>> \in Seq(Frames)
    BY EmptySeq
  <2> QED
    BY <2>1, CallsIs, CommandSendsIs
<1>7. cmd \notin {"eof", "nothing"} => cmds \in Seq(Commands)
  BY <1>2, IncomingIs
<1>8. m \in Module /\ m.active = 1 /\ m.queue = mod[c].queue /\ m.named = mod[c].named
  BY <1>3 DEF Module
<1> HIDE DEF cmd, m, cmds, called
<1>9. heeded \in [Clients -> Module] /\ heeded[c] = m
      /\ \A d \in Clients : d # c => heeded[d] = mod[d]
  BY <1>3, <1>8
<1> HIDE DEF heeded
<1>10. UniqueNames(heeded)
  <2>1. \A d \in Clients : heeded[d].named => mod[d].named
    BY <1>8, <1>9
  <2> QED
    BY <2>1, NamesFewer
<1>11. /\ ran \in [Clients -> Module] /\ UniqueNames(ran)
       /\ \A d \in Clients : After(c, d, heeded[d], ran[d])
  BY <1>2, <1>9, <1>10, RunCommandIs
<1> HIDE DEF ran
<1>12. cmd \notin {"eof", "nothing"} =>
         /\ p \in Peer /\ p.socket = peer[c].socket /\ p.life = peer[c].life
         /\ p.heard = peer[c].heard
  BY <1>3, <1>7 DEF Peer
<1> HIDE DEF p
<1>13. CASE mod' = [mod EXCEPT ![c] = Dead] /\ UNCHANGED <<peer, stack>>
  <2>1. /\ mod' \in [Clients -> Module] /\ mod'[c] = Dead
        /\ \A d \in Clients : d # c => mod'[d] = mod[d]
    BY <1>3, <1>13, DeadIs
  <2>2. \A d \in Clients : mod'[d].named => mod[d].named
    BY <2>1, DeadIs
  <2>3. UniqueNames(mod')
    BY <2>2, NamesFewer
  <2>4. stack' \in Seq(Frames)
    BY <1>2, <1>13 DEF Typed
  <2> QED
    BY <1>1, <1>3, <1>5, <1>13, <2>1, <2>3, <2>4, ServedStep
<1>14. CASE /\ cmd \notin {"eof", "nothing"} /\ peer' = [peer EXCEPT ![c] = p]
            /\ mod' = ran /\ stack' = called
  <2>1. /\ peer' \in [Clients -> Peer] /\ peer'[c] = p
        /\ \A d \in Clients : d # c => peer'[d] = peer[d]
    BY <1>3, <1>12, <1>14
  <2>2. \A d \in Clients : d # c => mod'[d] = mod[d] \/ mod'[d] = Dead
    BY <1>9, <1>11, <1>14 DEF After
  <2>3. ASSUME mod'[c] # Dead PROVE Carried(c)
    <3>1. mod'[c].active = 1 /\ mod'[c].queue = mod[c].queue
      BY <1>8, <1>9, <1>11, <1>14, <2>3 DEF After
    <3>2. Said(c)' = Said(c)
      BY <1>12, <1>14, <2>1, <3>1 DEF Said
    <3>3. peer[c].life # "off"
      BY <1>2, <1>5, DeadIs DEF PeersOK
    <3> QED
      BY <1>5, <1>12, <1>14, <2>1, <3>1, <3>2, <3>3 DEF Carried
  <2>4. peer'[c].life = peer[c].life /\ Len(peer'[c].socket) <= Room
    BY <1>5, <1>12, <1>14, <2>1
  <2>5. stack' \in Seq(Frames) /\ mod' \in [Clients -> Module] /\ UniqueNames(mod')
    BY <1>6, <1>11, <1>14
  <2> QED
    BY <1>1, <1>5, <2>1, <2>2, <2>3, <2>4, <2>5, ServedStep
<1> QED
  BY <1>4, <1>13, <1>14

LEMMA HandleModuleOutputStep ==
    ASSUME IInv, NEW c \in Clients, HandleModuleOutput(c) PROVE IInv'
<1> DEFINE r == FlushQueue(c)
<1>1. /\ stack = <<>> /\ c \in Listed /\ mod[c].queue # <<>>
      /\ mod' = [mod EXCEPT ![c] = r.module]
      /\ peer' = [peer EXCEPT ![c].socket = r.socket]
      /\ UNCHANGED <<policy, list, stack, buffer, ids, started, owed, spoiled, astray>>
  BY DEF HandleModuleOutput
<1>2. Typed /\ ListOK /\ PeersOK
  BY DEF IInv
<1>3. mod \in [Clients -> Module] /\ peer \in [Clients -> Peer]
  BY <1>2 DEF Typed
<1>4. /\ r.module \in Module /\ r.socket \in Seq(Unit) /\ Len(r.socket) <= Room
      /\ r.module = Dead \/ Flushed(mod[c], peer[c].socket, r)
  BY <1>2, FlushQueueIs
<1>5. mod[c].active # -1
  BY <1>1, <1>2, DeadIs DEF ListOK
<1> HIDE DEF r
<1>6. /\ mod' \in [Clients -> Module] /\ mod'[c] = r.module
      /\ \A d \in Clients : d # c => mod'[d] = mod[d]
  BY <1>1, <1>3, <1>4
<1>7. /\ peer' \in [Clients -> Peer] /\ peer'[c].socket = r.socket
      /\ peer'[c].life = peer[c].life /\ peer'[c].heard = peer[c].heard
      /\ \A d \in Clients : d # c => peer'[d] = peer[d]
  BY <1>1, <1>3, <1>4 DEF Peer
<1>8. UniqueNames(mod')
  <2>1. \A d \in Clients : mod'[d].named => mod[d].named
    BY <1>4, <1>6, DeadIs DEF Flushed
  <2> QED
    BY <2>1, NamesFewer
<1>9. mod'[c] = Dead \/ Carried(c)
  <2> SUFFICES ASSUME mod'[c] # Dead PROVE Carried(c)
    OBVIOUS
  <2>1. mod'[c].active # -1
    BY <1>4, <1>5, <1>6 DEF Flushed
  <2> QED
    BY <1>5, <1>6, <1>7, <2>1, FlushedCarried DEF r
<1>10. stack' \in Seq(Frames) /\ astray' \subseteq Clients
  BY <1>1, <1>2 DEF Typed
<1> QED
  BY <1>1, <1>4, <1>5, <1>6, <1>7, <1>8, <1>9, <1>10, ServedStep

-----------------------------------------------------------------------------
\* Steps of the modules

\* One client's end changes, and what it has heard and is to hear stays the same.
LEMMA PeerStep ==
    ASSUME IInv, NEW c \in Clients, NEW p \in Peer, peer' = [peer EXCEPT ![c] = p],
           UNCHANGED <<policy, list, mod, stack, buffer, ids, started, owed, spoiled, astray>>,
           peer[c].life = "up", p.life # "off", Len(p.socket) <= Room,
           p.life = "up" => Cat(p.heard, p.socket) = Cat(peer[c].heard, peer[c].socket)
    PROVE  IInv'
<1>1. mod \in [Clients -> Module] /\ peer \in [Clients -> Peer] /\ stack \in Seq(Frames)
      /\ astray \subseteq Clients
  BY DEF IInv, Typed
<1>2. peer' \in [Clients -> Peer] /\ peer'[c] = p
      /\ \A d \in Clients : d # c => peer'[d] = peer[d]
  BY <1>1
<1>3. ASSUME NEW d \in Clients PROVE Carried(d)
  <2>1. CASE d # c
    BY <1>2, <2>1, SameCarried
  <2>2. CASE d = c
    <3>1. mod[d] = Dead \/ mod[d].active # -1
      BY DEF IInv, ListOK
    <3>2. p.life = "up" => Said(d)' = Said(d)
      BY <1>2, <2>2 DEF Said
    <3> QED
      BY <1>2, <2>2, <3>1, <3>2 DEF Carried
  <2> QED
    BY <2>1, <2>2
<1> QED
  BY <1>1, <1>2, <1>3, NamesUnique, CarriedStep

LEMMA SpeakStep == ASSUME IInv, NEW c \in Clients, Speak(c) PROVE IInv'
<1> DEFINE script == Tail(peer[c].script)
           cmds == Append(peer[c].cmds, Head(peer[c].script))
           p == [peer[c] EXCEPT !.script = script, !.cmds = cmds]
<1>1. /\ peer[c].life = "up" /\ peer[c].script # <<>> /\ peer \in [Clients -> Peer]
      /\ Len(peer[c].socket) <= Room
      /\ UNCHANGED <<policy, list, mod, stack, buffer, ids, started, owed, spoiled, astray>>
  BY DEF Speak, Up, IInv, Typed, PeersOK
<1>2. peer' = [peer EXCEPT ![c] = p]
  BY <1>1 DEF Speak
<1>3. script \in Seq(Commands \ {"unlock"}) /\ cmds \in Seq(Commands)
  <2>1. peer[c].script \in Seq(Commands \ {"unlock"}) /\ peer[c].cmds \in Seq(Commands)
    BY <1>1 DEF Peer
  <2> QED
    BY <1>1, <2>1, HeadTailProperties, AppendProperties
<1> HIDE DEF script, cmds
<1>4. p \in Peer /\ p.life = peer[c].life /\ p.socket = peer[c].socket /\ p.heard = peer[c].heard
  BY <1>1, <1>3 DEF Peer
<1> HIDE DEF p
<1> QED
  BY <1>1, <1>2, <1>4, PeerStep

LEMMA ChatStep == ASSUME IInv, NEW c \in Clients, Chat(c) PROVE IInv'
<1>1. /\ peer[c].life = "up" /\ peer \in [Clients -> Peer] /\ Len(peer[c].socket) <= Room
      /\ UNCHANGED <<policy, list, mod, stack, buffer, ids, started, owed, spoiled, astray>>
  BY DEF Chat, Up, IInv, Typed, PeersOK
<1>2. PICK x \in Chatter[c] : peer' = [peer EXCEPT ![c].cmds = <<x>>]
  BY DEF Chat
<1> DEFINE cmds == <<x>>
           p == [peer[c] EXCEPT !.cmds = cmds]
<1>3. peer' = [peer EXCEPT ![c] = p]
  BY <1>1, <1>2
<1>4. cmds \in Seq(Commands)
  BY <1>2, Parameters DEF Commands
<1> HIDE DEF cmds
<1>5. p \in Peer /\ p.life = peer[c].life /\ p.socket = peer[c].socket /\ p.heard = peer[c].heard
  BY <1>1, <1>4 DEF Peer
<1> HIDE DEF p
<1> QED
  BY <1>1, <1>3, <1>5, PeerStep

LEMMA DieStep == ASSUME IInv, NEW c \in Clients, Die(c) PROVE IInv'
<1> DEFINE gone == "gone"
           none == <<>>
           p == [peer[c] EXCEPT !.life = gone, !.socket = none]
<1>1. /\ peer[c].life = "up" /\ peer \in [Clients -> Peer]
      /\ UNCHANGED <<policy, list, mod, stack, buffer, ids, started, owed, spoiled, astray>>
  BY DEF Die, IInv, Typed
<1>2. peer' = [peer EXCEPT ![c] = p]
  BY <1>1 DEF Die
<1>3. gone \in {"off", "up", "gone"} /\ none \in Seq(Unit) /\ gone # "up" /\ gone # "off"
      /\ Len(none) <= Room
  BY EmptySeq, Parameters
<1> HIDE DEF gone, none
<1>4. p \in Peer /\ p.life = gone /\ p.socket = none
  BY <1>1, <1>3 DEF Peer
<1> HIDE DEF p
<1> QED
  BY <1>1, <1>2, <1>3, <1>4, PeerStep

LEMMA ReadPacketStep == ASSUME IInv, NEW c \in Clients, ReadPacket(c) PROVE IInv'
<1> DEFINE s == peer[c].socket
           h == peer[c].heard
           n == IF Head(s).part = 1 THEN Size[Head(s).msg.type] ELSE 1
           read == SubSeq(s, 1, n)
           left == SubSeq(s, n + 1, Len(s))
           heard == h \o read
           cmds == IF Head(s).part = 1 /\ Head(s).msg.type \in Locks[c]
                   THEN Append(peer[c].cmds, "unlock") ELSE peer[c].cmds
           p == [peer[c] EXCEPT !.socket = left, !.heard = heard, !.cmds = cmds]
<1>1. /\ peer[c].life = "up" /\ s # <<>> /\ Len(s) >= n /\ peer \in [Clients -> Peer]
      /\ peer[c] \in Peer /\ s \in Seq(Unit) /\ h \in Seq(Unit) /\ Len(s) <= Room
      /\ UNCHANGED <<policy, list, mod, stack, buffer, ids, started, owed, spoiled, astray>>
  BY DEF ReadPacket, Up, IInv, Typed, Peer, PeersOK
<1>2. peer' = [peer EXCEPT ![c] = p]
  <2>1. peer' = [peer EXCEPT ![c].socket = left, ![c].heard = @ \o read,
                   ![c].cmds = IF Head(s).part = 1 /\ Head(s).msg.type \in Locks[c]
                               THEN Append(@, "unlock") ELSE @]
    BY DEF ReadPacket
  <2> QED
    BY <1>1, <2>1 DEF Peer
<1>3. n \in 0..Len(s) /\ Len(s) \in Nat
  <2>1. Head(s) \in Unit
    BY <1>1, HeadTailProperties
  <2>2. n \in 1..2
    BY <2>1 DEF Unit, Message, Size
  <2>3. Len(s) \in Nat
    BY <1>1, LenProperties
  <2> QED
    BY <1>1, <2>2, <2>3
<1>4. cmds \in Seq(Commands)
  <2>1. peer[c].cmds \in Seq(Commands) /\ "unlock" \in Commands
    BY <1>1 DEF Peer, Commands
  <2> QED
    BY <2>1, AppendProperties
<1> HIDE DEF s, h, n, cmds
<1>5. read \in Seq(Unit) /\ left \in Seq(Unit) /\ heard \in Seq(Unit)
      /\ heard \o left = h \o s
  BY <1>1, <1>3, Parting
<1>6. Len(left) <= Room
  <2>1. Len(left) <= Len(s) /\ Len(left) \in Nat
    <3>1. Len(left) = IF n + 1 <= Len(s) THEN Len(s) - (n + 1) + 1 ELSE 0
      <4>1. \A i \in (n + 1)..Len(s) : s[i] \in Unit
        BY <1>1, <1>3, ElementOfSeq
      <4> QED
        BY <1>3, <4>1, SubSeqProperties
    <3> QED
      BY <1>3, <3>1
  <2> QED
    BY <1>1, <1>3, <2>1, Parameters
<1> HIDE DEF read, left, heard
<1>7. p \in Peer /\ p.life = peer[c].life /\ p.socket = left /\ p.heard = heard
  BY <1>1, <1>4, <1>5 DEF Peer
<1> HIDE DEF p
<1>8. Cat(p.heard, p.socket) = Cat(h, s)
  BY <1>5, <1>7 DEF Cat
<1> QED
  BY <1>1, <1>2, <1>6, <1>7, <1>8, PeerStep DEF h, s

-----------------------------------------------------------------------------
\* The list of modules

LEMMA RemoveDeadStep == ASSUME IInv, RemoveDead PROVE IInv'
<1> DEFINE left == {c \in Listed : mod[c].active >= 0}
<1>1. /\ stack = <<>> /\ stack' = stack
      /\ UNCHANGED <<policy, mod, peer, buffer, ids, started, owed, spoiled, astray>>
  BY DEF RemoveDead
<1>2. PICK s \in [1..Cardinality(left) -> left] :
        /\ Range(s) = left
        /\ \A i, j \in DOMAIN s : i < j =>
             \E k, l \in DOMAIN list : k < l /\ list[k] = s[i] /\ list[l] = s[j]
        /\ list' = s
  BY DEF RemoveDead
<1>3. Typed /\ ListOK
  BY DEF IInv
<1>4. Listed \subseteq Clients /\ left \subseteq Clients /\ left \subseteq Listed
      /\ DOMAIN list = 1..Len(list) /\ Len(list) \in Nat
  BY <1>3, ListIs
<1>5. Cardinality(left) \in Nat
  <2>1. IsFiniteSet(Listed)
    <3>1. IsFiniteSet(1..Len(list))
      BY <1>4, FS_Interval
    <3> DEFINE L == 1..Len(list)
               g == [i \in L |-> list[i]]
    <3>2. Listed = {g[i] : i \in L}
      BY <1>4 DEF Listed
    <3> HIDE DEF L
    <3>3. g \in Surjection(L, {g[i] : i \in L})
      BY DEF Surjection
    <3> QED
      BY <3>1, <3>2, <3>3, FS_Surjection DEF L
  <2>2. IsFiniteSet(left)
    BY <1>4, <2>1, FS_Subset
  <2> QED
    BY <2>2, FS_CardinalityType
<1> HIDE DEF left
<1>6. list' \in Seq(Clients) /\ DOMAIN list' = 1..Cardinality(left)
  <2>1. s \in [1..Cardinality(left) -> Clients]
    BY <1>2, <1>4
  <2> QED
    BY <1>2, <1>5, <2>1, SeqDef
<1>7. \A i, j \in DOMAIN list' : list'[i] = list'[j] => i = j
  <2>1. \A i, j \in DOMAIN s : i < j => s[i] # s[j]
    <3> SUFFICES ASSUME NEW i \in DOMAIN s, NEW j \in DOMAIN s, i < j PROVE s[i] # s[j]
      OBVIOUS
    <3>1. PICK k, l \in DOMAIN list : k < l /\ list[k] = s[i] /\ list[l] = s[j]
      BY <1>2
    <3>2. k # l
      BY <1>4, <3>1
    <3> QED
      BY <1>3, <3>1, <3>2 DEF ListOK
  <2>2. \A i, j \in DOMAIN s : i < j \/ j < i \/ i = j
    BY <1>5, <1>2
  <2> QED
    BY <1>2, <2>1, <2>2
<1>8. Listed' = left
  BY <1>2 DEF Listed, Range
<1>9. \A c \in Clients : mod[c].active # -1 /\ c \in Listed => c \in left
  <2> SUFFICES ASSUME NEW c \in Clients, mod[c].active # -1, c \in Listed
               PROVE  mod[c].active >= 0
    BY DEF left
  <2>1. mod[c].active \in {-1, 0, 1}
    BY <1>3 DEF Typed, Module
  <2> QED
    BY <2>1
<1>10. ListOK'
  BY <1>1, <1>3, <1>7, <1>8, <1>9 DEF ListOK
<1>11. Typed'
  <2>1. stack' \in Seq(Frames')
    BY <1>1, EmptySeq
  <2> QED
    BY <1>1, <1>3, <1>6, <2>1 DEF Typed
<1>12. PeersOK' /\ StreamWhole'
  BY <1>1 DEF IInv, PeersOK, StreamWhole, Alive
<1>13. OneOfEachName'
  BY <1>1, <1>4, <1>8 DEF IInv, OneOfEachName
<1> QED
  BY <1>10, <1>11, <1>12, <1>13 DEF IInv

LEMMA AcceptModuleConnectionStep ==
    ASSUME IInv, NEW c \in Clients, AcceptModuleConnection(c) PROVE IInv'
<1>1. /\ stack = <<>> /\ peer[c].life = "off" /\ \A d \in Listed : mod[d].active >= 0
      /\ list' = Append(list, c)
      /\ UNCHANGED <<policy, stack, buffer, ids, started, owed, spoiled, astray>>
  BY DEF AcceptModuleConnection
<1>2. Typed /\ ListOK /\ PeersOK
  BY DEF IInv
<1>3. mod \in [Clients -> Module] /\ peer \in [Clients -> Peer] /\ peer[c] \in Peer
  BY <1>2 DEF Typed
<1>4. /\ mod[c] = Dead /\ owed[c] = <<>> /\ peer[c].socket = <<>> /\ peer[c].heard = <<>>
      /\ c \notin Listed
  BY <1>1, <1>2, DeadIs DEF PeersOK
<1> DEFINE zero == 0
           m == [Dead EXCEPT !.active = zero, !.mask = Types]
<1>5. m \in Module /\ m.active = 0 /\ m.queue = <<>> /\ m.named = FALSE
  <2>1. zero \in {-1, 0, 1} /\ Dead \in Module /\ Types \in SUBSET Types
    BY DeadIs
  <2>2. Dead.queue = <<>> /\ Dead.named = FALSE
    BY DeadIs
  <2> HIDE DEF zero
  <2>3. m \in Module /\ m.active = zero /\ m.queue = Dead.queue /\ m.named = Dead.named
    BY <2>1 DEF Module
  <2> QED
    BY <2>2, <2>3 DEF zero
<1>6. mod' = [mod EXCEPT ![c] = m]
  BY DEF AcceptModuleConnection
<1> HIDE DEF m
<1>7. /\ mod' \in [Clients -> Module] /\ mod'[c] = m
      /\ \A d \in Clients : d # c => mod'[d] = mod[d]
  BY <1>3, <1>5, <1>6
<1>8. PICK s \in Scripts[c] : peer' = [peer EXCEPT ![c].life = "up",
                                         ![c].cmds = <<"name", "mask">>, ![c].script = s]
  BY DEF AcceptModuleConnection
<1> DEFINE up == "up"
           first == <<"name", "mask">>
           p == [peer[c] EXCEPT !.life = up, !.cmds = first, !.script = s]
<1>9. peer' = [peer EXCEPT ![c] = p]
  BY <1>3, <1>8
<1>10. up \in {"off", "up", "gone"} /\ up # "off" /\ first \in Seq(Commands)
       /\ s \in Seq(Commands \ {"unlock"})
  BY Parameters DEF Commands
<1> HIDE DEF up, first
<1>11. p \in Peer /\ p.life = up /\ p.socket = peer[c].socket /\ p.heard = peer[c].heard
  BY <1>3, <1>10 DEF Peer
<1> HIDE DEF p
<1>12. /\ peer' \in [Clients -> Peer] /\ peer'[c] = p
       /\ \A d \in Clients : d # c => peer'[d] = peer[d]
  BY <1>3, <1>9, <1>11
<1>13. /\ list' \in Seq(Clients) /\ DOMAIN list' = 1..(Len(list) + 1)
       /\ Len(list) \in Nat /\ DOMAIN list = 1..Len(list)
       /\ \A i \in 1..Len(list) : list'[i] = list[i]
       /\ list'[Len(list) + 1] = c
  <2>1. Append(list, c) \in Seq(Clients) /\ Len(Append(list, c)) = Len(list) + 1
        /\ \A i \in 1..Len(list) : Append(list, c)[i] = list[i]
        /\ Append(list, c)[Len(list) + 1] = c
    BY <1>2, AppendProperties DEF Typed
  <2> QED
    BY <1>1, <1>2, <2>1, ListIs, LenProperties
<1>14. Listed' = Listed \cup {c}
  BY <1>13 DEF Listed
<1>15. ListOK'
  <2>1. \A i, j \in DOMAIN list' : list'[i] = list'[j] => i = j
    <3>1. \A i \in 1..Len(list) : list[i] # c
      BY <1>4, <1>13 DEF Listed
    <3>2. \A i \in DOMAIN list' : i \in 1..Len(list) \/ i = Len(list) + 1
      BY <1>13
    <3> QED
      BY <1>2, <1>13, <3>1, <3>2 DEF ListOK
  <2> QED
    BY <1>2, <1>5, <1>7, <1>14, <2>1 DEF ListOK
<1>16. Typed'
  <2>1. stack' \in Seq(Frames')
    BY <1>1, EmptySeq
  <2> QED
    BY <1>1, <1>2, <1>7, <1>12, <1>13, <2>1 DEF Typed
<1>17. PeersOK'
  BY <1>1, <1>2, <1>3, <1>7, <1>10, <1>11, <1>12 DEF PeersOK
<1>18. StreamWhole'
  <2> SUFFICES ASSUME NEW d \in Clients \ spoiled, mod'[d].active >= 0, peer'[d].life = "up"
               PROVE  Said(d)' = owed[d]
    BY <1>1, SaidIs DEF StreamWhole, Alive, Said, Cat
  <2>1. CASE d # c
    <3>1. Said(d)' = Said(d) /\ mod[d].active >= 0 /\ peer[d].life = "up"
      BY <1>7, <1>12, <2>1 DEF Said
    <3> QED
      BY <3>1, SaidIs DEF IInv, StreamWhole, Alive
  <2>2. CASE d = c
    <3>1. peer'[d].heard = <<>> /\ peer'[d].socket = <<>> /\ mod'[d].queue = <<>>
      BY <1>4, <1>5, <1>7, <1>11, <1>12, <2>2
    <3>2. <<>> \o <<>> \o <<>> = <<>>
      OBVIOUS
    <3> QED
      BY <1>4, <2>2, <3>1, <3>2 DEF Said, Cat
  <2> QED
    BY <2>1, <2>2
<1>19. OneOfEachName'
  <2>1. Listed \subseteq Clients
    BY <1>2, ListIs
  <2> QED
    BY <1>1, <1>5, <1>7, <1>14, <2>1 DEF IInv, OneOfEachName
<1> QED
  BY <1>15, <1>16, <1>17, <1>18, <1>19 DEF IInv

-----------------------------------------------------------------------------
LEMMA StutterStep == ASSUME IInv, UNCHANGED vars PROVE IInv'
<1>1. Quiet /\ UNCHANGED <<stack, buffer, ids, started>>
  BY DEF vars, Quiet
<1> QED
  BY <1>1, QuietStep DEF IInv, Typed

LEMMA Initially == Init => IInv
<1> SUFFICES ASSUME Init PROVE IInv
  OBVIOUS
<1> DEFINE off == "off"
           none == <<>>
           p == [life |-> off, script |-> none, cmds |-> none, socket |-> none, heard |-> none]
<1>1. none \in Seq(Commands) /\ none \in Seq(Commands \ {"unlock"}) /\ none \in Seq(Unit) /\ none \in Seq(Clients)
      /\ none \in Seq(Frames) /\ Len(none) = 0 /\ none \o none \o none = none
  BY EmptySeq
<1>2. /\ policy \in {"allow", "kill_old", "kill_new"} /\ list = none
      /\ mod = [c \in Clients |-> Dead] /\ peer = [c \in Clients |-> p]
      /\ stack = none /\ buffer = None /\ ids = 0 /\ started = 0
      /\ owed = [c \in Clients |-> none] /\ spoiled = {} /\ astray = {}
  BY DEF Init
<1>3. off \in {"off", "up", "gone"} /\ off # "up" /\ Len(none) <= Room
  BY <1>1, Parameters
<1>4. Listed = {}
  BY <1>2 DEF Listed
<1> HIDE DEF off, none
<1>5. p \in Peer /\ p.life = off /\ p.socket = none /\ p.heard = none
  BY <1>1, <1>3 DEF Peer
<1> HIDE DEF p
<1>6. \A c \in Clients : mod[c] = Dead /\ peer[c] = p /\ owed[c] = none
  BY <1>2
<1>7. mod \in [Clients -> Module] /\ peer \in [Clients -> Peer] /\ owed \in [Clients -> Seq(Unit)]
  BY <1>1, <1>2, <1>5, DeadIs
<1>8. Typed
  BY <1>1, <1>2, <1>7, Parameters DEF Typed
<1>9. ListOK
  <2>1. DOMAIN list = {}
    BY <1>2 DEF none
  <2> QED
    BY <1>6, <2>1, DeadIs DEF ListOK
<1>10. PeersOK
  BY <1>3, <1>5, <1>6 DEF PeersOK, none
<1>11. StreamWhole
  BY <1>3, <1>5, <1>6 DEF StreamWhole, Alive
<1>12. OneOfEachName
  BY <1>4 DEF OneOfEachName
<1> QED
  BY <1>8, <1>9, <1>10, <1>11, <1>12 DEF IInv

LEMMA Inductive == IInv /\ [Next]_vars => IInv'
<1> SUFFICES ASSUME IInv, [Next]_vars PROVE IInv'
  OBVIOUS
<1>1. CASE Broadcast
  BY <1>1, BroadcastStep
<1>2. CASE SendPacket
  BY <1>2, SendPacketStep
<1>3. CASE PacketsSent
  BY <1>3, PacketsSentStep
<1>4. CASE PositiveWrite
  BY <1>4, PositiveWriteStep
<1>5. CASE AwaitUnlock
  BY <1>5, AwaitUnlockStep
<1>6. CASE RemoveDead
  BY <1>6, RemoveDeadStep
<1>7. ASSUME NEW c \in Clients, AcceptModuleConnection(c) PROVE IInv'
  BY <1>7, AcceptModuleConnectionStep
<1>8. ASSUME NEW c \in Clients, HandleModuleInput(c) PROVE IInv'
  BY <1>8, HandleModuleInputStep
<1>9. ASSUME NEW c \in Clients, HandleModuleOutput(c) PROVE IInv'
  BY <1>9, HandleModuleOutputStep
<1>10. ASSUME NEW c \in Clients, Speak(c) PROVE IInv'
  BY <1>10, SpeakStep
<1>11. ASSUME NEW c \in Clients, ReadPacket(c) PROVE IInv'
  BY <1>11, ReadPacketStep
<1>12. ASSUME NEW c \in Clients, Die(c) PROVE IInv'
  BY <1>12, DieStep
<1>13. ASSUME NEW c \in Clients, Chat(c) PROVE IInv'
  BY <1>13, ChatStep
<1>14. CASE UNCHANGED vars
  BY <1>14, StutterStep
<1> QED
  BY <1>1, <1>2, <1>3, <1>4, <1>5, <1>6, <1>7, <1>8, <1>9, <1>10, <1>11, <1>12, <1>13, <1>14
     DEF Next, Sending

LEMMA Invariance == Spec => []IInv
BY Initially, Inductive, PTL DEF Spec

LEMMA ConsistentFollows == IInv => Consistent
<1> SUFFICES ASSUME IInv PROVE Consistent
  OBVIOUS
<1>1. Typed /\ ListOK /\ PeersOK /\ OneOfEachName
  BY DEF IInv
<1>2. IsInjective(list) /\ Listed \subseteq Clients
  BY <1>1, ListIs DEF ListOK, IsInjective
<1>3. ASSUME NEW c \in Clients
      PROVE  /\ mod[c].active \in {-1, 0, 1} /\ mod[c].named \in BOOLEAN
             /\ mod[c].mask \subseteq Types /\ mod[c].lock \subseteq Types
             /\ mod[c].active = -1 => mod[c] = Dead
             /\ mod[c].active # -1 => c \in Listed
             /\ peer[c].life \in {"off", "up", "gone"}
             /\ Range(peer[c].cmds) \subseteq Commands /\ Len(peer[c].socket) <= Room
             /\ owed[c] \in Seq(Unit)
  <2>1. mod[c] \in Module /\ peer[c] \in Peer /\ owed[c] \in Seq(Unit)
    BY <1>1 DEF Typed
  <2>2. peer[c].cmds \in Seq(Commands)
    BY <2>1 DEF Peer
  <2>3. Range(peer[c].cmds) \subseteq Commands
    BY <2>2, LenProperties, ElementOfSeq DEF Range
  <2> QED
    BY <1>1, <2>1, <2>3 DEF ListOK, PeersOK, Module, Peer
<1>4. \A i \in DOMAIN stack : stack[i].tries \in 0..MaxTries
  <2>1. stack \in [1..Len(stack) -> Frames]
    BY <1>1, LenProperties DEF Typed
  <2> QED
    BY <2>1 DEF Frames, Frame
<1> QED
  BY <1>1, <1>2, <1>3, <1>4 DEF Consistent, TypeOK, Typed

\* Whatever modules connect, die, are killed or named, and whatever they send while
\* they are waited for, the list of modules stays consistent (RunCommand, KillModule,
\* check_module_name_collision).
THEOREM ModulesConsistent == Spec => []Consistent
BY Invariance, ConsistentFollows, PTL

\* No pipe is ever short of a unit, given one twice or out of order, at any size of
\* the pipes and however writes, reads and commands alternate (FlushQueue).
THEOREM StreamsWhole == Spec => []StreamWhole
<1>1. IInv => StreamWhole
  BY DEF IInv
<1> QED
  BY <1>1, Invariance, PTL


-----------------------------------------------------------------------------
(***************************************************************************)
(* The wait for UNLOCK.  For a module that has not gone astray at most one *)
(* thing is under way at a time: the header of a locked message, on its    *)
(* way to the module, or the UNLOCK that answers it, on its way back; and  *)
(* only while a frame of the stack waits for the module with that message. *)
(* An UNLOCK that is read is then the answer to the message waited for.    *)
(***************************************************************************)
Single(S) == \A i, j \in S : i = j
Headers(d, s) == {i \in DOMAIN s : s[i].part = 1 /\ s[i].msg.type \in Locks[d]}
Answers(s) == {i \in DOMAIN s : s[i] = "unlock"}

Pending(d) == Cat(peer[d].socket, mod[d].queue)
Heard(s, m) == \E k \in DOMAIN s : s[k].msg = m
Waits(i, d) == i \in DOMAIN stack /\ stack[i].tries > 0 /\ list[stack[i].at] = d

Exchange(d) ==
    LET asked == Headers(d, Pending(d))
        answers == Answers(peer[d].cmds)
    IN  /\ Single(asked) /\ Single(answers)
        /\ asked = {} \/ answers = {}
        /\ asked # {} \/ answers # {} => WaitedFor(d)
        /\ \A i \in DOMAIN stack : Waits(i, d) =>
             /\ \A k \in asked : Pending(d)[k].msg = stack[i].msg
             /\ answers # {} => Heard(peer[d].heard, stack[i].msg)

\* A module that has not spoken yet is waited for by nobody.
Slot(d) ==
    mod[d].active # -1 =>
        /\ mod[d].lock \subseteq Locks[d]
        /\ mod[d].active = 0 => mod[d].lock = {} /\ ~WaitedFor(d)
        /\ d \notin astray \cup spoiled => Exchange(d)

Slots == \A d \in Clients : Slot(d)

\* What was under way is less than before.
FewerHeaders(d, s, t) ==
    /\ Single(Headers(d, s)) => Single(Headers(d, t))
    /\ \A k \in Headers(d, t) : \E j \in Headers(d, s) : t[k].msg = s[j].msg

FewerAnswers(s, t) ==
    /\ Single(Answers(s)) => Single(Answers(t))
    /\ Answers(t) # {} => Answers(s) # {}

LEMMA AsMany == \A d, s : FewerHeaders(d, s, s) /\ FewerAnswers(s, s)
BY DEF FewerHeaders, FewerAnswers

LEMMA CatIs ==
    ASSUME NEW s \in Seq(Unit), NEW t \in Seq(Unit)
    PROVE  /\ Len(s) \in Nat /\ Len(t) \in Nat
           /\ DOMAIN s = 1..Len(s) /\ DOMAIN t = 1..Len(t)
           /\ DOMAIN Cat(s, t) = 1..(Len(s) + Len(t))
           /\ \A i \in 1..Len(s) : Cat(s, t)[i] = s[i]
           /\ \A i \in 1..Len(t) : Cat(s, t)[Len(s) + i] = t[i]
BY ConcatProperties, LenProperties DEF Cat

\* A reader takes r from the front.
LEMMA FrontTaken ==
    ASSUME NEW d \in Clients, NEW r \in Seq(Unit), NEW t \in Seq(Unit)
    PROVE  /\ FewerHeaders(d, Cat(r, t), t)
           /\ 1 \in Headers(d, Cat(r, t)) /\ Single(Headers(d, Cat(r, t))) /\ Len(r) > 0
                => Headers(d, t) = {}
<1> DEFINE s == Cat(r, t)
<1>1. /\ Len(r) \in Nat /\ Len(t) \in Nat /\ DOMAIN t = 1..Len(t)
      /\ DOMAIN s = 1..(Len(r) + Len(t)) /\ \A i \in 1..Len(t) : s[Len(r) + i] = t[i]
  BY CatIs
<1> HIDE DEF s
<1>2. ASSUME NEW k \in Headers(d, t)
      PROVE  /\ Len(r) + k \in Headers(d, s) /\ t[k] = s[Len(r) + k]
             /\ k \in Nat /\ k > 0
  <2>1. k \in 1..Len(t) /\ t[k].part = 1 /\ t[k].msg.type \in Locks[d]
    BY <1>1 DEF Headers
  <2>2. Len(r) + k \in DOMAIN s /\ s[Len(r) + k] = t[k]
    BY <1>1, <2>1
  <2> QED
    BY <2>1, <2>2 DEF Headers
<1>3. Single(Headers(d, s)) => Single(Headers(d, t))
  BY <1>2, <1>1 DEF Single
<1>4. FewerHeaders(d, s, t)
  BY <1>2, <1>3 DEF FewerHeaders
<1>5. ASSUME 1 \in Headers(d, s), Single(Headers(d, s)), Len(r) > 0, NEW k \in Headers(d, t)
      PROVE  FALSE
  <2>1. Len(r) + k = 1
    BY <1>2, <1>5 DEF Single
  <2> QED
    BY <1>2, <1>1, <1>5, <2>1
<1> QED
  BY <1>4, <1>5 DEF s

\* A message is appended.
LEMMA Appended ==
    ASSUME NEW d \in Clients, NEW s \in Seq(Unit), NEW m \in Message
    PROVE  LET t == Cat(s, Units(m, Size[m.type]))
           IN  /\ m.type \notin Locks[d] => FewerHeaders(d, s, t)
               /\ Headers(d, s) = {} => /\ Single(Headers(d, t))
                                        /\ \A k \in Headers(d, t) : t[k].msg = m
<1> DEFINE u == Units(m, Size[m.type])
           t == Cat(s, u)
<1>1. u \in Seq(Unit)
  BY UnitsIn
<1>2. /\ Size[m.type] \in 1..2 /\ DOMAIN u = 1..Size[m.type]
      /\ \A k \in DOMAIN u : u[k].msg = m /\ u[k].part = k
  BY DEF Units, Size, Message, Types
<1> HIDE DEF u
<1>3. /\ Len(s) \in Nat /\ Len(u) \in Nat /\ DOMAIN s = 1..Len(s) /\ DOMAIN u = 1..Len(u)
      /\ DOMAIN t = 1..(Len(s) + Len(u))
      /\ \A i \in 1..Len(s) : t[i] = s[i]
      /\ \A i \in 1..Len(u) : t[Len(s) + i] = u[i]
  BY <1>1, CatIs
<1> HIDE DEF t
<1>4. ASSUME NEW k \in Headers(d, t)
      PROVE  \/ k \in Headers(d, s) /\ t[k] = s[k]
             \/ k = Len(s) + 1 /\ t[k].msg = m /\ m.type \in Locks[d]
  <2>1. k \in DOMAIN t /\ t[k].part = 1 /\ t[k].msg.type \in Locks[d]
    BY DEF Headers
  <2>2. CASE k <= Len(s)
    BY <1>3, <2>1, <2>2 DEF Headers
  <2>3. CASE k > Len(s)
    <3>1. k - Len(s) \in DOMAIN u /\ t[k] = u[k - Len(s)]
      BY <1>3, <2>1, <2>3
    <3>2. k - Len(s) = 1
      BY <1>2, <2>1, <3>1
    <3> QED
      BY <1>2, <1>3, <2>1, <3>1, <3>2
  <2> QED
    BY <1>3, <2>1, <2>2, <2>3
<1>5. m.type \notin Locks[d] => FewerHeaders(d, s, t)
  BY <1>4 DEF FewerHeaders, Single
<1>6. Headers(d, s) = {} => Single(Headers(d, t)) /\ \A k \in Headers(d, t) : t[k].msg = m
  BY <1>4 DEF Single
<1> QED
  BY <1>5, <1>6 DEF t, u

LEMMA TailAnswers ==
    ASSUME NEW s \in Seq(Commands), s # <<>>
    PROVE  /\ FewerAnswers(s, Tail(s))
           /\ Head(s) = "unlock" /\ Single(Answers(s)) => Answers(Tail(s)) = {}
<1> DEFINE t == Tail(s)
<1>1. /\ Len(s) \in Nat /\ Len(s) > 0 /\ DOMAIN s = 1..Len(s) /\ Head(s) = s[1]
      /\ DOMAIN t = 1..(Len(s) - 1) /\ \A i \in 1..(Len(s) - 1) : t[i] = s[i + 1]
  BY HeadTailProperties, LenProperties, EmptySeq
<1> HIDE DEF t
<1>2. \A k \in Answers(t) : k + 1 \in Answers(s) /\ k \in Nat /\ k > 0
  BY <1>1 DEF Answers
<1>3. FewerAnswers(s, t)
  BY <1>2 DEF FewerAnswers, Single
<1>4. ASSUME Head(s) = "unlock", Single(Answers(s)), NEW k \in Answers(t)
      PROVE  FALSE
  <2>1. 1 \in Answers(s)
    BY <1>1, <1>4 DEF Answers
  <2>2. k + 1 = 1
    BY <1>2, <1>4, <2>1 DEF Single
  <2> QED
    BY <1>2, <2>2
<1> QED
  BY <1>3, <1>4 DEF t

LEMMA AppendAnswers ==
    ASSUME NEW s \in Seq(Commands), NEW x \in Commands
    PROVE  /\ x # "unlock" => FewerAnswers(s, Append(s, x))
           /\ Answers(s) = {} => Single(Answers(Append(s, x)))
<1> DEFINE t == Append(s, x)
<1>1. /\ Len(s) \in Nat /\ DOMAIN s = 1..Len(s) /\ DOMAIN t = 1..(Len(s) + 1)
      /\ t[Len(s) + 1] = x /\ \A i \in 1..Len(s) : t[i] = s[i]
  BY AppendProperties, LenProperties
<1> HIDE DEF t
<1>2. \A k \in Answers(t) : k \in Answers(s) \/ (k = Len(s) + 1 /\ x = "unlock")
  BY <1>1 DEF Answers
<1>3. x # "unlock" => FewerAnswers(s, t)
  BY <1>2 DEF FewerAnswers, Single
<1>4. Answers(s) = {} => Single(Answers(t))
  BY <1>2 DEF Single
<1> QED
  BY <1>3, <1>4 DEF t

-----------------------------------------------------------------------------
(***************************************************************************)
(* Steps that start no wait, answer none and end none by its answer.       *)
(***************************************************************************)

\* Who is waited for, and with which message, stays the same.
SameWaits(d) ==
    /\ \A i \in DOMAIN stack' : Waits(i, d)' => Waits(i, d) /\ stack'[i].msg = stack[i].msg
    /\ \A i \in DOMAIN stack : Waits(i, d) => Waits(i, d)'

LEMMA WaitedForIs == \A d : WaitedFor(d) <=> \E i \in DOMAIN stack : Waits(i, d)
BY DEF WaitedFor, Waits

LEMMA SameWaited ==
    ASSUME NEW d, SameWaits(d)
    PROVE  WaitedFor(d)' <=> WaitedFor(d)
<1>1. WaitedFor(d)' <=> \E i \in DOMAIN stack' : Waits(i, d)'
  BY DEF WaitedFor, Waits
<1>2. \A i : Waits(i, d) => i \in DOMAIN stack
  BY DEF Waits
<1>3. \A i : Waits(i, d)' => i \in DOMAIN stack'
  BY DEF Waits
<1> QED
  BY <1>1, <1>2, <1>3, WaitedForIs DEF SameWaits

LEMMA FewerExchange ==
    ASSUME NEW d \in Clients, Exchange(d), SameWaits(d),
           FewerHeaders(d, Pending(d), Pending(d)'),
           FewerAnswers(peer[d].cmds, peer'[d].cmds),
           \A m : Heard(peer[d].heard, m) => Heard(peer'[d].heard, m)
    PROVE  Exchange(d)'
<1> DEFINE asked == Headers(d, Pending(d))
           answers == Answers(peer[d].cmds)
           asked2 == Headers(d, Pending(d)')
           answers2 == Answers(peer'[d].cmds)
<1>1. /\ Single(asked2) /\ Single(answers2)
      /\ \A k \in asked2 : \E j \in asked : Pending(d)'[k].msg = Pending(d)[j].msg
      /\ answers2 # {} => answers # {}
  BY DEF Exchange, FewerHeaders, FewerAnswers
<1>2. asked2 # {} => asked # {}
  BY <1>1
<1>3. asked2 # {} \/ answers2 # {} => WaitedFor(d)'
  BY <1>1, <1>2, SameWaited DEF Exchange
<1>4. ASSUME NEW i \in DOMAIN stack', Waits(i, d)'
      PROVE  /\ \A k \in asked2 : Pending(d)'[k].msg = stack'[i].msg
             /\ answers2 # {} => Heard(peer'[d].heard, stack'[i].msg)
  <2>1. i \in DOMAIN stack /\ Waits(i, d) /\ stack'[i].msg = stack[i].msg
    BY <1>4 DEF SameWaits, Waits
  <2>2. /\ \A k \in asked : Pending(d)[k].msg = stack[i].msg
        /\ answers # {} => Heard(peer[d].heard, stack[i].msg)
    BY <2>1 DEF Exchange
  <2> QED
    BY <1>1, <2>1, <2>2
<1>5. asked2 = {} \/ answers2 = {}
  BY <1>1, <1>2 DEF Exchange
<1> QED
  BY <1>1, <1>3, <1>4, <1>5 DEF Exchange

LEMMA KeptSlot ==
    ASSUME NEW d \in Clients, Slot(d), SameWaits(d),
           astray \subseteq astray', spoiled \subseteq spoiled',
           mod'[d].active # -1 =>
             /\ mod[d].active # -1 /\ mod'[d].lock \subseteq Locks[d]
             /\ mod'[d].active = 0 => mod[d].active = 0 /\ mod'[d].lock = {},
           mod'[d].active # -1 /\ d \notin astray' \cup spoiled' =>
             /\ FewerHeaders(d, Pending(d), Pending(d)')
             /\ FewerAnswers(peer[d].cmds, peer'[d].cmds)
             /\ \A m : Heard(peer[d].heard, m) => Heard(peer'[d].heard, m)
    PROVE  Slot(d)'
<1>1. CASE mod'[d].active = -1
  BY <1>1 DEF Slot
<1>2. CASE mod'[d].active # -1
  <2>1. d \notin astray' \cup spoiled' => Exchange(d)'
    BY <1>2, FewerExchange DEF Slot
  <2>2. mod'[d].active = 0 => ~WaitedFor(d)'
    BY <1>2, SameWaited DEF Slot
  <2> QED
    BY <1>2, <2>1, <2>2 DEF Slot
<1> QED
  BY <1>1, <1>2

\* A module that a step does not serve stays as it is or dies.
LEMMA UnservedSlot ==
    ASSUME NEW d \in Clients, Slot(d), SameWaits(d),
           astray \subseteq astray', spoiled \subseteq spoiled',
           mod'[d] \in {mod[d], Dead}, peer'[d] = peer[d]
    PROVE  Slot(d)'
<1>1. mod'[d].active # -1 => mod'[d] = mod[d]
  BY DeadIs
<1>2. mod'[d] = mod[d] => Pending(d)' = Pending(d)
  BY DEF Pending
<1>3. \A m : Heard(peer[d].heard, m) => Heard(peer'[d].heard, m)
  OBVIOUS
<1> QED
  BY <1>1, <1>2, <1>3, AsMany, KeptSlot DEF Slot

\* The steps of the clients and of the event loop leave the stack alone or empty.
LEMMA UnchangedWaits ==
    ASSUME NEW d, stack' = stack, list' = list
    PROVE  SameWaits(d)
BY DEF SameWaits, Waits

LEMMA NoWaits ==
    ASSUME NEW d, stack = <<>>, \A i \in DOMAIN stack' : stack'[i].tries = 0
    PROVE  SameWaits(d) /\ ~WaitedFor(d) /\ ~WaitedFor(d)'
<1>1. DOMAIN stack = {}
  OBVIOUS
<1>2. \A i \in DOMAIN stack' : ~Waits(i, d)'
  BY DEF Waits
<1> QED
  BY <1>1, <1>2 DEF SameWaits, WaitedFor, Waits

LEMMA CalledNoWaits ==
    ASSUME Typed, stack = <<>>, NEW todo \in Seq(Packet), stack' = Calls(<<>>, todo), NEW d
    PROVE  SameWaits(d) /\ ~WaitedFor(d) /\ ~WaitedFor(d)'
<1> DEFINE s == <<>>
<1>1. s \in Seq(Frames) /\ Len(s) = 0 /\ stack' = Calls(s, todo)
  BY EmptySeq
<1> HIDE DEF s
<1>2. /\ stack' \in Seq(Frames) /\ Len(stack') \in 0..1
      /\ Len(stack') > 0 => stack'[1].tries = 0
  <2>1. /\ Calls(s, todo) \in Seq(Frames)
        /\ Len(Calls(s, todo)) \in Len(s)..(Len(s) + 1)
        /\ Len(Calls(s, todo)) > Len(s) => Calls(s, todo)[Len(s) + 1].tries = 0
    BY <1>1, CallsIs
  <2> QED
    BY <1>1, <2>1
<1>3. DOMAIN stack' = 1..Len(stack')
  BY <1>2, LenProperties
<1>4. \A i \in DOMAIN stack' : stack'[i].tries = 0
  BY <1>2, <1>3
<1> QED
  BY <1>4, NoWaits

\* The top of the stack is replaced and perhaps something called.
LEMMA TopWaits ==
    ASSUME Typed, stack # <<>>, list' = list, NEW f \in Frames, NEW todo \in Seq(Packet),
           stack' = SetTop(f) \/ stack' = Calls(SetTop(f), todo), NEW d,
           \/ /\ Top.tries = 0 \/ list[Top.at] # d
              /\ f.tries = 0 \/ list[f.at] # d
           \/ f.at = Top.at /\ f.msg = Top.msg /\ Top.tries > 0 /\ f.tries > 0
    PROVE  SameWaits(d)
<1>1. PICK n \in Nat : n = Len(stack) /\ n \in 1..n /\ DOMAIN stack = 1..n /\ Top = stack[n]
  BY TopIs
<1> DEFINE g == SetTop(f)
<1>2. g \in Seq(Frames) /\ Len(g) = n /\ \A j \in 1..n : g[j] = IF j = n THEN f ELSE stack[j]
  BY <1>1, SetTopIs
<1>3. /\ stack' \in Seq(Frames) /\ Len(stack') \in n..(n + 1)
      /\ \A j \in 1..n : stack'[j] = g[j]
      /\ Len(stack') > n => stack'[n + 1].tries = 0
  <2> HIDE DEF g
  <2>1. CASE stack' = g
    BY <1>1, <1>2, <2>1
  <2>2. CASE stack' = Calls(g, todo)
    <3>1. /\ Calls(g, todo) \in Seq(Frames)
          /\ Len(Calls(g, todo)) \in Len(g)..(Len(g) + 1)
          /\ \A i \in 1..Len(g) : Calls(g, todo)[i] = g[i]
          /\ Len(Calls(g, todo)) > Len(g) => Calls(g, todo)[Len(g) + 1].tries = 0
      BY <1>2, CallsIs
    <3> QED
      BY <1>1, <1>2, <2>2, <3>1
  <2> QED
    BY <2>1, <2>2 DEF g
<1> HIDE DEF g
<1>4. DOMAIN stack' = 1..Len(stack')
  BY <1>3, LenProperties
<1>5. /\ stack'[n] = f /\ n \in DOMAIN stack'
      /\ \A j \in 1..(n - 1) : stack'[j] = stack[j] /\ j \in DOMAIN stack'
  BY <1>1, <1>2, <1>3, <1>4
<1>6. \A j \in DOMAIN stack' : j \in 1..(n - 1) \/ j = n \/ (j = n + 1 /\ stack'[j].tries = 0)
  BY <1>1, <1>3, <1>4
<1>7. \A j \in DOMAIN stack : j \in 1..(n - 1) \/ j = n
  BY <1>1
<1>8. \A j \in 1..(n - 1) : (Waits(j, d)' <=> Waits(j, d)) /\ stack'[j].msg = stack[j].msg
  BY <1>1, <1>5 DEF Waits
<1>9. /\ Waits(n, d)' <=> f.tries > 0 /\ list[f.at] = d
      /\ Waits(n, d) <=> Top.tries > 0 /\ list[Top.at] = d
  BY <1>1, <1>5 DEF Waits
<1>10. (Waits(n, d)' <=> Waits(n, d)) /\ (Waits(n, d) => stack'[n].msg = stack[n].msg)
  BY <1>1, <1>5, <1>9
<1>11. ~Waits(n + 1, d)'
  BY <1>1, <1>6 DEF Waits
<1>12. \A j \in DOMAIN stack' : Waits(j, d)' => Waits(j, d) /\ stack'[j].msg = stack[j].msg
  BY <1>6, <1>8, <1>10, <1>11
<1>13. \A j \in DOMAIN stack : Waits(j, d) => Waits(j, d)'
  BY <1>7, <1>8, <1>10
<1> QED
  BY <1>12, <1>13 DEF SameWaits

-----------------------------------------------------------------------------
LEMMA QuietSlots ==
    ASSUME IInv, Slots, Broadcast \/ SendPacket \/ PacketsSent
    PROVE  Slots'
<1>1. Quiet /\ Typed
  BY DEF Broadcast, SendPacket, PacketsSent, Quiet, IInv
<1>2. ASSUME NEW d \in Clients, SameWaits(d)
      PROVE  Slot(d)'
  BY <1>1, <1>2, UnservedSlot DEF Slots, Quiet
<1>3. ASSUME Broadcast, NEW d \in Clients
      PROVE  SameWaits(d)
  <2> DEFINE p == [to |-> Clients, type |-> "status"]
  <2>1. p \in Packet
    BY DEF Packet, Types
  <2>2. stack = <<>> /\ stack' = Calls(<<>>, <<p>>)
    BY <1>3 DEF Broadcast
  <2> HIDE DEF p
  <2> QED
    BY <1>1, <2>1, <2>2, OnePacket, CalledNoWaits
<1>4. ASSUME SendPacket, NEW d \in Clients
      PROVE  SameWaits(d)
  <2>1. PICK g \in Frames : g.tries = 0 /\ stack' = SetTop(g)
    BY <1>4, SendPacketIs
  <2>2. stack # <<>> /\ Top.tries = 0 /\ list' = list
    BY <1>4, SendPacketIs DEF Quiet
  <2>3. <<>> \in Seq(Packet)
    BY EmptySeq
  <2> QED
    BY <1>1, <2>1, <2>2, <2>3, TopWaits
<1>5. ASSUME PacketsSent, NEW d \in Clients
      PROVE  SameWaits(d)
  <2>1. stack # <<>> /\ Top.msg = None /\ stack' = Front(stack) /\ list' = list
    BY <1>5 DEF PacketsSent
  <2>2. /\ Len(stack) \in Nat /\ Len(stack) \in 1..Len(stack) /\ DOMAIN stack = 1..Len(stack)
        /\ Top = stack[Len(stack)] /\ Top \in Frames
    BY <1>1, <2>1, TopIs
  <2>3. Top.tries = 0
    BY <2>1, <2>2, Parameters DEF Frames, Frame
  <2>4. DOMAIN stack' = 1..(Len(stack) - 1) /\ \A i \in DOMAIN stack' : stack'[i] = stack[i]
    <3>1. \A i \in 1..(Len(stack) - 1) : stack[i] \in Frames
      BY <1>1, <2>2, ElementOfSeq DEF Typed
    <3> QED
      BY <1>1, <2>1, <2>2, <3>1, SubSeqProperties DEF Front, Typed
  <2>5. \A i \in DOMAIN stack : i \in DOMAIN stack' \/ stack[i].tries = 0
    BY <2>2, <2>3, <2>4
  <2>6. \A i \in DOMAIN stack' : Waits(i, d)' => Waits(i, d) /\ stack'[i].msg = stack[i].msg
    BY <2>1, <2>2, <2>4 DEF Waits
  <2>7. \A i \in DOMAIN stack : Waits(i, d) => Waits(i, d)'
    BY <2>1, <2>2, <2>4, <2>5 DEF Waits
  <2> QED
    BY <2>6, <2>7 DEF SameWaits
<1> QED
  BY <1>2, <1>3, <1>4, <1>5 DEF Slots

\* The dead are removed when nobody is waited for.
LEMMA RemoveDeadSlots == ASSUME IInv, Slots, RemoveDead PROVE Slots'
<1>1. stack = <<>> /\ stack' = stack /\ UNCHANGED <<mod, peer, spoiled, astray>>
  BY DEF RemoveDead
<1>2. DOMAIN stack' = {}
  BY <1>1
<1> QED
  BY <1>1, <1>2, NoWaits, UnservedSlot DEF Slots

LEMMA AcceptSlots ==
    ASSUME IInv, Slots, NEW c \in Clients, AcceptModuleConnection(c) PROVE Slots'
<1>1. /\ stack = <<>> /\ stack' = stack /\ peer[c].life = "off"
      /\ UNCHANGED <<spoiled, astray>>
      /\ mod' = [mod EXCEPT ![c] = [Dead EXCEPT !.active = 0, !.mask = Types]]
  BY DEF AcceptModuleConnection
<1>2. PICK s \in Scripts[c] : peer' = [peer EXCEPT ![c].life = "up",
                                         ![c].cmds = <<"name", "mask">>, ![c].script = s]
  BY DEF AcceptModuleConnection
<1>3. mod \in [Clients -> Module] /\ peer \in [Clients -> Peer]
  BY DEF IInv, Typed
<1>4. mod[c] = Dead /\ peer[c].socket = <<>>
  BY <1>1 DEF IInv, PeersOK
<1>5. \A d \in Clients : SameWaits(d) /\ ~WaitedFor(d)'
  <2>1. DOMAIN stack' = {}
    BY <1>1
  <2> QED
    BY <1>1, <2>1, NoWaits
<1>6. ASSUME NEW d \in Clients, d # c
      PROVE  Slot(d)'
  <2>1. mod'[d] = mod[d] /\ peer'[d] = peer[d]
    BY <1>1, <1>2, <1>3, <1>6
  <2> QED
    BY <1>1, <1>5, <2>1, UnservedSlot DEF Slots
<1>7. Slot(c)'
  <2>1. mod'[c].active = 0 /\ mod'[c].lock = {} /\ mod'[c].queue = <<>>
    BY <1>1, <1>3 DEF Dead
  <2>2. peer'[c].socket = <<>> /\ peer'[c].cmds = <<"name", "mask">>
    BY <1>2, <1>3, <1>4 DEF Peer
  <2>3. Pending(c)' = <<>>
    <3>1. <<>> \o <<>> = <<>>
      OBVIOUS
    <3> QED
      BY <2>1, <2>2, <3>1 DEF Pending, Cat
  <2>4. Headers(c, Pending(c)') = {} /\ Answers(peer'[c].cmds) = {}
    BY <2>2, <2>3 DEF Headers, Answers
  <2>5. Exchange(c)'
    BY <2>4 DEF Exchange, Single
  <2> QED
    BY <1>5, <2>1, <2>5 DEF Slot
<1> QED
  BY <1>6, <1>7 DEF Slots

-----------------------------------------------------------------------------
\* Steps of the modules

LEMMA PeerSlots ==
    ASSUME IInv, Slots, NEW c \in Clients, NEW p, peer' = [peer EXCEPT ![c] = p],
           UNCHANGED <<list, mod, stack, spoiled, astray>>,
           mod[c].active # -1 /\ Exchange(c) => Exchange(c)'
    PROVE  Slots'
<1>1. peer \in [Clients -> Peer] /\ \A d \in Clients : SameWaits(d)
  BY UnchangedWaits DEF IInv, Typed
<1>2. ASSUME NEW d \in Clients, d # c
      PROVE  Slot(d)'
  <2>1. peer'[d] = peer[d]
    BY <1>1, <1>2
  <2> QED
    BY <1>1, <2>1, UnservedSlot DEF Slots
<1>3. Slot(c)'
  <2>1. Slot(c) /\ (WaitedFor(c)' <=> WaitedFor(c))
    BY <1>1, SameWaited DEF Slots
  <2> QED
    BY <2>1 DEF Slot
<1> QED
  BY <1>2, <1>3 DEF Slots

LEMMA SpeakSlots == ASSUME IInv, Slots, NEW c \in Clients, Speak(c) PROVE Slots'
<1> DEFINE script == Tail(peer[c].script)
           x == Head(peer[c].script)
           cmds == Append(peer[c].cmds, x)
           p == [peer[c] EXCEPT !.script = script, !.cmds = cmds]
<1>1. /\ peer[c].script # <<>> /\ peer \in [Clients -> Peer]
      /\ UNCHANGED <<list, mod, stack, spoiled, astray>>
  BY DEF Speak, IInv, Typed
<1>2. peer' = [peer EXCEPT ![c] = p]
  BY <1>1 DEF Speak
<1>3. x \in Commands \ {"unlock"} /\ peer[c].cmds \in Seq(Commands)
  <2>1. peer[c].script \in Seq(Commands \ {"unlock"}) /\ peer[c].cmds \in Seq(Commands)
    BY <1>1 DEF Peer
  <2> QED
    BY <1>1, <2>1, HeadTailProperties
<1> HIDE DEF x, script
<1>4. FewerAnswers(peer[c].cmds, cmds)
  BY <1>3, AppendAnswers
<1> HIDE DEF cmds
<1>5. p.cmds = cmds /\ p.socket = peer[c].socket /\ p.heard = peer[c].heard
  BY <1>1 DEF Peer
<1> HIDE DEF p
<1>6. Pending(c)' = Pending(c)
  BY <1>1, <1>2, <1>5 DEF Pending
<1>7. peer'[c].cmds = cmds /\ peer'[c].heard = peer[c].heard
  BY <1>1, <1>2, <1>5
<1>8. SameWaits(c)
  BY <1>1, UnchangedWaits
<1>9. Exchange(c) => Exchange(c)'
  BY <1>4, <1>6, <1>7, <1>8, AsMany, FewerExchange
<1> QED
  BY <1>1, <1>2, <1>9, PeerSlots

LEMMA ChatSlots == ASSUME IInv, Slots, NEW c \in Clients, Chat(c) PROVE Slots'
<1>1. /\ peer[c].cmds = <<>> /\ peer \in [Clients -> Peer]
      /\ UNCHANGED <<list, mod, stack, spoiled, astray>>
  BY DEF Chat, IInv, Typed
<1>2. PICK x \in Chatter[c] : peer' = [peer EXCEPT ![c].cmds = <<x>>]
  BY DEF Chat
<1> DEFINE old == peer[c].cmds
           cmds == Append(old, x)
           p == [peer[c] EXCEPT !.cmds = cmds]
<1>3. peer' = [peer EXCEPT ![c] = p]
  BY <1>1, <1>2
<1>4. x \in Commands \ {"unlock"} /\ peer[c].cmds \in Seq(Commands)
  BY <1>1, <1>2, Parameters DEF Commands, Peer
<1>5. FewerAnswers(peer[c].cmds, cmds)
  BY <1>4, AppendAnswers
<1> HIDE DEF cmds
<1>6. p.cmds = cmds /\ p.socket = peer[c].socket /\ p.heard = peer[c].heard
  BY <1>1 DEF Peer
<1> HIDE DEF p
<1>7. Pending(c)' = Pending(c)
  BY <1>1, <1>3, <1>6 DEF Pending
<1>8. peer'[c].cmds = cmds /\ peer'[c].heard = peer[c].heard
  BY <1>1, <1>3, <1>6
<1>9. SameWaits(c)
  BY <1>1, UnchangedWaits
<1>10. Exchange(c) => Exchange(c)'
  BY <1>5, <1>7, <1>8, <1>9, AsMany, FewerExchange
<1> QED
  BY <1>1, <1>3, <1>10, PeerSlots

\* What a dead module had still to read is gone.
LEMMA DieSlots == ASSUME IInv, Slots, NEW c \in Clients, Die(c) PROVE Slots'
<1> DEFINE gone == "gone"
           none == <<>>
           p == [peer[c] EXCEPT !.life = gone, !.socket = none]
<1>1. /\ peer \in [Clients -> Peer] /\ mod \in [Clients -> Module]
      /\ UNCHANGED <<list, mod, stack, spoiled, astray>>
  BY DEF Die, IInv, Typed
<1>2. peer' = [peer EXCEPT ![c] = p]
  BY <1>1 DEF Die
<1>3. none \in Seq(Unit) /\ \A s \in Seq(Unit) : Cat(none, s) = s
  BY DEF Cat
<1>4. peer[c].socket \in Seq(Unit) /\ mod[c].queue \in Seq(Unit)
  BY <1>1 DEF Peer, Module
<1> HIDE DEF gone, none
<1>5. p.cmds = peer[c].cmds /\ p.socket = none /\ p.heard = peer[c].heard
  BY <1>1 DEF Peer
<1> HIDE DEF p
<1>6. Pending(c)' = mod[c].queue
  BY <1>1, <1>2, <1>3, <1>4, <1>5 DEF Pending
<1>7. FewerHeaders(c, Pending(c), Pending(c)')
  BY <1>4, <1>6, FrontTaken DEF Pending
<1>8. peer'[c].cmds = peer[c].cmds /\ peer'[c].heard = peer[c].heard
  BY <1>1, <1>2, <1>5
<1>9. SameWaits(c)
  BY <1>1, UnchangedWaits
<1>10. Exchange(c) => Exchange(c)'
  BY <1>7, <1>8, <1>9, AsMany, FewerExchange
<1> QED
  BY <1>1, <1>2, <1>10, PeerSlots

LEMMA HeardMore ==
    ASSUME NEW h \in Seq(Unit), NEW r \in Seq(Unit), NEW m, Heard(h, m) \/ Heard(r, m)
    PROVE  Heard(Cat(h, r), m)
<1>1. CASE Heard(h, m)
  <2>1. PICK k \in 1..Len(h) : h[k].msg = m
    BY <1>1, CatIs DEF Heard
  <2>2. k \in DOMAIN Cat(h, r) /\ Cat(h, r)[k] = h[k]
    BY <2>1, CatIs
  <2> QED
    BY <2>1, <2>2 DEF Heard
<1>2. CASE Heard(r, m)
  <2>1. PICK k \in 1..Len(r) : r[k].msg = m
    BY <1>2, CatIs DEF Heard
  <2>2. Len(h) + k \in DOMAIN Cat(h, r) /\ Cat(h, r)[Len(h) + k] = r[k]
    BY <2>1, CatIs
  <2> QED
    BY <2>1, <2>2 DEF Heard
<1> QED
  BY <1>1, <1>2

\* The module answers when it has read the header it was waited for with.
LEMMA ReadPacketSlots == ASSUME IInv, Slots, NEW c \in Clients, ReadPacket(c) PROVE Slots'
<1> DEFINE s == peer[c].socket
           h == peer[c].heard
           q == mod[c].queue
           n == IF Head(s).part = 1 THEN Size[Head(s).msg.type] ELSE 1
           read == SubSeq(s, 1, n)
           left == SubSeq(s, n + 1, Len(s))
           heard == h \o read
           locked == Head(s).part = 1 /\ Head(s).msg.type \in Locks[c]
           cmds == IF locked THEN Append(peer[c].cmds, "unlock") ELSE peer[c].cmds
           p == [peer[c] EXCEPT !.socket = left, !.heard = heard, !.cmds = cmds]
<1>1. /\ s # <<>> /\ Len(s) >= n /\ peer \in [Clients -> Peer] /\ mod \in [Clients -> Module]
      /\ s \in Seq(Unit) /\ h \in Seq(Unit) /\ q \in Seq(Unit)
      /\ peer[c].cmds \in Seq(Commands)
      /\ UNCHANGED <<list, mod, stack, spoiled, astray>>
  BY DEF ReadPacket, IInv, Typed, Peer, Module
<1>2. peer' = [peer EXCEPT ![c] = p]
  <2>1. peer' = [peer EXCEPT ![c].socket = left, ![c].heard = @ \o read,
                   ![c].cmds = IF Head(s).part = 1 /\ Head(s).msg.type \in Locks[c]
                               THEN Append(@, "unlock") ELSE @]
    BY DEF ReadPacket
  <2> QED
    BY <1>1, <2>1 DEF Peer
<1>3. n \in 1..Len(s) /\ n \in 0..Len(s) /\ Len(s) \in Nat /\ Head(s) = s[1]
  <2>1. Head(s) \in Unit
    BY <1>1, HeadTailProperties
  <2>2. n \in 1..2
    BY <2>1 DEF Unit, Message, Size
  <2>3. Len(s) \in Nat
    BY <1>1, LenProperties
  <2> QED
    BY <1>1, <2>2, <2>3
<1>4. locked => cmds = Append(peer[c].cmds, "unlock")
  OBVIOUS
<1>5. ~locked => cmds = peer[c].cmds
  OBVIOUS
<1>6. p.cmds = cmds /\ p.socket = left /\ p.heard = heard
  BY <1>1 DEF Peer
<1>7. locked <=> s[1].part = 1 /\ s[1].msg.type \in Locks[c]
  BY <1>3
<1> HIDE DEF s, h, q, n, cmds, locked
<1>8. read \in Seq(Unit) /\ left \in Seq(Unit) /\ Cat(<<>>, read) = read
      /\ Len(read) = n /\ Cat(read, left) = s /\ read[1] = s[1] /\ 1 \in DOMAIN read
  <2> DEFINE e == <<>>
  <2>0. e \in Seq(Unit) /\ Len(e) = 0 /\ \A t \in Seq(Unit) : Cat(e, t) = t
    BY DEF Cat
  <2> HIDE DEF e
  <2>1. /\ read \in Seq(Unit) /\ left \in Seq(Unit)
        /\ Len(e \o read) = Len(e) + n /\ (e \o read) \o left = e \o s
    BY <1>1, <1>3, <2>0, Parting
  <2>2. e \o read = read /\ e \o s = s
    BY <1>1, <2>0, <2>1 DEF Cat
  <2>3. Cat(read, left) = s
    BY <2>1, <2>2 DEF Cat
  <2> HIDE DEF read, left
  <2>4. DOMAIN read = 1..Len(read) /\ Len(read) = n
    BY <2>0, <2>1, <2>2, CatIs, <1>3
  <2>5. read[1] = s[1]
    BY <1>3, <2>1, <2>3, <2>4, CatIs
  <2> QED
    BY <1>3, <2>0, <2>1, <2>3, <2>4, <2>5 DEF e
<1> HIDE DEF read, left
<1>9. heard = Cat(h, read)
  BY DEF Cat
<1> HIDE DEF heard, p
<1>10. /\ peer'[c].socket = left /\ peer'[c].heard = heard /\ peer'[c].cmds = cmds
  BY <1>1, <1>2, <1>6
<1>11. Pending(c) = Cat(read, Pending(c)') /\ Pending(c)' \in Seq(Unit)
  <2>1. Pending(c) = Cat(s, q) /\ Pending(c)' = Cat(left, q)
    BY <1>1, <1>10 DEF Pending, s, q
  <2> QED
    BY <1>1, <1>8, <2>1, CatAssociative, CatIn
<1>12. \A m : Heard(h, m) => Heard(heard, m)
  BY <1>1, <1>8, <1>9, HeardMore
<1>13. SameWaits(c)
  BY <1>1, UnchangedWaits
<1>14. CASE ~locked
  <2>1. FewerHeaders(c, Pending(c), Pending(c)')
    BY <1>8, <1>11, FrontTaken
  <2> QED
    BY <1>1, <1>2, <1>5, <1>10, <1>12, <1>13, <1>14, <2>1, AsMany, FewerExchange, PeerSlots DEF h
<1>15. CASE locked
  <2>1. ASSUME Exchange(c)
        PROVE  Exchange(c)'
    <3>1. Pending(c)[1] = s[1] /\ 1 \in DOMAIN Pending(c)
      <4>1. PICK t \in Seq(Unit) : Pending(c) = Cat(read, t)
        BY <1>11
      <4>2. Len(read) \in Nat /\ Len(t) \in Nat /\ 1 \in 1..Len(read)
        BY <1>3, <1>8, LenProperties
      <4> QED
        BY <1>8, <4>1, <4>2, CatIs, SMTT(20)
    <3>2. 1 \in Headers(c, Pending(c))
      BY <1>7, <1>15, <3>1 DEF Headers
    <3>3. Headers(c, Pending(c)') = {}
      BY <1>3, <1>8, <1>11, <2>1, <3>2, FrontTaken DEF Exchange
    <3>4. Answers(peer[c].cmds) = {} /\ WaitedFor(c)
      BY <2>1, <3>2 DEF Exchange
    <3>5. Single(Answers(peer'[c].cmds))
      BY <1>1, <1>4, <1>10, <1>15, <3>4, AppendAnswers DEF Commands
    <3>6. WaitedFor(c)'
      BY <1>13, <3>4, SameWaited
    <3>7. ASSUME NEW i \in DOMAIN stack', Waits(i, c)'
          PROVE  Heard(peer'[c].heard, stack'[i].msg)
      <4>1. i \in DOMAIN stack /\ Waits(i, c) /\ stack'[i].msg = stack[i].msg
        BY <1>1, <3>7 DEF Waits
      <4>2. stack[i].msg = s[1].msg
        BY <2>1, <3>1, <3>2, <4>1 DEF Exchange
      <4>3. Heard(read, stack'[i].msg)
        BY <1>8, <4>1, <4>2 DEF Heard
      <4> QED
        BY <1>1, <1>8, <1>9, <1>10, <4>3, HeardMore
    <3> QED
      BY <3>3, <3>5, <3>6, <3>7 DEF Exchange, Single
  <2> QED
    BY <1>1, <1>2, <2>1, PeerSlots
<1> QED
  BY <1>14, <1>15

-----------------------------------------------------------------------------
\* The event loop

\* A flush moves what is under way from the queue into the pipe.
LEMMA FlushedPending ==
    ASSUME NEW c \in Clients, Flushed(mod[c], peer[c].socket, FlushQueue(c)),
           mod'[c].queue = FlushQueue(c).module.queue, peer'[c].socket = FlushQueue(c).socket
    PROVE  Pending(c)' = Pending(c)
BY DEF Flushed, Pending, Cat

LEMMA HandleModuleOutputSlots ==
    ASSUME IInv, Slots, NEW c \in Clients, HandleModuleOutput(c) PROVE Slots'
<1> DEFINE r == FlushQueue(c)
<1>1. /\ mod' = [mod EXCEPT ![c] = r.module]
      /\ peer' = [peer EXCEPT ![c].socket = r.socket]
      /\ UNCHANGED <<list, stack, spoiled, astray>>
  BY DEF HandleModuleOutput
<1>2. mod \in [Clients -> Module] /\ peer \in [Clients -> Peer] /\ Typed /\ PeersOK
  BY DEF IInv, Typed
<1>3. r.module = Dead \/ Flushed(mod[c], peer[c].socket, r)
  BY <1>2, FlushQueueIs
<1> HIDE DEF r
<1>4. /\ mod'[c] = r.module /\ \A d \in Clients : d # c => mod'[d] = mod[d]
      /\ peer'[c].socket = r.socket /\ peer'[c].cmds = peer[c].cmds
      /\ peer'[c].heard = peer[c].heard
      /\ \A d \in Clients : d # c => peer'[d] = peer[d]
  BY <1>1, <1>2 DEF Peer
<1>5. \A d \in Clients : SameWaits(d)
  BY <1>1, UnchangedWaits
<1>6. \A d \in Clients : d # c => Slot(d)'
  BY <1>1, <1>4, <1>5, UnservedSlot DEF Slots
<1>7. Slot(c)'
  <2>1. Slot(c)
    BY DEF Slots
  <2>2. ASSUME mod'[c].active # -1
        PROVE  /\ Pending(c)' = Pending(c) /\ mod[c].active # -1
               /\ mod'[c].active = mod[c].active /\ mod'[c].lock = mod[c].lock
    <3>1. Flushed(mod[c], peer[c].socket, r)
      BY <1>3, <1>4, <2>2, DeadIs
    <3>2. Pending(c)' = Pending(c)
      BY <1>4, <3>1, FlushedPending DEF r
    <3> QED
      BY <1>4, <2>2, <3>1, <3>2 DEF Flushed
  <2>3. mod'[c].active # -1 =>
          /\ mod[c].active # -1 /\ mod'[c].lock \subseteq Locks[c]
          /\ mod'[c].active = 0 => mod[c].active = 0 /\ mod'[c].lock = {}
    BY <2>1, <2>2 DEF Slot
  <2>4. mod'[c].active # -1 => FewerHeaders(c, Pending(c), Pending(c)')
    BY <2>2, AsMany
  <2>5. FewerAnswers(peer[c].cmds, peer'[c].cmds)
        /\ \A m : Heard(peer[c].heard, m) => Heard(peer'[c].heard, m)
    BY <1>4, AsMany
  <2> QED
    BY <1>1, <1>5, <2>1, <2>3, <2>4, <2>5, KeptSlot
<1> QED
  BY <1>6, <1>7 DEF Slots

LEMMA HandleModuleInputSlots ==
    ASSUME IInv, Slots, NEW c \in Clients, HandleModuleInput(c) PROVE Slots'
<1> DEFINE cmd == Incoming(c)
           one == 1
           m == [mod[c] EXCEPT !.active = one]
           heeded == [mod EXCEPT ![c] = m]
           cmds == Tail(peer[c].cmds)
           p == [peer[c] EXCEPT !.cmds = cmds]
           ran == RunCommand(c, cmd, heeded)
           todo == CommandSends(c, cmd)
<1>1. /\ stack = <<>> /\ mod[c].active >= 0
      /\ UNCHANGED <<list, spoiled, astray>>
  BY DEF HandleModuleInput
<1>2. Typed /\ ListOK /\ mod \in [Clients -> Module] /\ peer \in [Clients -> Peer]
      /\ mod[c] \in Module /\ peer[c] \in Peer
  BY DEF IInv, Typed
<1>3. \/ mod' = [mod EXCEPT ![c] = Dead] /\ UNCHANGED <<peer, stack>>
      \/ /\ cmd \notin {"eof", "nothing"} /\ peer' = [peer EXCEPT ![c] = p]
         /\ mod' = ran /\ stack' = Calls(<<>>, todo)
  <2>1. [mod EXCEPT ![c].active = 1] = heeded /\ [peer EXCEPT ![c].cmds = Tail(@)] = [peer EXCEPT ![c] = p]
    BY <1>2
  <2> QED
    BY <2>1 DEF HandleModuleInput
<1>4. todo \in Seq(Packet)
  BY CommandSendsIs
<1>5. cmd \notin {"eof", "nothing"} => FewerAnswers(peer[c].cmds, cmds)
  BY <1>2, TailAnswers DEF Incoming, Peer
<1>6. m \in Module /\ m.active = 1 /\ m.queue = mod[c].queue /\ m.lock = mod[c].lock
      /\ m.named = mod[c].named
  BY <1>2 DEF Module
<1>7. p.cmds = cmds /\ p.socket = peer[c].socket /\ p.heard = peer[c].heard
  BY <1>2 DEF Peer
<1> HIDE DEF cmd, m, cmds, p, todo
<1>8. heeded \in [Clients -> Module] /\ heeded[c] = m
      /\ \A d \in Clients : d # c => heeded[d] = mod[d]
  BY <1>2, <1>6
<1> HIDE DEF heeded
<1>9. \A d \in Clients : heeded[d].named => mod[d].named
  BY <1>6, <1>8
<1>10. \A d \in Clients : After(c, d, heeded[d], ran[d])
  BY <1>2, <1>8, <1>9, NamesFewer, RunCommandIs
<1> HIDE DEF ran
<1>11. \A d \in Clients : SameWaits(d)
  <2>1. ASSUME stack' = stack, NEW d \in Clients
        PROVE  SameWaits(d)
    BY <1>1, <2>1, UnchangedWaits
  <2>2. ASSUME stack' = Calls(<<>>, todo), NEW d \in Clients
        PROVE  SameWaits(d)
    BY <1>1, <1>2, <1>4, <2>2, CalledNoWaits
  <2> QED
    BY <1>3, <2>1, <2>2
<1>12. ASSUME NEW d \in Clients, d # c
       PROVE  Slot(d)'
  <2>1. mod'[d] \in {mod[d], Dead} /\ peer'[d] = peer[d]
    BY <1>2, <1>3, <1>8, <1>10, <1>12 DEF After
  <2> QED
    BY <1>1, <1>11, <2>1, UnservedSlot DEF Slots
<1>13. Slot(c)'
  <2>1. Slot(c) /\ mod[c].active # -1
    BY <1>1 DEF Slots
  <2>2. CASE mod'[c].active = -1
    BY <2>2 DEF Slot
  <2>3. CASE mod'[c].active # -1
    <3>1. /\ cmd \notin {"eof", "nothing"} /\ peer'[c] = p /\ mod'[c] = ran[c]
      BY <1>2, <1>3, <2>3, DeadIs
    <3>2. /\ mod'[c].active = 1 /\ mod'[c].queue = mod[c].queue
          /\ mod'[c].lock \in {mod[c].lock, Locks[c]}
      BY <1>6, <1>8, <1>10, <2>3, <3>1, DeadIs DEF After
    <3>3. mod'[c].lock \subseteq Locks[c]
      BY <2>1, <3>2 DEF Slot
    <3>4. Pending(c)' = Pending(c)
      BY <1>7, <3>1, <3>2 DEF Pending
    <3>5. FewerHeaders(c, Pending(c), Pending(c)')
      BY <3>4, AsMany
    <3>6. FewerAnswers(peer[c].cmds, peer'[c].cmds)
          /\ \A x : Heard(peer[c].heard, x) => Heard(peer'[c].heard, x)
      BY <1>5, <1>7, <3>1
    <3> QED
      BY <1>1, <1>11, <2>1, <3>2, <3>3, <3>5, <3>6, KeptSlot
  <2> QED
    BY <2>2, <2>3
<1> QED
  BY <1>12, <1>13 DEF Slots

-----------------------------------------------------------------------------
\* The broadcast comes to a module

\* The first wait for a module is for the message that is sent now.
LEMMA FirstWait ==
    ASSUME Typed, stack # <<>>, list' = list, NEW f \in Frames, stack' = SetTop(f),
           f.tries > 0, ~WaitedFor(list[f.at])
    PROVE  /\ WaitedFor(list[f.at])'
           /\ \A i \in DOMAIN stack' : Waits(i, list[f.at])' => stack'[i].msg = f.msg
<1>1. PICK n \in Nat : n = Len(stack) /\ n \in 1..n /\ DOMAIN stack = 1..n
  BY TopIs
<1> DEFINE g == SetTop(f)
<1>2. g \in Seq(Frames) /\ Len(g) = n /\ \A j \in 1..n : g[j] = IF j = n THEN f ELSE stack[j]
  BY <1>1, SetTopIs
<1> HIDE DEF g
<1>3. stack' = g /\ DOMAIN stack' = 1..n
  BY <1>2, LenProperties DEF g
<1>4. PICK c : c = list[f.at]
  OBVIOUS
<1>5. Waits(n, c)'
  BY <1>1, <1>2, <1>3, <1>4 DEF Waits
<1>6. ASSUME NEW i \in DOMAIN stack', Waits(i, c)'
      PROVE  i = n
  <2>1. CASE i # n
    <3>1. stack'[i] = stack[i] /\ i \in DOMAIN stack
      BY <1>1, <1>2, <1>3, <2>1
    <3>2. Waits(i, c)
      BY <1>6, <3>1 DEF Waits
    <3> QED
      BY <1>4, <3>1, <3>2, WaitedForIs
  <2> QED
    BY <2>1
<1>7. stack'[n] = f
  BY <1>1, <1>2, <1>3
<1>8. WaitedFor(c)'
  BY <1>1, <1>3, <1>5 DEF WaitedFor, Waits
<1> QED
  BY <1>4, <1>6, <1>7, <1>8

\* The turn of module c: b is sent for the message of the frame on top.
Turn(c, b, grabbed) ==
    LET f == Top
        asks(m) == c \in f.to /\ mod[c].active >= 0 /\ m.type \in mod[c].mask
    IN  /\ mod' = IF asks(b) THEN [mod EXCEPT ![c].queue = @ \o Units(b, Size[f.msg.type])]
                  ELSE mod
        /\ LET waits == asks(b) /\ b.type \in mod[c].lock /\ ~grabbed
           IN  /\ stack' = SetTop(IF waits THEN [f EXCEPT !.tries = 1] ELSE NextChannel(f))
               /\ astray' = IF asks(b) /\ b.type \in Locks[c] /\ (~waits \/ WaitedFor(c))
                            THEN astray \cup {c} ELSE astray
        /\ owed' = IF asks(f.msg) THEN [owed EXCEPT ![c] = @ \o Units(f.msg, Size[f.msg.type])]
                   ELSE owed
        /\ spoiled' = IF b # f.msg /\ (asks(b) \/ asks(f.msg)) THEN spoiled \cup {c}
                      ELSE spoiled

LEMMA PositiveWriteIs ==
    ASSUME IInv, PositiveWrite
    PROVE  /\ stack # <<>> /\ Top.tries = 0 /\ UNCHANGED <<list, peer>>
           /\ Top \in Frames /\ Top.msg \in Message /\ Top.at \in 1..Len(list)
           /\ \E c \in Clients : /\ c = list[Top.at]
                                 /\ \E b \in {buffer, Top.msg}, grabbed \in BOOLEAN :
                                      Turn(c, b, grabbed)
<1>1. stack # <<>> /\ Top.msg # None /\ Top.tries = 0 /\ UNCHANGED <<list, peer>>
  BY DEF PositiveWrite
<1>2. Typed /\ Top \in Frames
  BY <1>1, TopIs DEF IInv
<1>3. Top.msg \in Message /\ Top.at \in 1..Len(list) /\ list[Top.at] \in Clients
  BY <1>1, <1>2, ListIs DEF Frames, Frame
<1>4. \E b \in {buffer, Top.msg}, grabbed \in BOOLEAN : Turn(list[Top.at], b, grabbed)
  BY DEF PositiveWrite, Turn
<1> QED
  BY <1>1, <1>2, <1>3, <1>4

LEMMA PositiveWriteSlots == ASSUME IInv, Slots, PositiveWrite PROVE Slots'
<1>1. stack # <<>> /\ Top.tries = 0 /\ UNCHANGED <<list, peer>>
  BY PositiveWriteIs
<1>2. PICK c \in Clients :
        /\ c = list[Top.at]
        /\ \E b \in {buffer, Top.msg}, grabbed \in BOOLEAN : Turn(c, b, grabbed)
  BY PositiveWriteIs
<1>0. PICK b \in {buffer, Top.msg}, grabbed \in BOOLEAN : Turn(c, b, grabbed)
  BY <1>2
<1> DEFINE f == Top
           one == 1
           g == [f EXCEPT !.tries = one]
           u == Units(f.msg, Size[f.msg.type])
           asks(m) == c \in f.to /\ mod[c].active >= 0 /\ m.type \in mod[c].mask
           waits == asks(b) /\ b.type \in mod[c].lock /\ ~grabbed
<1>3. Typed /\ mod \in [Clients -> Module] /\ peer \in [Clients -> Peer]
  BY DEF IInv, Typed
<1>4. f \in Frames /\ f.msg \in Message /\ f.msg # None /\ f.at \in 1..Len(list)
  BY PositiveWriteIs, NoneIsNoMessage
<1>5. NextChannel(f) \in Frames /\ NextChannel(f).tries = 0
  BY <1>1, <1>3, <1>4, NextChannelIs
<1>6. g \in Frames /\ g.at = f.at /\ g.msg = f.msg /\ g.tries = 1
  <2>1. one \in 0..MaxTries /\ one = 1
    BY Parameters
  <2> HIDE DEF one, f
  <2>2. g \in Frame /\ g.at = f.at /\ g.msg = f.msg /\ g.tries = one
    BY <1>4, <2>1 DEF Frames, Frame
  <2> QED
    BY <1>1, <1>4, <2>1, <2>2 DEF Frames, f
<1>7. u \in Seq(Unit) /\ mod[c].queue \in Seq(Unit) /\ peer[c].socket \in Seq(Unit)
  BY <1>3, <1>4, UnitsIn DEF Module, Peer
<1>8. /\ \A d \in Clients : d # c => mod'[d] = mod[d]
      /\ ~asks(b) => mod' = mod
      /\ asks(b) => /\ mod'[c].active = mod[c].active /\ mod'[c].lock = mod[c].lock
                    /\ mod'[c].queue = mod[c].queue \o Units(b, Size[f.msg.type])
  BY <1>0, <1>3 DEF Turn, Module
<1>9. /\ astray \subseteq astray' /\ spoiled \subseteq spoiled'
      /\ c \notin astray' \cup spoiled' /\ asks(b) =>
           /\ b = f.msg
           /\ waits \/ b.type \notin Locks[c]
           /\ b.type \in Locks[c] => ~WaitedFor(c)
  BY <1>0 DEF Turn
<1>10. stack' = SetTop(IF waits THEN g ELSE NextChannel(f))
  BY <1>0 DEF Turn
<1>11. ASSUME NEW d \in Clients, d # c \/ ~waits
       PROVE  SameWaits(d)
  <2>1. PICK h \in Frames : stack' = SetTop(h) /\ (h.tries = 0 \/ list[h.at] # d)
    BY <1>2, <1>5, <1>6, <1>10, <1>11
  <2>2. <<>> \in Seq(Packet)
    BY EmptySeq
  <2> QED
    BY <1>1, <1>3, <2>1, <2>2, TopWaits
<1>12. Slot(c)
  BY <1>4 DEF Slots
<1>13. ASSUME asks(b), b = f.msg
       PROVE  Pending(c)' = Cat(Pending(c), u) /\ Pending(c) \in Seq(Unit)
  <2>1. mod'[c].queue = Cat(mod[c].queue, u)
    BY <1>8, <1>13 DEF Cat
  <2> HIDE DEF u, asks
  <2>2. Pending(c)' = Cat(peer[c].socket, Cat(mod[c].queue, u))
    BY <1>1, <2>1 DEF Pending
  <2>3. Cat(peer[c].socket, Cat(mod[c].queue, u)) = Cat(Cat(peer[c].socket, mod[c].queue), u)
    BY <1>7, CatAssociative
  <2> QED
    BY <1>7, <2>2, <2>3, CatIn DEF Pending
<1> HIDE DEF u, g, one
<1>14. ASSUME NEW d \in Clients, d # c
       PROVE  Slot(d)'
  BY <1>1, <1>8, <1>9, <1>11, <1>14, UnservedSlot DEF Slots
<1>15. ASSUME ~asks(b) PROVE Slot(c)'
  BY <1>1, <1>4, <1>8, <1>9, <1>11, <1>12, <1>15, UnservedSlot
<1>16. ASSUME asks(b), ~waits PROVE Slot(c)'
  <2>1. c \notin astray' \cup spoiled' => FewerHeaders(c, Pending(c), Pending(c)')
    <3> SUFFICES ASSUME c \notin astray' \cup spoiled'
                 PROVE  FewerHeaders(c, Pending(c), Pending(c)')
      OBVIOUS
    <3>1. b = f.msg /\ f.msg.type \notin Locks[c]
      BY <1>9, <1>16
    <3> QED
      BY <1>4, <1>13, <1>16, <3>1, Appended DEF u
  <2>2. FewerAnswers(peer[c].cmds, peer'[c].cmds)
        /\ \A m : Heard(peer[c].heard, m) => Heard(peer'[c].heard, m)
    BY <1>1, AsMany
  <2>3. mod'[c].active # -1 =>
          /\ mod[c].active # -1 /\ mod'[c].lock \subseteq Locks[c]
          /\ mod'[c].active = 0 => mod[c].active = 0 /\ mod'[c].lock = {}
    BY <1>8, <1>12, <1>16 DEF Slot
  <2>4. SameWaits(c)
    BY <1>4, <1>11, <1>16
  <2> HIDE DEF asks, waits, f
  <2> QED
    BY <1>4, <1>9, <1>12, <2>1, <2>2, <2>3, <2>4, KeptSlot
<1>17. ASSUME waits PROVE Slot(c)'
  <2>1. /\ mod[c].active # -1 /\ mod[c].active # 0 /\ mod[c].lock \subseteq Locks[c]
        /\ mod'[c].active = mod[c].active /\ mod'[c].lock = mod[c].lock
    <3>1. asks(b) /\ b.type \in mod[c].lock /\ mod[c].active # -1
      BY <1>17
    <3> HIDE DEF asks, waits, f
    <3> QED
      BY <1>8, <1>12, <3>1 DEF Slot
  <2>2. ASSUME c \notin astray' \cup spoiled'
        PROVE  Exchange(c)'
    <3>1. b = f.msg /\ ~WaitedFor(c)
      BY <1>9, <1>17, <2>1, <2>2
    <3>2. Headers(c, Pending(c)) = {} /\ Answers(peer'[c].cmds) = {}
      BY <1>1, <1>9, <1>12, <2>1, <2>2, <3>1 DEF Slot, Exchange
    <3>3. Single(Headers(c, Pending(c)'))
          /\ \A k \in Headers(c, Pending(c)') : Pending(c)'[k].msg = f.msg
      <4>1. Pending(c)' = Cat(Pending(c), u) /\ Pending(c) \in Seq(Unit) /\ f.msg \in Message
        BY <1>4, <1>13, <1>17, <3>1
      <4> HIDE DEF asks, waits, f
      <4>2. PICK s \in Seq(Unit) : s = Pending(c)
        BY <4>1
      <4>3. /\ Single(Headers(c, Cat(s, u)))
            /\ \A k \in Headers(c, Cat(s, u)) : Cat(s, u)[k].msg = f.msg
        BY <3>2, <4>1, <4>2, Appended DEF u
      <4> QED
        BY <4>1, <4>2, <4>3
    <3>4. /\ WaitedFor(c)'
          /\ \A i \in DOMAIN stack' : Waits(i, c)' => stack'[i].msg = f.msg
      <4>1. stack' = SetTop(g) /\ g \in Frames /\ g.tries > 0 /\ c = list[g.at]
            /\ g.msg = f.msg
        BY <1>2, <1>6, <1>10, <1>17
      <4> HIDE DEF asks, waits, f
      <4> QED
        BY <1>1, <1>3, <3>1, <4>1, FirstWait
    <3> HIDE DEF asks, waits, f
    <3> QED
      BY <3>2, <3>3, <3>4 DEF Exchange, Single
  <2> QED
    BY <2>1, <2>2 DEF Slot
<1> QED
  BY <1>4, <1>14, <1>15, <1>16, <1>17 DEF Slots

-----------------------------------------------------------------------------
\* The wait

\* A round of the wait for module c; the frame on top waits for it.
Round(c) ==
    LET r == FlushQueue(c)
        cmd == Incoming(c)
        flushed == [mod EXCEPT ![c] = r.module]
        ended == SetTop(NextChannel(Top))
        again == SetTop(Retried(Top))
        late == IF Top.tries < MaxTries THEN astray ELSE astray \cup {c}
        rest == [peer EXCEPT ![c].socket = r.socket, ![c].cmds = Tail(@)]
    IN  \/ /\ r.res < 0
           /\ mod' = flushed /\ stack' = ended
           /\ UNCHANGED <<peer, astray>>
        \/ /\ r.res >= 0 /\ cmd = "eof"
           /\ mod' = [mod EXCEPT ![c] = Dead] /\ stack' = ended
           /\ UNCHANGED <<peer, astray>>
        \/ /\ r.res >= 0 /\ cmd = "nothing"
           /\ mod' = flushed /\ stack' = again /\ astray' = late
           /\ peer' = [peer EXCEPT ![c].socket = r.socket]
        \/ /\ r.res >= 0 /\ cmd = "bad"
           /\ mod' = flushed /\ stack' = ended /\ astray' = astray \cup {c} /\ peer' = rest
        \/ /\ r.res >= 0 /\ Unlocks(cmd)
           /\ mod' = flushed /\ stack' = ended /\ peer' = rest
           /\ UNCHANGED astray
        \/ /\ r.res >= 0 /\ cmd \notin {"eof", "nothing", "bad"} /\ ~Unlocks(cmd)
           /\ mod' = RunCommand(c, cmd, flushed)
           /\ stack' = Calls(again, CommandSends(c, cmd)) /\ astray' = late /\ peer' = rest

LEMMA AwaitUnlockIs ==
    ASSUME IInv, AwaitUnlock
    PROVE  /\ stack # <<>> /\ Top.tries > 0 /\ UNCHANGED <<list, spoiled>>
           /\ \E c \in Clients : c = list[Top.at] /\ Round(c)
<1>1. stack # <<>> /\ Top.tries > 0 /\ UNCHANGED <<list, spoiled>>
  BY DEF AwaitUnlock
<1>2. Round(list[Top.at])
  BY DEF AwaitUnlock, Round
<1>3. Typed /\ Top \in Frames
  BY <1>1, TopIs DEF IInv
<1>4. list[Top.at] \in Clients
  BY <1>1, <1>3, RetriedIs, ListIs
<1> QED
  BY <1>1, <1>2, <1>4

\* What a round does: the frame on top goes on waiting or goes on to the next
\* module, the module is served, others at most killed.
LEMMA RoundIs ==
    ASSUME IInv, stack # <<>>, Top.tries > 0, NEW c \in Clients, c = list[Top.at], Round(c)
    PROVE  /\ astray \subseteq astray'
           /\ \/ /\ stack' = SetTop(NextChannel(Top))
                 /\ c \notin astray' =>
                      mod'[c] = Dead \/ mod[c].active <= 0 \/ Incoming(c) = "unlock"
              \/ /\ \E todo \in Seq(Packet) : stack' \in {SetTop(Retried(Top)),
                                                       Calls(SetTop(Retried(Top)), todo)}
                 /\ c \notin astray' => Top.tries < MaxTries /\ Incoming(c) # "unlock"
           /\ \A d \in Clients \ {c} : mod'[d] \in {mod[d], Dead} /\ peer'[d] = peer[d]
           /\ peer'[c].heard = peer[c].heard
           /\ mod'[c] # Dead =>
                \/ mod[c].active <= 0 /\ mod'[c] = mod[c]
                \/ /\ mod[c].active > 0 /\ mod'[c].active = mod[c].active
                   /\ mod'[c].lock \in {mod[c].lock, Locks[c]}
                   /\ Pending(c)' = Pending(c)
                   /\ IF Incoming(c) = "nothing" THEN peer'[c].cmds = peer[c].cmds
                      ELSE /\ peer[c].cmds # <<>> /\ Incoming(c) = Head(peer[c].cmds)
                           /\ peer'[c].cmds = Tail(peer[c].cmds)
<1> DEFINE r == FlushQueue(c)
           cmd == Incoming(c)
           flushed == [mod EXCEPT ![c] = r.module]
           next == NextChannel(Top)
           retried == Retried(Top)
           cmds == Tail(peer[c].cmds)
           written == [peer EXCEPT ![c].socket = r.socket]
           rest == [peer EXCEPT ![c].socket = r.socket, ![c].cmds = cmds]
           ran == RunCommand(c, cmd, flushed)
           todo == CommandSends(c, cmd)
           late == IF Top.tries < MaxTries THEN astray ELSE astray \cup {c}
<1>1. Typed /\ ListOK /\ PeersOK /\ mod \in [Clients -> Module] /\ peer \in [Clients -> Peer]
  BY DEF IInv, Typed
<1>2. /\ r.module \in Module
      /\ r.module = Dead \/ Flushed(mod[c], peer[c].socket, r)
      /\ r.res < 0 => r.module = Dead \/ (r.module = mod[c] /\ mod[c].active <= 0)
      /\ r.res >= 0 => mod[c].active > 0 /\ Flushed(mod[c], peer[c].socket, r)
  BY <1>1, FlushQueueIs
<1>3. \/ r.res < 0 /\ mod' = flushed /\ stack' = SetTop(next) /\ UNCHANGED <<peer, astray>>
      \/ /\ r.res >= 0 /\ mod' = [mod EXCEPT ![c] = Dead] /\ stack' = SetTop(next)
         /\ UNCHANGED <<peer, astray>>
      \/ /\ r.res >= 0 /\ cmd = "nothing" /\ mod' = flushed /\ stack' = SetTop(retried)
         /\ astray' = late /\ peer' = written
      \/ /\ r.res >= 0 /\ cmd \notin {"eof", "nothing"} /\ mod' = flushed
         /\ stack' = SetTop(next) /\ peer' = rest
         /\ astray' = astray \cup {c} \/ (cmd = "unlock" /\ UNCHANGED astray)
      \/ /\ r.res >= 0 /\ cmd \notin {"eof", "nothing", "unlock"} /\ mod' = ran
         /\ stack' = Calls(SetTop(retried), todo) /\ astray' = late /\ peer' = rest
  <2>1. [peer EXCEPT ![c].socket = r.socket, ![c].cmds = Tail(@)] = rest
    BY <1>1 DEF Peer
  <2> QED
    BY <2>1 DEF Round, Unlocks
<1>4. todo \in Seq(Packet)
  BY CommandSendsIs
<1>5. cmd \notin {"eof", "nothing"} => peer[c].cmds # <<>> /\ cmd = Head(peer[c].cmds)
  BY DEF Incoming
<1> HIDE DEF r, cmd, next, retried, cmds, todo
<1>6. flushed \in [Clients -> Module] /\ flushed[c] = r.module
      /\ \A d \in Clients \ {c} : flushed[d] = mod[d]
  BY <1>1, <1>2
<1> HIDE DEF flushed
<1>7. \A d \in Clients : flushed[d].named => mod[d].named
  BY <1>2, <1>6, DeadIs DEF Flushed
<1>8. \A d \in Clients : After(c, d, flushed[d], ran[d])
  BY <1>1, <1>6, <1>7, NamesFewer, RunCommandIs
<1>9. /\ written[c].socket = r.socket /\ written[c].heard = peer[c].heard
      /\ written[c].cmds = peer[c].cmds /\ \A d \in Clients \ {c} : written[d] = peer[d]
  BY <1>1 DEF Peer
<1>10. /\ rest[c].socket = r.socket /\ rest[c].heard = peer[c].heard
       /\ rest[c].cmds = cmds /\ \A d \in Clients \ {c} : rest[d] = peer[d]
  BY <1>1 DEF Peer
<1> HIDE DEF ran, written, rest
<1>11. astray \subseteq late /\ (c \notin late => Top.tries < MaxTries)
  OBVIOUS
<1> HIDE DEF late
<1>12. CASE r.res < 0 /\ mod' = flushed /\ stack' = SetTop(next) /\ UNCHANGED <<peer, astray>>
  <2>1. mod'[c] = Dead \/ (mod'[c] = mod[c] /\ mod[c].active <= 0)
    BY <1>2, <1>6, <1>12
  <2> QED
    BY <1>6, <1>12, <2>1 DEF next, cmd
<1>13. CASE /\ r.res >= 0 /\ mod' = [mod EXCEPT ![c] = Dead] /\ stack' = SetTop(next)
            /\ UNCHANGED <<peer, astray>>
  <2>1. mod'[c] = Dead /\ \A d \in Clients \ {c} : mod'[d] = mod[d]
    BY <1>1, <1>13
  <2> QED
    BY <1>13, <2>1 DEF next, cmd
<1>14. CASE /\ r.res >= 0 /\ mod' \in {flushed, ran}
            /\ \/ cmd = "nothing" /\ peer' = written
               \/ cmd \notin {"eof", "nothing"} /\ peer' = rest
            /\ \/ /\ stack' = SetTop(next) /\ cmd # "nothing"
                  /\ astray' = astray \cup {c} \/ (cmd = "unlock" /\ UNCHANGED astray)
               \/ /\ stack' \in {SetTop(retried), Calls(SetTop(retried), todo)}
                  /\ astray' = late /\ cmd # "unlock"
  <2>1. \A d \in Clients : After(c, d, flushed[d], mod'[d])
    BY <1>8, <1>14 DEF After
  <2>2. /\ peer'[c].socket = r.socket /\ peer'[c].heard = peer[c].heard
        /\ \A d \in Clients \ {c} : peer'[d] = peer[d]
        /\ peer'[c].cmds = IF cmd = "nothing" THEN peer[c].cmds ELSE cmds
    BY <1>9, <1>10, <1>14
  <2>3. \A d \in Clients \ {c} : mod'[d] \in {mod[d], Dead}
    BY <1>6, <2>1 DEF After
  <2>4. ASSUME mod'[c] # Dead
        PROVE  /\ mod[c].active > 0 /\ mod'[c].active = mod[c].active
               /\ mod'[c].lock \in {mod[c].lock, Locks[c]} /\ Pending(c)' = Pending(c)
    <3>1. mod[c].active > 0 /\ Flushed(mod[c], peer[c].socket, r)
      BY <1>2, <1>14
    <3>2. mod'[c].queue = r.module.queue
      BY <1>6, <2>1, <2>4 DEF After
    <3>3. Pending(c)' = Pending(c)
      BY <2>2, <3>1, <3>2, FlushedPending DEF r
    <3> QED
      BY <1>6, <2>1, <2>4, <3>1, <3>3, ZenonT(60) DEF After, Flushed
  <2>5. \/ /\ stack' = SetTop(next)
           /\ c \notin astray' => cmd = "unlock"
        \/ /\ \E t \in Seq(Packet) : stack' \in {SetTop(retried), Calls(SetTop(retried), t)}
           /\ c \notin astray' => Top.tries < MaxTries /\ cmd # "unlock"
    BY <1>4, <1>11, <1>14
  <2>6. astray \subseteq astray'
    BY <1>11, <1>14
  <2>7. IF cmd = "nothing" THEN peer'[c].cmds = peer[c].cmds
        ELSE /\ peer[c].cmds # <<>> /\ cmd = Head(peer[c].cmds)
             /\ peer'[c].cmds = Tail(peer[c].cmds)
    BY <1>5, <1>14, <2>2 DEF cmds
  <2> QED
    BY <2>2, <2>3, <2>4, <2>5, <2>6, <2>7 DEF next, retried, cmd
<1> QED
  BY <1>3, <1>12, <1>13, <1>14

LEMMA AwaitUnlockSlots == ASSUME IInv, Slots, AwaitUnlock PROVE Slots'
<1>1. stack # <<>> /\ Top.tries > 0 /\ list' = list /\ spoiled' = spoiled /\ Typed
  BY AwaitUnlockIs DEF IInv
<1>2. PICK c \in Clients : c = list[Top.at] /\ Round(c)
  BY AwaitUnlockIs
<1>3. PICK n \in Nat : n = Len(stack) /\ n \in DOMAIN stack /\ Top = stack[n]
  BY <1>1, TopIs
<1>4. Waits(n, c) /\ WaitedFor(c)
  BY <1>1, <1>2, <1>3, WaitedForIs DEF Waits
<1>5. /\ Top \in Frames /\ Top.msg # None
      /\ NextChannel(Top) \in Frames /\ NextChannel(Top).tries = 0
      /\ Retried(Top) \in Frames
      /\ IF Top.tries < MaxTries
         THEN Retried(Top).tries > 0 /\ Retried(Top).at = Top.at /\ Retried(Top).msg = Top.msg
         ELSE Retried(Top).tries = 0
  BY <1>1, TopIs, RetriedIs, NextChannelIs
<1>6. /\ astray \subseteq astray'
      /\ \A d \in Clients \ {c} : mod'[d] \in {mod[d], Dead} /\ peer'[d] = peer[d]
  BY <1>1, <1>2, RoundIs
<1>7. PICK f \in {NextChannel(Top), Retried(Top)}, todo \in Seq(Packet) :
        stack' = SetTop(f) \/ stack' = Calls(SetTop(f), todo)
  <2>1. <<>> \in Seq(Packet)
    BY EmptySeq
  <2> QED
    BY <1>1, <1>2, <2>1, RoundIs
<1>8. f \in Frames /\ (f.tries = 0 \/ f.at = Top.at)
  BY <1>5, <1>7
<1>9. ASSUME NEW d \in Clients, d # c
      PROVE  Slot(d)'
  <2>1. SameWaits(d)
    BY <1>1, <1>2, <1>7, <1>8, <1>9, TopWaits
  <2> QED
    BY <1>1, <1>6, <1>9, <2>1, UnservedSlot DEF Slots
<1>10. Slot(c)'
  <2>1. Slot(c)
    BY DEF Slots
  <2>2. CASE mod'[c].active = -1
    BY <2>2 DEF Slot
  <2>3. CASE mod'[c].active # -1
    <3>1. mod'[c] # Dead
      BY <2>3, DeadIs
    <3>2. mod[c].active # 0 /\ mod[c] \in Module
      BY <1>1, <1>4, <2>1 DEF Slot, Typed
    <3>3. /\ mod[c].active > 0 /\ mod'[c].active = mod[c].active
          /\ mod'[c].lock \in {mod[c].lock, Locks[c]} /\ Pending(c)' = Pending(c)
          /\ peer'[c].heard = peer[c].heard
          /\ IF Incoming(c) = "nothing" THEN peer'[c].cmds = peer[c].cmds
             ELSE /\ peer[c].cmds # <<>> /\ Incoming(c) = Head(peer[c].cmds)
                  /\ peer'[c].cmds = Tail(peer[c].cmds)
      <4>1. ~(mod[c].active <= 0 /\ mod'[c] = mod[c])
        BY <2>3, <3>2 DEF Module
      <4> QED
        BY <1>1, <1>2, <3>1, <4>1, RoundIs
    <3>4. mod'[c].lock \subseteq Locks[c] /\ mod'[c].active # 0
      BY <2>1, <3>3 DEF Slot
    <3>5. peer[c].cmds \in Seq(Commands)
      BY <1>1 DEF Typed, Peer
    <3>6. FewerAnswers(peer[c].cmds, peer'[c].cmds)
      BY <3>3, <3>5, AsMany, TailAnswers
    <3>7. ASSUME c \notin astray' \cup spoiled'
          PROVE  Exchange(c)'
      <4>1. Exchange(c)
        BY <1>1, <1>6, <2>1, <3>3, <3>7 DEF Slot
      <4>2. CASE Incoming(c) = "unlock"
        <5>1. Head(peer[c].cmds) = "unlock" /\ peer[c].cmds # <<>>
              /\ peer'[c].cmds = Tail(peer[c].cmds)
          BY <3>3, <4>2
        <5>2. Answers(peer'[c].cmds) = {}
          BY <3>5, <4>1, <5>1, TailAnswers DEF Exchange
        <5>3. Answers(peer[c].cmds) # {}
          BY <3>5, <5>1, LenProperties, EmptySeq, HeadTailProperties DEF Answers
        <5>4. Headers(c, Pending(c)') = {}
          BY <3>3, <4>1, <5>3 DEF Exchange
        <5> QED
          BY <5>2, <5>4 DEF Exchange, Single
      <4>3. CASE Incoming(c) # "unlock"
        <5>1. Top.tries < MaxTries
              /\ \E t \in Seq(Packet) : stack' \in {SetTop(Retried(Top)),
                                                    Calls(SetTop(Retried(Top)), t)}
          <6>1. ~(mod[c].active <= 0) /\ c \notin astray'
            BY <3>2, <3>3, <3>7 DEF Module
          <6> QED
            BY <1>1, <1>2, <3>1, <4>3, <6>1, RoundIs
        <5>2. SameWaits(c)
          BY <1>1, <1>5, <5>1, TopWaits
        <5> QED
          BY <3>3, <3>6, <4>1, <5>2, AsMany, FewerExchange
      <4> QED
        BY <4>2, <4>3
    <3> QED
      BY <3>3, <3>4, <3>7 DEF Slot
  <2> QED
    BY <2>2, <2>3
<1> QED
  BY <1>9, <1>10 DEF Slots

-----------------------------------------------------------------------------
LEMMA StutterSlots == ASSUME Slots, UNCHANGED vars PROVE Slots'
<1>1. UNCHANGED <<list, mod, peer, stack, spoiled, astray>>
  BY DEF vars
<1> QED
  BY <1>1, UnchangedWaits, UnservedSlot DEF Slots

LEMMA InitiallySlots == Init => Slots
BY DeadIs DEF Init, Slots, Slot

LEMMA SlotsInductive == IInv /\ Slots /\ [Next]_vars => Slots'
<1> SUFFICES ASSUME IInv, Slots, [Next]_vars PROVE Slots'
  OBVIOUS
<1>1. CASE UNCHANGED vars
  BY <1>1, StutterSlots
<1>2. CASE Broadcast \/ Sending \/ RemoveDead
  BY <1>2, QuietSlots, PositiveWriteSlots, AwaitUnlockSlots, RemoveDeadSlots DEF Sending
<1>3. ASSUME NEW c \in Clients,
             \/ AcceptModuleConnection(c) \/ HandleModuleInput(c) \/ HandleModuleOutput(c)
             \/ Speak(c) \/ Chat(c) \/ ReadPacket(c) \/ Die(c)
      PROVE  Slots'
  BY <1>3, AcceptSlots, HandleModuleInputSlots, HandleModuleOutputSlots, SpeakSlots,
     ChatSlots, ReadPacketSlots, DieSlots
<1> QED
  BY <1>1, <1>2, <1>3 DEF Next

\* Only a round of the wait can end it, and on an UNLOCK it is the answer to the
\* message waited for.
WaitEnds(c) ==
    stack # <<>> /\ Top.tries > 0 /\ list[Top.at] = c
      /\ (Len(stack') < Len(stack) \/ stack'[Len(stack)].tries = 0) /\ c \notin astray' \cup spoiled
    => \/ mod'[c].active < 0
       \/ \E i \in DOMAIN peer[c].heard : peer[c].heard[i].msg = Top.msg

LEMMA RoundEnds == ASSUME IInv, Slots, AwaitUnlock, NEW c \in Clients PROVE WaitEnds(c)
<1> SUFFICES ASSUME list[Top.at] = c, c \notin astray' \cup spoiled, mod'[c].active >= 0,
                    Len(stack') < Len(stack) \/ stack'[Len(stack)].tries = 0
             PROVE  Heard(peer[c].heard, Top.msg)
  <2>1. mod'[c] \in Module
    BY AwaitUnlockStep DEF IInv, Typed
  <2> QED
    BY <2>1 DEF WaitEnds, Heard, Module
<1>1. stack # <<>> /\ Top.tries > 0 /\ list' = list /\ spoiled' = spoiled /\ Typed /\ Round(c)
  BY AwaitUnlockIs DEF IInv
<1>2. PICK n \in Nat : n = Len(stack) /\ n \in 1..n /\ n \in DOMAIN stack /\ Top = stack[n]
  BY <1>1, TopIs
<1>3. Waits(n, c) /\ WaitedFor(c)
  BY <1>1, <1>2, WaitedForIs DEF Waits
<1>4. mod'[c] # Dead /\ Slot(c) /\ mod[c] \in Module
  BY <1>1, DeadIs DEF Slots, Typed
<1>5. mod[c].active > 0
  <2>1. ~(mod[c].active <= 0 /\ mod'[c] = mod[c])
    BY <1>3, <1>4 DEF Slot, Module
  <2> QED
    BY <1>1, <1>4, <2>1, RoundIs
<1>6. Incoming(c) = "unlock"
  <2>1. CASE /\ \E todo \in Seq(Packet) : stack' \in {SetTop(Retried(Top)),
                                                     Calls(SetTop(Retried(Top)), todo)}
             /\ c \notin astray' => Top.tries < MaxTries /\ Incoming(c) # "unlock"
    <3>1. Retried(Top) \in Frames /\ Retried(Top).tries > 0
      BY <1>1, <2>1, TopIs, RetriedIs
    <3> DEFINE g == SetTop(Retried(Top))
    <3>2. g \in Seq(Frames) /\ Len(g) = n /\ g[n] = Retried(Top)
      BY <1>1, <1>2, <3>1, SetTopIs
    <3>3. PICK todo \in Seq(Packet) : stack' = g \/ stack' = Calls(g, todo)
      BY <2>1
    <3> HIDE DEF g
    <3>4. Calls(g, todo)[n] = g[n] /\ Len(Calls(g, todo)) \in n..(n + 1)
      BY <1>2, <3>2, CallsIs
    <3>5. Len(stack') >= n /\ stack'[n].tries > 0
      BY <1>2, <3>1, <3>2, <3>3, <3>4
    <3> QED
      BY <1>2, <3>5
  <2>2. ~(mod[c].active <= 0)
    BY <1>4, <1>5 DEF Module
  <2> QED
    BY <1>1, <1>4, <2>1, <2>2, RoundIs
<1>7. Exchange(c)
  BY <1>1, <1>4, <1>5, RoundIs DEF Slot
<1>8. Answers(peer[c].cmds) # {}
  <2>1. peer[c].cmds \in Seq(Commands) /\ peer[c].cmds # <<>> /\ Head(peer[c].cmds) = "unlock"
    BY <1>1, <1>6 DEF Typed, Peer, Incoming
  <2> QED
    BY <2>1, LenProperties, EmptySeq, HeadTailProperties DEF Answers
<1> QED
  BY <1>2, <1>3, <1>7, <1>8 DEF Exchange

LEMMA OthersWait ==
    ASSUME IInv, [Next]_vars, ~AwaitUnlock, stack # <<>>, Top.tries > 0
    PROVE  stack' = stack
<1>1. Top.msg # None /\ Top.tries # 0
  BY TopIs, RetriedIs DEF IInv
<1> QED
  BY <1>1 DEF Next, Sending, Broadcast, SendPacket, PacketsSent, PositiveWrite, RemoveDead,
     AcceptModuleConnection, HandleModuleInput, HandleModuleOutput, Speak, Chat, ReadPacket, Die,
     vars

LEMMA OnlyRoundsEnd ==
    ASSUME IInv, [Next]_vars, ~AwaitUnlock, NEW c \in Clients PROVE WaitEnds(c)
<1> SUFFICES ASSUME stack # <<>>, Top.tries > 0,
                    Len(stack') < Len(stack) \/ stack'[Len(stack)].tries = 0
             PROVE  FALSE
  BY DEF WaitEnds
<1>1. stack' = stack
  BY OthersWait
<1>2. Len(stack) \in Nat /\ Top = stack[Len(stack)]
  BY TopIs DEF IInv
<1> QED
  BY <1>1, <1>2

\* WaitsUntilSeen, for any modules, masks, scripts, sizes of the pipes and rounds of
\* the wait: an UNLOCK that ends a wait was sent by a module that had read the
\* message, however commands, answers and broadcasts inside the wait interleave.
THEOREM WaitsAreAnswered == Spec => WaitsUntilSeen
<1>1. IInv /\ Slots /\ [Next]_vars => \A c \in Clients : WaitEnds(c)
  BY RoundEnds, OnlyRoundsEnd
<1>2. Init /\ [][Next]_vars => [](IInv /\ Slots)
  BY Initially, Inductive, InitiallySlots, SlotsInductive, PTL
<1>3. Spec => [][\A c \in Clients : WaitEnds(c)]_vars
  BY <1>1, <1>2, PTL DEF Spec
<1> QED
  BY <1>3 DEF WaitsUntilSeen, WaitEnds
=============================================================================
