------------------------------ MODULE ModulePipes ------------------------------
(***************************************************************************)
(* The window manager's side of the pipes to its modules (pager, window    *)
(* list, animator, ...), src/src/afterstep/module.c and module_control.c.  *)
(* A message is broadcast to every module that asked for its type; what    *)
(* the pipe does not take is queued.  A module may ask, per type, that the *)
(* window manager stand still after sending until it answers UNLOCK; while *)
(* it stands still it runs that module's commands, and some of these send  *)
(* messages themselves, from inside the broadcast.  SendPacket builds      *)
(* every message in one static buffer.                                     *)
(*                                                                         *)
(* A message is a header and possibly a body, each one unit of the pipe.   *)
(***************************************************************************)
EXTENDS Integers, FiniteSets, SequencesExt

CONSTANTS
    Clients,        \* module processes
    Scripts,        \* what each may send after SET_NAME and SET_MASK, unasked: sequences
    Chatter,        \* commands each may repeat without end; they send no messages
    Wants, Locks,   \* the masks each sends with SET_MASK
    Room,           \* units a pipe holds before a write would block
    MaxTries,       \* rounds of the wait for UNLOCK (2000 in the code)
    MaxBroadcasts   \* bound: broadcasts the window manager starts itself

\* M_STATUS_CHANGE and the like; what Send_WindowList sends to the module that
\* asked for it; M_STACKING_ORDER.
Types == {"status", "list", "order"}
Size == [t \in Types |-> IF t = "list" THEN 1 ELSE 2]
Commands == {"name", "mask", "list", "flags", "unlock", "bad"}

\* UNLOCK is an answer (Animate.c:594): no module sends it unasked.
ASSUME PipesAssumption ==
    /\ Scripts \in [Clients -> SUBSET Seq(Commands \ {"unlock"})]
    /\ Chatter \in [Clients -> SUBSET {"name", "mask", "bad"}]
    /\ Wants \in [Clients -> SUBSET Types] /\ Locks \in [Clients -> SUBSET Types]
    /\ Room \in Nat \ {0, 1} /\ MaxTries \in Nat \ {0} /\ MaxBroadcasts \in Nat

VARIABLES
    policy,      \* ModuleNameCollision: "allow", "kill_old" or "kill_new"
    list,        \* the modules in MODULES_LIST, dead ones until they are removed
    mod,         \* module_t of each client
    peer,        \* the client's end: is it alive, what it has left to say, both directions of the pipe
    stack,       \* the SendPacket sequences in progress, the innermost last
    buffer,      \* module_output_buffer: the message built last
    ids,         \* messages built so far
    started,     \* broadcasts started by the window manager itself
    owed,        \* history: the units of the messages each client was to be sent
    spoiled,     \* history: clients that may have been sent another message instead
    astray       \* history: clients that answer a message nobody waits for
vars == <<policy, list, mod, peer, stack, buffer, ids, started, owed, spoiled, astray>>

None == [id |-> 0, type |-> "none"]
Message == [id : Nat, type : Types]
Unit == [msg : Message, part : 1..2]
Units(m, n) == [k \in 1..n |-> [msg |-> m, part |-> k]]
Listed == {list[i] : i \in DOMAIN list}

Dead == [active |-> -1, mask |-> {}, lock |-> {}, named |-> FALSE, queue |-> <<>>]

Init ==
    /\ policy \in {"allow", "kill_old", "kill_new"}
    /\ list = <<>>
    /\ mod = [c \in Clients |-> Dead]
    /\ peer = [c \in Clients |-> [life |-> "off", script |-> <<>>, cmds |-> <<>>,
                                  socket |-> <<>>, heard |-> <<>>]]
    /\ stack = <<>>
    /\ buffer = None
    /\ ids = 0
    /\ started = 0
    /\ owed = [c \in Clients |-> <<>>]
    /\ spoiled = {}
    /\ astray = {}

-----------------------------------------------------------------------------
\* Writing and reading one pipe

\* The units of its queue that a client's pipe takes now.  The queue is kept as
\* the units not yet written, so `done` is how many are gone from its head.
Fits(c) ==
    LET room == Room - Len(peer[c].socket) IN
    IF Len(mod[c].queue) > room THEN room ELSE Len(mod[c].queue)

\* n units are written and k leave the queue: FlushQueue's result, with the
\* module_t and the pipe afterwards.
WriteOut(c, n, k) ==
    LET q == mod[c].queue IN
    IF mod[c].active <= 0
    THEN [res |-> -1, module |-> mod[c], socket |-> peer[c].socket]
    ELSE IF q # <<>> /\ peer[c].life = "gone"
    THEN [res |-> -1, module |-> Dead, socket |-> <<>>]
    ELSE [res |-> IF k = Len(q) THEN 1 ELSE 0,
          module |-> [mod[c] EXCEPT !.queue = SubSeq(q, k + 1, Len(q))],
          socket |-> peer[c].socket \o SubSeq(q, 1, n)]

\* Faults: the rest of a message written in part is thrown away; a queue is
\* written only when all of it fits.
FlushQueueDropsRest(c) ==
    WriteOut(c, Fits(c), IF Fits(c) < Len(mod[c].queue) /\ mod[c].queue[Fits(c) + 1].part > 1
                         THEN Fits(c) + 1 ELSE Fits(c))
FlushQueueWhole(c) ==
    LET n == IF Fits(c) = Len(mod[c].queue) THEN Fits(c) ELSE 0 IN WriteOut(c, n, n)

FlushQueue(c) == WriteOut(c, Fits(c), Fits(c))

\* What HandleModuleInput finds to read.
Incoming(c) ==
    CASE peer[c].cmds # <<>> -> Head(peer[c].cmds)
      [] peer[c].cmds = <<>> /\ peer[c].life = "gone" -> "eof"
      [] OTHER -> "nothing"

\* The collision check goes through the list from the end and stops at the
\* first module of the same name.  All clients of the model have one name.
SameName(c, modules) == {d \in Listed \ {c} : modules[d].named}
LastListed(S) == list[CHOOSE i \in DOMAIN list :
                        list[i] \in S /\ \A j \in DOMAIN list : list[j] \in S => j <= i]
\* Fault: the setting to kill the new module is not looked at.
SetNameOldOnly(c, modules) ==
    LET now == [modules EXCEPT ![c].named = TRUE]
        old == SameName(c, modules)
    IN  IF policy # "kill_old" \/ old = {} THEN now ELSE [now EXCEPT ![LastListed(old)] = Dead]

SetName(c, modules) ==
    LET now == [modules EXCEPT ![c].named = TRUE]
        old == SameName(c, modules)
    IN  CASE policy = "allow" \/ old = {} -> now
          [] policy = "kill_old" /\ old # {} -> [now EXCEPT ![LastListed(old)] = Dead]
          [] policy = "kill_new" /\ old # {} -> [now EXCEPT ![c] = Dead]

\* RunCommand: what a command does to the modules at once, ...
RunCommand(c, cmd, modules) ==
    CASE cmd = "mask" -> [modules EXCEPT ![c].mask = Wants[c], ![c].lock = Locks[c]]
      [] cmd = "name" -> SetName(c, modules)
      [] OTHER -> modules

\* ... and what it sends: Send_WindowList is not queued like other functions,
\* and ends with a broadcast; SET_FLAGS broadcasts the window's new flags.
CommandSends(c, cmd) ==
    CASE cmd = "list" -> << [to |-> {c}, type |-> "list"], [to |-> Clients, type |-> "order"] >>
      [] cmd = "flags" -> << [to |-> Clients, type |-> "status"] >>
      [] OTHER -> <<>>

-----------------------------------------------------------------------------
\* Broadcasts

Top == Last(stack)
SetTop(f) == [stack EXCEPT ![Len(stack)] = f]
Calls(s, todo) ==
    IF todo = <<>> THEN s
    ELSE Append(s, [todo |-> todo, msg |-> None, to |-> {}, at |-> 0, tries |-> 0])

\* The loop of SendBuffer goes on to the next module, from the last to the first.
NextChannel(f) ==
    IF f.at > 1 THEN [f EXCEPT !.at = @ - 1, !.tries = 0]
    ELSE [f EXCEPT !.msg = None, !.at = 0, !.tries = 0]

\* The window manager has something to tell (a focus or status change, ...).
Broadcast ==
    /\ stack = <<>>
    /\ started < MaxBroadcasts
    /\ started' = started + 1
    /\ stack' = Calls(<<>>, << [to |-> Clients, type |-> "status"] >>)
    /\ UNCHANGED <<policy, list, mod, peer, buffer, ids, owed, spoiled, astray>>

SendPacket ==
    /\ stack # <<>> /\ Top.msg = None /\ Top.todo # <<>>
    /\ LET m == [id |-> ids + 1, type |-> Head(Top.todo).type]
           f == [Top EXCEPT !.todo = Tail(@), !.to = Head(Top.todo).to]
       IN  /\ buffer' = m
           /\ stack' = SetTop(IF list = <<>> THEN f ELSE [f EXCEPT !.msg = m, !.at = Len(list)])
    /\ ids' = ids + 1
    /\ UNCHANGED <<policy, list, mod, peer, started, owed, spoiled, astray>>

PacketsSent ==
    /\ stack # <<>> /\ Top.msg = None /\ Top.todo = <<>>
    /\ stack' = Front(stack)
    /\ UNCHANGED <<policy, list, mod, peer, buffer, ids, started, owed, spoiled, astray>>

WaitedFor(c) == \E i \in DOMAIN stack : stack[i].tries > 0 /\ list[stack[i].at] = c

\* One turn of SendBuffer's loop.  The message is read from the buffer, which a
\* command run while waiting for an earlier module may have overwritten or moved:
\* b still points to the old memory then.
PositiveWrite ==
    /\ stack # <<>> /\ Top.msg # None /\ Top.tries = 0
    /\ LET f == Top
           c == list[f.at]
           asks(m) == c \in f.to /\ mod[c].active >= 0 /\ m.type \in mod[c].mask
       IN  \E b \in {buffer, f.msg}, grabbed \in BOOLEAN :
             /\ mod' = IF asks(b) THEN [mod EXCEPT ![c].queue = @ \o Units(b, Size[f.msg.type])]
                                  ELSE mod
             /\ LET waits == asks(b) /\ b.type \in mod[c].lock /\ ~grabbed
                IN  /\ stack' = SetTop(IF waits THEN [f EXCEPT !.tries = 1] ELSE NextChannel(f))
                    /\ astray' = IF asks(b) /\ b.type \in Locks[c] /\ (~waits \/ WaitedFor(c))
                                 THEN astray \cup {c} ELSE astray
             /\ owed' = IF asks(f.msg) THEN [owed EXCEPT ![c] = @ \o Units(f.msg, Size[f.msg.type])] ELSE owed
             /\ spoiled' = IF b # f.msg /\ (asks(b) \/ asks(f.msg)) THEN spoiled \cup {c}
                           ELSE spoiled
    /\ UNCHANGED <<policy, list, peer, buffer, ids, started>>

\* Faults: any command ends the wait; its rounds are not counted.
UnlocksAlways(cmd) == cmd \notin {"eof", "nothing", "bad"}
RetriedForever(f) == f

\* The wait ends with UNLOCK, or when its rounds are used up.
Unlocks(cmd) == cmd = "unlock"
Retried(f) == IF f.tries < MaxTries THEN [f EXCEPT !.tries = @ + 1] ELSE NextChannel(f)

\* One round of it: flush, read a command, run it.
AwaitUnlock ==
    /\ stack # <<>> /\ Top.tries > 0
    /\ LET f == Top
           c == list[f.at]
           r == FlushQueue(c)
           cmd == Incoming(c)
           flushed == [mod EXCEPT ![c] = r.module]
           ended == SetTop(NextChannel(f))
           again == SetTop(Retried(f))
           late == IF f.tries < MaxTries THEN astray ELSE astray \cup {c}
           rest == [peer EXCEPT ![c].socket = r.socket, ![c].cmds = Tail(@)]
       IN  \/ /\ r.res < 0
              /\ mod' = flushed /\ stack' = ended
              /\ UNCHANGED <<peer, astray>>
           \/ /\ r.res >= 0 /\ cmd = "eof"
              /\ mod' = [mod EXCEPT ![c] = Dead] /\ stack' = ended
              /\ UNCHANGED <<peer, astray>>
           \/ /\ r.res >= 0 /\ cmd = "nothing"
              /\ mod' = flushed /\ stack' = again /\ astray' = late
              /\ peer' = [peer EXCEPT ![c].socket = r.socket]
           \/ /\ r.res >= 0 /\ cmd = "bad"
              /\ mod' = flushed /\ stack' = ended /\ astray' = astray \cup {c} /\ peer' = rest
           \/ /\ r.res >= 0 /\ Unlocks(cmd)
              /\ mod' = flushed /\ stack' = ended /\ peer' = rest
              /\ UNCHANGED astray
           \/ /\ r.res >= 0 /\ cmd \notin {"eof", "nothing", "bad"} /\ ~Unlocks(cmd)
              /\ mod' = RunCommand(c, cmd, flushed)
              /\ stack' = Calls(again, CommandSends(c, cmd)) /\ astray' = late /\ peer' = rest
    /\ UNCHANGED <<policy, list, buffer, ids, started, owed, spoiled>>

-----------------------------------------------------------------------------
\* The event loop, when no broadcast is in progress

\* Each pass of afterstep_wait_pipes_input first removes the dead modules.
RemoveDead ==
    /\ stack = <<>>
    /\ \E c \in Listed : mod[c].active < 0
    /\ LET left == {c \in Listed : mod[c].active >= 0} IN
       \E s \in [1..Cardinality(left) -> left] :
         /\ Range(s) = left
         /\ \A i, j \in DOMAIN s : i < j =>
              \E k, l \in DOMAIN list : k < l /\ list[k] = s[i] /\ list[l] = s[j]
         /\ list' = s
    /\ UNCHANGED <<policy, mod, peer, stack, buffer, ids, started, owed, spoiled, astray>>

\* A new module is sent everything until it sets its mask.  ConnectAfterStep sends
\* SET_NAME and SET_MASK right after it connected.  (The limit on the number of
\* connections, that of file descriptors, is not modelled.)
AcceptModuleConnection(c) ==
    /\ stack = <<>> /\ peer[c].life = "off"
    /\ \A d \in Listed : mod[d].active >= 0
    /\ list' = Append(list, c)
    /\ mod' = [mod EXCEPT ![c] = [Dead EXCEPT !.active = 0, !.mask = Types]]
    /\ \E s \in Scripts[c] :
         peer' = [peer EXCEPT ![c].life = "up", ![c].cmds = <<"name", "mask">>, ![c].script = s]
    /\ UNCHANGED <<policy, stack, buffer, ids, started, owed, spoiled, astray>>

\* HandleModuleInOut: a command is read and run, ...
HandleModuleInput(c) ==
    /\ stack = <<>> /\ c \in Listed /\ mod[c].active >= 0
    /\ LET cmd == Incoming(c)
           heeded == [mod EXCEPT ![c].active = 1]
       IN  \/ /\ cmd = "eof"
              /\ mod' = [mod EXCEPT ![c] = Dead]
              /\ UNCHANGED <<peer, stack>>
           \/ /\ cmd \notin {"eof", "nothing"}
              /\ peer' = [peer EXCEPT ![c].cmds = Tail(@)]
              /\ mod' = RunCommand(c, cmd, heeded)
              /\ stack' = Calls(<<>>, CommandSends(c, cmd))
    /\ UNCHANGED <<policy, list, buffer, ids, started, owed, spoiled, astray>>

\* ... or the pipe is ready for output.
HandleModuleOutput(c) ==
    /\ stack = <<>> /\ c \in Listed /\ mod[c].queue # <<>>
    /\ mod' = [mod EXCEPT ![c] = FlushQueue(c).module]
    /\ peer' = [peer EXCEPT ![c].socket = FlushQueue(c).socket]
    /\ UNCHANGED <<policy, list, stack, buffer, ids, started, owed, spoiled, astray>>

-----------------------------------------------------------------------------
\* The modules

Up(c) == peer[c].life = "up" /\ mod[c].active >= 0

Speak(c) ==
    /\ Up(c) /\ peer[c].script # <<>>
    /\ peer' = [peer EXCEPT ![c].script = Tail(@), ![c].cmds = Append(@, Head(peer[c].script))]
    /\ UNCHANGED <<policy, list, mod, stack, buffer, ids, started, owed, spoiled, astray>>

\* Bound: the next one only when the window manager has read what was sent before.
Chat(c) ==
    /\ Up(c) /\ peer[c].cmds = <<>>
    /\ \E x \in Chatter[c] : peer' = [peer EXCEPT ![c].cmds = <<x>>]
    /\ UNCHANGED <<policy, list, mod, stack, buffer, ids, started, owed, spoiled, astray>>

\* ReadASPacket: the header says how much to read; what is no header is skipped.
\* The module answers what it wants to be waited for.
ReadPacket(c) ==
    /\ Up(c) /\ peer[c].socket # <<>>
    /\ LET s == peer[c].socket
           n == IF Head(s).part = 1 THEN Size[Head(s).msg.type] ELSE 1
       IN  /\ Len(s) >= n
           /\ peer' = [peer EXCEPT
                ![c].socket = SubSeq(s, n + 1, Len(s)),
                ![c].heard = @ \o SubSeq(s, 1, n),
                ![c].cmds = IF Head(s).part = 1 /\ Head(s).msg.type \in Locks[c]
                            THEN Append(@, "unlock") ELSE @]
    /\ UNCHANGED <<policy, list, mod, stack, buffer, ids, started, owed, spoiled, astray>>

Die(c) ==
    /\ peer[c].life = "up"
    /\ peer' = [peer EXCEPT ![c].life = "gone", ![c].socket = <<>>]
    /\ UNCHANGED <<policy, list, mod, stack, buffer, ids, started, owed, spoiled, astray>>

-----------------------------------------------------------------------------
Sending == SendPacket \/ PacketsSent \/ PositiveWrite \/ AwaitUnlock

Next ==
    \/ Broadcast \/ Sending \/ RemoveDead
    \/ \E c \in Clients :
         \/ AcceptModuleConnection(c) \/ HandleModuleInput(c) \/ HandleModuleOutput(c)
         \/ Speak(c) \/ Chat(c) \/ ReadPacket(c) \/ Die(c)

\* The window manager does not stop in the middle of a broadcast, and each pass
\* of its loop serves every pipe that is ready, both ways (HandleModuleInOut).
\* Nothing is assumed of the modules.
Fairness ==
    /\ WF_vars(Sending)
    /\ \A c \in Clients : WF_vars(HandleModuleInput(c)) /\ WF_vars(HandleModuleOutput(c))

Spec == Init /\ [][Next]_vars
FairSpec == Spec /\ Fairness

-----------------------------------------------------------------------------
\* Properties

Alive(c) == mod[c].active >= 0 /\ peer[c].life = "up"

\* TypeOK: the shape of the state; a module that was killed keeps no mask, name
\* or queue (KillModule), and no client has two entries.
TypeOK ==
    /\ policy \in {"allow", "kill_old", "kill_new"}
    /\ IsInjective(list) /\ Listed \subseteq Clients
    /\ \A c \in Clients :
         /\ mod[c].active \in {-1, 0, 1} /\ mod[c].named \in BOOLEAN
         /\ mod[c].mask \subseteq Types /\ mod[c].lock \subseteq Types
         /\ mod[c].active = -1 => mod[c] = Dead
         /\ mod[c].active # -1 => c \in Listed
         /\ peer[c].life \in {"off", "up", "gone"}
         /\ Range(peer[c].cmds) \subseteq Commands /\ Len(peer[c].socket) <= Room
         /\ owed[c] \in Seq(Unit)
    /\ \A i \in DOMAIN stack : stack[i].tries \in 0..MaxTries
    /\ buffer \in Message \cup {None} /\ ids \in Nat /\ started \in 0..MaxBroadcasts
    /\ spoiled \subseteq Clients /\ astray \subseteq Clients

\* StreamWhole: what a module has read, what is in its pipe and what is queued
\* for it are together exactly the messages it was to be sent, whole, in order
\* and none twice, through full pipes and partial writes (FlushQueue), unless
\* the buffer was overwritten in the middle of a broadcast.
StreamWhole ==
    \A c \in Clients \ spoiled : Alive(c) =>
        peer[c].heard \o peer[c].socket \o mod[c].queue = owed[c]

\* OneOfEachName: unless the configuration allows it there are never two live
\* modules of one name, whoever killed whom and from whichever SET_NAME
\* (check_module_name_collision looks for one collision only).
OneOfEachName ==
    policy # "allow" =>
        \A c, d \in Listed : mod[c].named /\ mod[d].named => c = d

\* Consistent: the list of modules, after every order of deaths, kills and names.
Consistent == TypeOK /\ OneOfEachName

\* WaitsUntilSeen: the window manager goes on after a locked message only when
\* the module has read it or is dead; exempt are modules that are known to send
\* an UNLOCK no wait is for: after a wait of 20 seconds, while the X server was
\* grabbed, for what they were sent before SET_MASK, or from a wait inside a wait.
WaitsUntilSeen ==
    [][\A c \in Clients :
         stack # <<>> /\ Top.tries > 0 /\ list[Top.at] = c
           /\ (Len(stack') < Len(stack) \/ stack'[Len(stack)].tries = 0) /\ c \notin astray' \cup spoiled
         => \/ mod'[c].active < 0
            \/ \E i \in DOMAIN peer[c].heard : peer[c].heard[i].msg = Top.msg]_vars

\* BroadcastEnds: no module holds the window manager up for good by silence, by
\* dying, or by commands that send no messages, however many it sends while it
\* is waited for (Chatter): each counts as a round of the wait in PositiveWrite.
\* Of those that do send messages a module has finitely many here (Scripts):
\* each may start a wait inside the wait, whose rounds count from 0, so a module
\* that locks M_STACKING_ORDER and never stops asking for the window list would
\* nest waits without end.
BroadcastEnds == stack # <<>> ~> stack = <<>>

\* Delivered: a module that keeps emptying its pipe gets all that it was to be
\* sent, however often a write found the pipe full.
Delivered ==
    \A c \in Clients :
        []<>(peer[c].socket = <<>>) =>
            <>[](~Alive(c) \/ c \in spoiled \/ peer[c].heard = owed[c])
=============================================================================
