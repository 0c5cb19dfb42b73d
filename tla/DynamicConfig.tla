--------------------------- MODULE DynamicConfig ---------------------------
(***************************************************************************)
(* Dynamic configuration of several instances of the program, for one key  *)
(* (internal/config/dynamic): a row in MySQL, a value in the memory of     *)
(* each instance, and a Redis channel that tells the instances to read the *)
(* row again. Keys share nothing but the channel.                          *)
(*                                                                         *)
(* A notification carries the key only, so those that wait in one          *)
(* subscription are a number. Delivery is at most once: a publication that *)
(* fails, a subscriber that is not connected and a read that fails all     *)
(* lose a change for somebody.                                             *)
(***************************************************************************)
EXTENDS Naturals

CONSTANTS
  Instances,
  Calls,       \* calls of Set(); their number bounds the changes
  Values,      \* values of the type the key is defined with
  Default,     \* Def.Default
  Wrong,       \* a value of another type, which the admin endpoint accepts
  NoRow,       \* no row with the key
  NoValue      \* nothing read

ASSUME ConfigAssumption ==
  /\ Default \in Values
  /\ Wrong \notin Values
  /\ NoRow \notin Values \union {Wrong}
  /\ NoValue \notin Values \union {Wrong}

VARIABLES
  row,      \* dynamic_configs.config_value
  mode,     \* where each instance stands in its life
  local,    \* Def.val of each instance
  inbox,    \* notifications waiting in each subscription
  read,     \* what handleNotify has read and not stored yet
  call,     \* where each call of Set() stands
  missed    \* history: instances that a change did not reach

vars == <<row, mode, local, inbox, read, call, missed>>

Modes == {"down", "seeding", "loaded", "watching"}
Idle  == [at |-> "idle"]
Done  == [at |-> "done"]
Stored == Values \union {Wrong}

Init ==
  /\ row    = NoRow
  /\ mode   = [i \in Instances |-> "down"]
  /\ local  = [i \in Instances |-> Default]
  /\ inbox  = [i \in Instances |-> 0]
  /\ read   = [i \in Instances |-> NoValue]
  /\ call   = [c \in Calls |-> Idle]
  /\ missed = {}

Unchecked(json, old) == json

\* loadFromJSON: a value of another type leaves the old one.
Parsed(json, old) == IF json \in Values THEN json ELSE old

Watching == {i \in Instances : mode[i] = "watching"}

-----------------------------------------------------------------------------
(* Start of an instance: Load, then Watch.                                 *)

Load(i) ==
  /\ mode[i] = "down"
  /\ mode' = [mode EXCEPT ![i] = IF row = NoRow THEN "seeding" ELSE "loaded"]
  /\ local' = [local EXCEPT ![i] = Parsed(row, Default)]
  /\ missed' = missed \ {i}
  /\ UNCHANGED <<row, inbox, read, call>>

\* The key is unique; when somebody else was faster, or the INSERT fails, the
\* default stays in memory.
InsertDefault(i) ==
  /\ mode[i] = "seeding"
  /\ row' \in {row, IF row = NoRow THEN Default ELSE row}
  /\ mode' = [mode EXCEPT ![i] = "loaded"]
  /\ UNCHANGED <<local, inbox, read, call, missed>>

Watch(i) ==
  /\ mode[i] = "loaded"
  /\ mode' = [mode EXCEPT ![i] = "watching"]
  /\ UNCHANGED <<row, local, inbox, read, call, missed>>

-----------------------------------------------------------------------------
(* Set(): table, own memory, channel.                                      *)

\* The UPDATE, or the INSERT when there is no row. The HTTP server starts
\* behind Watch, which subscribes in a goroutine of its own.
SetRow(c, i, v) ==
  /\ call[c] = Idle
  /\ mode[i] \in {"loaded", "watching"}
  /\ row' = v
  /\ call' = [call EXCEPT ![c] = [at |-> "local", on |-> i, value |-> v]]
  /\ UNCHANGED <<mode, local, inbox, read, missed>>

\* A value of another type is in the table by now, and nobody is told.
SetLocal(c) ==
  LET s == call[c] IN
  /\ s.at = "local"
  /\ local' = [local EXCEPT ![s.on] = Parsed(s.value, @)]
  /\ call' = [call EXCEPT ![c] = IF s.value \in Values THEN [s EXCEPT !.at = "publish"] ELSE Done]
  /\ UNCHANGED <<row, mode, inbox, read, missed>>

PublishedToOthers(me) == [i \in Instances |-> IF i \in Watching \ {me} THEN inbox[i] + 1 ELSE inbox[i]]

\* The channel delivers to every subscriber, the publisher included.
PublishedTo(me) == [i \in Instances |-> IF i \in Watching THEN inbox[i] + 1 ELSE inbox[i]]

Publish(c) ==
  /\ call[c].at = "publish"
  /\ inbox' = PublishedTo(call[c].on)
  /\ missed' = missed \union (Instances \ Watching)
  /\ call' = [call EXCEPT ![c] = Done]
  /\ UNCHANGED <<row, mode, local, read>>

\* Only logged.
PublishFails(c) ==
  /\ call[c].at = "publish"
  /\ missed' = Instances
  /\ call' = [call EXCEPT ![c] = Done]
  /\ UNCHANGED <<row, mode, local, inbox, read>>

-----------------------------------------------------------------------------
(* The watching goroutine, one per instance.                               *)

Taken(i) == inbox' = [inbox EXCEPT ![i] = @ - 1]

\* The row exists: no code deletes it, and Set() has written it before.
HandleNotify(i) ==
  /\ mode[i] = "watching" /\ read[i] = NoValue /\ inbox[i] > 0
  /\ Taken(i)
  /\ read' = [read EXCEPT ![i] = row]
  /\ missed' = missed \ {i}
  /\ UNCHANGED <<row, mode, local, call>>

StoreRead(i) ==
  /\ read[i] # NoValue
  /\ local' = [local EXCEPT ![i] = Parsed(read[i], @)]
  /\ read' = [read EXCEPT ![i] = NoValue]
  /\ UNCHANGED <<row, mode, inbox, call, missed>>

\* A connection breaks, a full buffer drops a message, or the SELECT fails.
NotifyLost(i) ==
  /\ inbox[i] > 0
  /\ Taken(i)
  /\ missed' = missed \union {i}
  /\ UNCHANGED <<row, mode, local, read, call>>

-----------------------------------------------------------------------------
\* The process ends, with its calls; what they have written stays.
Crash(i) ==
  LET dying == {c \in Calls : call[c].at \in {"local", "publish"} /\ call[c].on = i} IN
  /\ mode[i] # "down"
  /\ mode' = [mode EXCEPT ![i] = "down"]
  /\ inbox' = [inbox EXCEPT ![i] = 0]
  /\ read' = [read EXCEPT ![i] = NoValue]
  /\ local' = [local EXCEPT ![i] = Default]
  /\ call' = [c \in Calls |-> IF c \in dying THEN Done ELSE call[c]]
  /\ missed' = IF dying = {} THEN missed ELSE Instances
  /\ UNCHANGED row

InstanceStep(i) ==
  \/ Load(i) \/ InsertDefault(i) \/ Watch(i)
  \/ HandleNotify(i) \/ StoreRead(i) \/ NotifyLost(i) \/ Crash(i)

CallStep(c) ==
  \/ \E i \in Instances, v \in Stored : SetRow(c, i, v)
  \/ SetLocal(c) \/ Publish(c) \/ PublishFails(c)

Next ==
  \/ \E i \in Instances : InstanceStep(i)
  \/ \E c \in Calls : CallStep(c)

\* Goroutines that run go on.
Fairness ==
  /\ \A c \in Calls : WF_vars(SetLocal(c)) /\ WF_vars(Publish(c) \/ PublishFails(c))
  /\ \A i \in Instances : WF_vars(HandleNotify(i) \/ NotifyLost(i)) /\ WF_vars(StoreRead(i))

Spec == Init /\ [][Next]_vars

FairSpec == Spec /\ Fairness

-----------------------------------------------------------------------------
CallState == {Idle, Done} \union [at : {"local", "publish"}, on : Instances, value : Stored]

\* Type invariant. Memory holds values of the right type only.
TypeOK ==
  /\ row \in Stored \union {NoRow}
  /\ mode \in [Instances -> Modes]
  /\ local \in [Instances -> Values]
  /\ inbox \in [Instances -> Nat]
  /\ read \in [Instances -> Stored \union {NoValue}]
  /\ call \in [Calls -> CallState]
  /\ missed \subseteq Instances

\* Nothing is on its way to an instance: no notification, no value that was
\* read and not stored, no call that has still to store or publish.
Settled(i) ==
  /\ inbox[i] = 0 /\ read[i] = NoValue
  /\ \A c \in Calls : call[c].at \notin {"local", "publish"}

\* Changes made on several instances at once, each with its own order of table
\* and memory, leave all of them with the value of the table (manager.go: Set,
\* handleNotify), except an instance that a change did not reach.
AgreeWhenSettled ==
  \A i \in Watching \ missed :
    Settled(i) /\ row \in Values => local[i] = row

\* And they get there: an instance that watches does not stay behind the table
\* (def.go: all instances follow), unless a change did not reach it or the table
\* holds a value of another type.
Converges ==
  \A i \in Instances :
    []<>(i \notin Watching \/ i \in missed \/ row \notin Values \/ local[i] = row)

\* Why: until an instance has the value of the table something will make it
\* read the table again. A value read earlier is behind a row that somebody
\* has still to publish.
WillAgree ==
  \A i \in {j \in Instances : mode[j] # "down"} \ missed :
    \/ row \notin Values
    \/ inbox[i] > 0
    \/ \E c \in Calls : call[c].at = "publish" \/ (call[c].at = "local" /\ call[c].value \in Values)
    \/ read[i] = row
    \/ read[i] = NoValue /\ local[i] = row

\* An instance that found no row has the default, which is what the row will
\* hold unless somebody sets it.
SeedersHaveDefault ==
  /\ \A i \in Instances : mode[i] = "seeding" => local[i] = Default
  /\ row = NoRow =>
       /\ \A c \in Calls : call[c] = Idle
       /\ \A i \in Instances : inbox[i] = 0 /\ read[i] = NoValue /\ local[i] = Default

\* What a process had on its way dies with it.
OnlyRunning ==
  /\ \A i \in Instances : read[i] # NoValue => mode[i] = "watching"
  /\ \A c \in Calls :
       call[c].at \in {"local", "publish"} => mode[call[c].on] \in {"loaded", "watching"}

\* The inductive invariant.
IInv == TypeOK /\ WillAgree /\ SeedersHaveDefault /\ OnlyRunning
=============================================================================
