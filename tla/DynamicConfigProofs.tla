------------------------ MODULE DynamicConfigProofs ------------------------
(***************************************************************************)
(* Theorems of DynamicConfig, for any instances, calls and values.         *)
(***************************************************************************)
EXTENDS DynamicConfig, TLAPS

LEMMA TypeStep == IInv /\ [Next]_vars => TypeOK'
<1> SUFFICES ASSUME IInv, [Next]_vars PROVE TypeOK'
  OBVIOUS
<1>a. TypeOK /\ SeedersHaveDefault
  BY DEF IInv
<1> USE <1>a, ConfigAssumption DEF TypeOK, Stored, Modes, CallState, Idle, Done
<1>1. ASSUME NEW i \in Instances, InstanceStep(i) PROVE TypeOK'
  <2>1. CASE Load(i)
    BY <2>1 DEF Load, Parsed
  <2>2. CASE InsertDefault(i)
    BY <2>2 DEF InsertDefault
  <2>3. CASE Watch(i)
    BY <2>3 DEF Watch
  <2>4. CASE HandleNotify(i)
    <3>1. row \in Stored
      BY <2>4 DEF HandleNotify, SeedersHaveDefault
    <3> QED
      BY <2>4, <3>1 DEF HandleNotify, Taken
  <2>5. CASE StoreRead(i)
    BY <2>5 DEF StoreRead, Parsed
  <2>6. CASE NotifyLost(i)
    BY <2>6 DEF NotifyLost, Taken
  <2>7. CASE Crash(i)
    BY <2>7 DEF Crash
  <2> QED
    BY <1>1, <2>1, <2>2, <2>3, <2>4, <2>5, <2>6, <2>7 DEF InstanceStep
<1>2. ASSUME NEW c \in Calls, CallStep(c) PROVE TypeOK'
  <2>1. ASSUME NEW i \in Instances, NEW v \in Stored, SetRow(c, i, v) PROVE TypeOK'
    BY <2>1 DEF SetRow
  <2>2. CASE SetLocal(c)
    BY <2>2 DEF SetLocal, Parsed
  <2>3. CASE Publish(c)
    BY <2>3 DEF Publish, PublishedTo, Watching
  <2>4. CASE PublishFails(c)
    BY <2>4 DEF PublishFails
  <2> QED
    BY <1>2, <2>1, <2>2, <2>3, <2>4 DEF CallStep
<1>3. CASE UNCHANGED vars
  BY <1>3 DEF vars
<1> QED
  BY <1>1, <1>2, <1>3 DEF Next

LEMMA SeedersStep == IInv /\ [Next]_vars => SeedersHaveDefault'
<1> SUFFICES ASSUME IInv, [Next]_vars PROVE SeedersHaveDefault'
  OBVIOUS
<1>a. TypeOK /\ SeedersHaveDefault /\ OnlyRunning
  BY DEF IInv
<1> USE <1>a, ConfigAssumption DEF TypeOK, SeedersHaveDefault, Stored, CallState, Idle, Done
<1>1. ASSUME NEW i \in Instances, InstanceStep(i) PROVE SeedersHaveDefault'
  <2>1. CASE Load(i)
    BY <2>1 DEF Load, Parsed
  <2>2. CASE InsertDefault(i)
    BY <2>2 DEF InsertDefault
  <2>3. CASE Watch(i)
    BY <2>3 DEF Watch
  <2>4. CASE HandleNotify(i)
    BY <2>4 DEF HandleNotify, Taken
  <2>5. CASE StoreRead(i)
    BY <2>5 DEF StoreRead, Parsed, OnlyRunning
  <2>6. CASE NotifyLost(i)
    BY <2>6 DEF NotifyLost, Taken
  <2>7. CASE Crash(i)
    <3>1. row = NoRow => \A c \in Calls : call'[c] = Idle
      BY <2>7 DEF Crash
    <3>2. row' = row
      BY <2>7 DEF Crash
    <3>3. \A j \in Instances : mode'[j] = "seeding" => mode[j] = "seeding" /\ local'[j] = local[j]
      BY <2>7 DEF Crash
    <3>4. row = NoRow => \A j \in Instances : inbox'[j] = 0 /\ read'[j] = NoValue /\ local'[j] = Default
      BY <2>7 DEF Crash
    <3> QED
      BY <3>1, <3>2, <3>3, <3>4
  <2> QED
    BY <1>1, <2>1, <2>2, <2>3, <2>4, <2>5, <2>6, <2>7 DEF InstanceStep
<1>2. ASSUME NEW c \in Calls, CallStep(c) PROVE SeedersHaveDefault'
  <2>1. ASSUME NEW i \in Instances, NEW v \in Stored, SetRow(c, i, v)
        PROVE  SeedersHaveDefault'
    BY <2>1 DEF SetRow
  <2>2. CASE SetLocal(c)
    <3>1. row # NoRow /\ row' = row /\ mode' = mode
      BY <2>2 DEF SetLocal
    <3>2. call[c].on \in Instances /\ mode[call[c].on] # "seeding"
      BY <2>2 DEF SetLocal, OnlyRunning
    <3>3. \A j \in Instances : mode[j] = "seeding" => local'[j] = local[j]
      BY <2>2, <3>2 DEF SetLocal
    <3> QED
      BY <3>1, <3>3
  <2>3. CASE Publish(c)
    BY <2>3 DEF Publish
  <2>4. CASE PublishFails(c)
    BY <2>4 DEF PublishFails
  <2> QED
    BY <1>2, <2>1, <2>2, <2>3, <2>4 DEF CallStep
<1>3. CASE UNCHANGED vars
  BY <1>3 DEF vars
<1> QED
  BY <1>1, <1>2, <1>3 DEF Next

LEMMA RunningStep == IInv /\ [Next]_vars => OnlyRunning'
<1> SUFFICES ASSUME IInv, [Next]_vars PROVE OnlyRunning'
  OBVIOUS
<1>a. TypeOK /\ OnlyRunning
  BY DEF IInv
<1> USE <1>a, ConfigAssumption DEF TypeOK, OnlyRunning, Stored, Modes, CallState, Idle, Done
<1>1. ASSUME NEW i \in Instances, InstanceStep(i) PROVE OnlyRunning'
  <2>1. CASE Load(i)
    BY <2>1 DEF Load
  <2>2. CASE InsertDefault(i)
    BY <2>2 DEF InsertDefault
  <2>3. CASE Watch(i)
    BY <2>3 DEF Watch
  <2>4. CASE HandleNotify(i)
    BY <2>4 DEF HandleNotify
  <2>5. CASE StoreRead(i)
    BY <2>5 DEF StoreRead
  <2>6. CASE NotifyLost(i)
    BY <2>6 DEF NotifyLost
  <2>7. CASE Crash(i)
    BY <2>7 DEF Crash
  <2> QED
    BY <1>1, <2>1, <2>2, <2>3, <2>4, <2>5, <2>6, <2>7 DEF InstanceStep
<1>2. ASSUME NEW c \in Calls, CallStep(c) PROVE OnlyRunning'
  <2>1. ASSUME NEW i \in Instances, NEW v \in Stored, SetRow(c, i, v)
        PROVE  OnlyRunning'
    BY <2>1 DEF SetRow
  <2>2. CASE SetLocal(c)
    BY <2>2 DEF SetLocal
  <2>3. CASE Publish(c)
    BY <2>3 DEF Publish
  <2>4. CASE PublishFails(c)
    BY <2>4 DEF PublishFails
  <2> QED
    BY <1>2, <2>1, <2>2, <2>3, <2>4 DEF CallStep
<1>3. CASE UNCHANGED vars
  BY <1>3 DEF vars
<1> QED
  BY <1>1, <1>2, <1>3 DEF Next

\* WillAgree of one instance.
Pending ==
  \E c \in Calls : call[c].at = "publish" \/ (call[c].at = "local" /\ call[c].value \in Values)

AgreesLater(i) ==
  \/ row \notin Values
  \/ inbox[i] > 0
  \/ Pending
  \/ read[i] = row
  \/ read[i] = NoValue /\ local[i] = row

LEMMA WillAgreeStep == IInv /\ [Next]_vars => WillAgree'
<1> SUFFICES ASSUME IInv, [Next]_vars,
                    NEW x \in Instances, mode'[x] # "down", x \notin missed'
             PROVE  AgreesLater(x)'
  BY DEF WillAgree, AgreesLater, Pending
<1>a. TypeOK /\ SeedersHaveDefault /\ OnlyRunning
  BY DEF IInv
<1>b. mode[x] # "down" /\ x \notin missed => AgreesLater(x)
  BY DEF IInv, WillAgree, AgreesLater, Pending
<1> USE <1>a, <1>b, ConfigAssumption DEF TypeOK, Stored, Modes, AgreesLater
<1>1. ASSUME NEW i \in Instances, InstanceStep(i) PROVE AgreesLater(x)'
  <2>1. CASE Load(i)
    <3>1. CASE x = i
      BY <2>1, <3>1 DEF Load, Parsed, OnlyRunning
    <3>2. CASE x # i
      BY <2>1, <3>2 DEF Load, Pending
    <3> QED
      BY <3>1, <3>2
  <2>2. CASE InsertDefault(i)
    BY <2>2 DEF InsertDefault, Pending, SeedersHaveDefault
  <2>3. CASE Watch(i)
    BY <2>3 DEF Watch, Pending
  <2>4. CASE HandleNotify(i)
    BY <2>4 DEF HandleNotify, Taken, Pending
  <2>5. CASE StoreRead(i)
    BY <2>5 DEF StoreRead, Parsed, Pending
  <2>6. CASE NotifyLost(i)
    BY <2>6 DEF NotifyLost, Taken, Pending
  <2>7. CASE Crash(i)
    BY <2>7 DEF Crash, Pending
  <2> QED
    BY <1>1, <2>1, <2>2, <2>3, <2>4, <2>5, <2>6, <2>7 DEF InstanceStep
<1>2. ASSUME NEW c \in Calls, CallStep(c) PROVE AgreesLater(x)'
  <2>1. ASSUME NEW i \in Instances, NEW v \in Stored, SetRow(c, i, v)
        PROVE  AgreesLater(x)'
    <3>1. CASE v \in Values
      <4>1. call'[c] = [at |-> "local", on |-> i, value |-> v]
        BY <2>1 DEF SetRow
      <4> QED
        BY <3>1, <4>1 DEF Pending
    <3>2. CASE v \notin Values
      BY <2>1, <3>2 DEF SetRow
    <3> QED
      BY <3>1, <3>2
  <2>2. CASE SetLocal(c)
    <3>1. row' = row /\ inbox' = inbox /\ read' = read /\ mode' = mode /\ missed' = missed
      BY <2>2 DEF SetLocal
    <3>2. CASE call[c].value \in Values
      <4>1. call'[c].at = "publish"
        BY <2>2, <3>2 DEF SetLocal, CallState, Idle, Done
      <4> QED
        BY <4>1 DEF Pending
    <3>3. CASE call[c].value \notin Values
      <4>1. local' = local
        BY <2>2, <3>3 DEF SetLocal, Parsed, CallState, Idle, Done
      <4>2. Pending => Pending'
        <5>1. \A d \in Calls : d # c => call'[d] = call[d]
          BY <2>2 DEF SetLocal
        <5> QED
          BY <2>2, <3>3, <5>1 DEF SetLocal, Pending
      <4> QED
        BY <3>1, <4>1, <4>2
    <3> QED
      BY <3>2, <3>3
  <2>3. CASE Publish(c)
    BY <2>3 DEF Publish, PublishedTo, Watching, Pending
  <2>4. CASE PublishFails(c)
    BY <2>4 DEF PublishFails
  <2> QED
    BY <1>2, <2>1, <2>2, <2>3, <2>4 DEF CallStep
<1>3. CASE UNCHANGED vars
  BY <1>3 DEF vars, Pending
<1> QED
  BY <1>1, <1>2, <1>3 DEF Next

\* The inductive invariant, for any number of instances and changes.
THEOREM ConfigInvariance == Spec => []IInv
<1>1. Init => IInv
  BY ConfigAssumption
  DEF Init, IInv, TypeOK, WillAgree, SeedersHaveDefault, OnlyRunning, Stored, Modes, CallState, Idle
<1>2. IInv /\ [Next]_vars => IInv'
  BY TypeStep, WillAgreeStep, SeedersStep, RunningStep DEF IInv
<1> QED
  BY <1>1, <1>2, PTL DEF Spec

\* Instances agree with the table, and so with one another, when nothing is on
\* its way to them and no change failed to reach them.
THEOREM InstancesAgree == Spec => []AgreeWhenSettled
<1>1. IInv => AgreeWhenSettled
  <2> SUFFICES ASSUME IInv, NEW i \in Watching \ missed, Settled(i), row \in Values
               PROVE  local[i] = row
    BY DEF AgreeWhenSettled
  <2>1. i \in Instances /\ mode[i] # "down"
    BY DEF Watching
  <2>2. ~(inbox[i] > 0) /\ read[i] # row
    BY ConfigAssumption DEF Settled
  <2> QED
    BY <2>1, <2>2 DEF IInv, WillAgree, Settled
<1> QED
  BY <1>1, ConfigInvariance, PTL
=============================================================================
