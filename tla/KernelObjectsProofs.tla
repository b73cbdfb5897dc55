------------------------- MODULE KernelObjectsProofs ------------------------
(***************************************************************************)
(* Environment variables and kernel events, and the tables together.  The  *)
(* table of environment variables of kernel/wasm_host.c is a bounded map,  *)
(* for any size of the table, any names and any way to cut them; the queue *)
(* of event_notify.asm keeps what it accepts; and no call to one table     *)
(* disturbs what IpcProofs, OpenFilesProofs and this module show of the    *)
(* others; nor does an interrupt.                                          *)
(***************************************************************************)
EXTENDS Kernel, FiniteSetTheorems, TLAPS

EnvInv == EnvTypeOK /\ NamesOnce

Keys == {NameCut[name] : name \in Names}
Vals == {ValueCut[val] : val \in Values}

LEMMA VariableIs ==
  ASSUME NEW key, NEW val
  PROVE  /\ Variable(key, val).active
         /\ Variable(key, val).key = key
         /\ Variable(key, val).val = val
         /\ ~Inactive.active
BY DEF Variable, Inactive

LEMMA SlotIs ==
  ASSUME EnvInv, NEW i \in EnvSlots
  PROVE  \/ envTable[i] = Inactive /\ ~envTable[i].active
         \/ /\ envTable[i].active
            /\ envTable[i].key \in Keys /\ envTable[i].val \in Vals
            /\ envTable[i] = Variable(envTable[i].key, envTable[i].val)
<1>1. envTable[i] \in {Inactive} \cup [active : {TRUE}, key : Keys, val : Vals]
  BY DEF EnvInv, EnvTypeOK, Keys, Vals
<1>2. CASE envTable[i] = Inactive
  BY <1>2, VariableIs
<1>3. CASE envTable[i] \in [active : {TRUE}, key : Keys, val : Vals]
  BY <1>3 DEF Variable
<1> QED
  BY <1>1, <1>2, <1>3

LEMMA PresetIs ==
  ASSUME NEW i \in EnvSlots, i < Len(Preset)
  PROVE  /\ i + 1 \in DOMAIN Preset
         /\ Preset[i + 1] \in Keys /\ Given[Preset[i + 1]] \in Vals
         /\ DOMAIN Preset = 1 .. Len(Preset) /\ Len(Preset) \in Nat
<1>1. /\ i \in Nat /\ Len(Preset) \in Nat
      /\ DOMAIN Preset = 1 .. Len(Preset)
  BY PresetAssumption DEF EnvSlots
<1>2. i + 1 \in DOMAIN Preset
  BY <1>1
<1>3. Preset \in Seq(Keys) /\ Given \in [{Preset[k] : k \in DOMAIN Preset} -> Vals]
  BY PresetAssumption DEF Keys, Vals
<1>4. Preset[i + 1] \in Keys
  BY <1>1, <1>2, <1>3
<1>5. Given[Preset[i + 1]] \in Vals
  BY <1>2, <1>3
<1> QED
  BY <1>1, <1>2, <1>4, <1>5

(* At the start slot i holds the preset variable i + 1.                    *)
LEMMA InitIs ==
  ASSUME EnvInit, NEW i \in EnvSlots
  PROVE  IF i < Len(Preset)
         THEN /\ envTable[i] = Variable(Preset[i + 1], Given[Preset[i + 1]])
              /\ envTable[i].active
              /\ envTable[i].key = Preset[i + 1]
              /\ envTable[i].val = Given[Preset[i + 1]]
         ELSE envTable[i] = Inactive /\ ~envTable[i].active
BY VariableIs DEF EnvInit

LEMMA InitInv == EnvInit => EnvInv
<1> SUFFICES ASSUME EnvInit PROVE EnvInv
  OBVIOUS
<1>1. \A i \in EnvSlots : i < Len(Preset) <=> envTable[i].active
  BY InitIs
<1>2. ASSUME NEW i \in EnvSlots
      PROVE  envTable[i] \in {Inactive} \cup [active : {TRUE}, key : Keys, val : Vals]
  <2>1. CASE i < Len(Preset)
    <3>1. /\ Preset[i + 1] \in Keys /\ Given[Preset[i + 1]] \in Vals
          /\ envTable[i] = Variable(Preset[i + 1], Given[Preset[i + 1]])
      BY <2>1, InitIs, PresetIs
    <3> QED
      BY <3>1 DEF Variable
  <2>2. CASE ~(i < Len(Preset))
    BY <2>2, InitIs
  <2> QED
    BY <2>1, <2>2
<1>3. envTable \in [EnvSlots -> {Inactive} \cup [active : {TRUE}, key : Keys, val : Vals]]
  BY <1>2 DEF EnvInit
<1>4. \A i \in ActiveSlots, j \in EnvSlots : j <= i => envTable[j].active
  BY <1>1, PresetAssumption DEF ActiveSlots, EnvSlots
<1>5. NamesOnce
  <2> SUFFICES ASSUME NEW i \in ActiveSlots, NEW j \in ActiveSlots,
                      envTable[i].key = envTable[j].key
               PROVE  i = j
    BY DEF NamesOnce
  <2>1. /\ i \in EnvSlots /\ i < Len(Preset) /\ envTable[i].key = Preset[i + 1]
        /\ j \in EnvSlots /\ j < Len(Preset) /\ envTable[j].key = Preset[j + 1]
    BY <1>1, InitIs DEF ActiveSlots
  <2>2. i + 1 = j + 1
    BY <2>1, PresetIs, PresetAssumption
  <2> QED
    BY <2>1, <2>2 DEF EnvSlots
<1> QED
  BY <1>3, <1>4, <1>5 DEF EnvInv, EnvTypeOK, Keys, Vals

(* A slot is written: the one that holds the name, or the first to spare   *)
(* when none does.                                                         *)
LEMMA WriteInv ==
  ASSUME EnvInv, NEW key \in Keys, NEW val \in Vals, NEW i \in EnvSlots,
         EnvFind(key, i) \/ (Unknown(key) /\ FirstInactive(i)),
         envTable' = [envTable EXCEPT ![i] = Variable(key, val)]
  PROVE  EnvInv'
<1>1. \A j \in EnvSlots \ {i} : envTable'[j] = envTable[j] /\ ~Holds(j, key)
  BY DEF EnvInv, EnvTypeOK, NamesOnce, EnvFind, Unknown, Holds, ActiveSlots
<1>2. envTable'[i] = Variable(key, val)
  BY DEF EnvInv, EnvTypeOK
<1>3. envTable' \in [EnvSlots -> {Inactive} \cup [active : {TRUE}, key : Keys, val : Vals]]
  BY DEF EnvInv, EnvTypeOK, Variable, Keys, Vals
<1>4. ActiveSlots' = ActiveSlots \cup {i}
  BY <1>1, <1>2, VariableIs DEF ActiveSlots
<1>5. \A j \in EnvSlots : j <= i => j \in ActiveSlots'
  <2>1. CASE EnvFind(key, i)
    BY <2>1, <1>4 DEF EnvFind, Holds, EnvInv, EnvTypeOK, ActiveSlots
  <2>2. CASE FirstInactive(i)
    BY <2>2, <1>4 DEF FirstInactive, ActiveSlots, EnvSlots
  <2> QED
    BY <2>1, <2>2
<1>6. EnvTypeOK'
  BY <1>1, <1>3, <1>4, <1>5 DEF EnvInv, EnvTypeOK, Keys, Vals, ActiveSlots
<1>7. NamesOnce'
  BY <1>1, <1>2, <1>4, VariableIs DEF EnvInv, NamesOnce, Holds, ActiveSlots
<1> QED
  BY <1>6, <1>7 DEF EnvInv

LEMMA Same == EnvInv /\ UNCHANGED envTable => EnvInv'
BY DEF EnvInv, EnvTypeOK, NamesOnce, ActiveSlots

LEMMA SetInv ==
  ASSUME EnvInv, NEW name \in Names, NEW val \in Values, EnvSet(name, val)
  PROVE  EnvInv'
<1>1. NameCut[name] \in Keys /\ ValueCut[val] \in Vals
  BY DEF Keys, Vals
<1> QED
  BY <1>1, WriteInv, Same DEF EnvSet

LEMMA NextInv == EnvInv /\ [EnvNext]_envVars => EnvInv'
<1> SUFFICES ASSUME EnvInv, [EnvNext]_envVars PROVE EnvInv'
  OBVIOUS
<1>1. CASE UNCHANGED envVars
  BY <1>1, Same DEF envVars
<1>2. CASE EnvNext
  BY <1>2, SetInv, Same DEF EnvNext, EnvGet, EnvList
<1> QED
  BY <1>1, <1>2

LEMMA SpecInv == EnvSpec => []EnvInv
BY InitInv, NextInv, PTL DEF EnvSpec

(* The slots in use come first and hold what was cut to fit.               *)
THEOREM EnvTypeCorrect == EnvSpec => []EnvTypeOK
BY SpecInv, PTL DEF EnvInv

(* A name is never in two slots.                                           *)
THEOREM NamesStayOnce == EnvSpec => []NamesOnce
BY SpecInv, PTL DEF EnvInv
-----------------------------------------------------------------------------
KnownNames == {envTable[i].key : i \in ActiveSlots}

LEMMA SameCount == ASSUME NEW S PROVE Env!Cardinality(S) = Cardinality(S)
BY DEF Env!Cardinality, Cardinality, Env!IsFiniteSet, IsFiniteSet

(* There are as many names as slots in use.                                *)
LEMMA NamesCounted ==
  ASSUME EnvInv
  PROVE  /\ Cardinality(KnownNames) \in Nat
         /\ Cardinality(KnownNames) <= MAX_ENV_VARS
         /\ Cardinality(KnownNames) = MAX_ENV_VARS <=> ActiveSlots = EnvSlots
<1> DEFINE f == [i \in ActiveSlots |-> envTable[i].key]
<1>1. IsFiniteSet(EnvSlots) /\ Cardinality(EnvSlots) = MAX_ENV_VARS
  BY FS_Interval, EnvAssumption DEF EnvSlots
<1>2. /\ IsFiniteSet(ActiveSlots)
      /\ Cardinality(ActiveSlots) <= Cardinality(EnvSlots)
      /\ Cardinality(ActiveSlots) = Cardinality(EnvSlots) <=> ActiveSlots = EnvSlots
  BY <1>1, FS_Subset DEF ActiveSlots
<1>3. f \in Surjection(ActiveSlots, KnownNames)
  BY DEF Surjection, KnownNames
<1>4. f \in Injection(ActiveSlots, KnownNames)
  BY DEF Injection, IsInjective, KnownNames, EnvInv, NamesOnce
<1>5. IsFiniteSet(KnownNames) /\ Cardinality(KnownNames) = Cardinality(ActiveSlots)
  BY <1>2, <1>3, <1>4, FS_Surjection
<1>6. Cardinality(KnownNames) \in Nat
  BY <1>5, FS_CardinalityType
<1> QED
  BY <1>1, <1>2, <1>5, <1>6

(* What the map says of a name is what its slot holds.                     *)
BindingsRight ==
  \A i \in EnvSlots :
    envTable[i].active => /\ envTable[i].key \in DOMAIN Bindings
                          /\ Bindings[envTable[i].key] = envTable[i].val

LEMMA BindingIs == EnvInv => BindingsRight
<1> SUFFICES ASSUME EnvInv, NEW i \in EnvSlots, envTable[i].active
             PROVE  /\ envTable[i].key \in DOMAIN Bindings
                    /\ Bindings[envTable[i].key] = envTable[i].val
  BY DEF BindingsRight
<1> DEFINE key == envTable[i].key
<1>1. i \in ActiveSlots /\ Holds(i, key)
  BY DEF ActiveSlots, Holds
<1>2. SlotOf(key) \in EnvSlots /\ Holds(SlotOf(key), key)
  BY <1>1 DEF SlotOf
<1>3. SlotOf(key) = i
  BY <1>1, <1>2 DEF EnvInv, NamesOnce, Holds, ActiveSlots
<1> QED
  BY <1>1, <1>3 DEF Bindings

LEMMA BindingsAre ==
  ASSUME NEW key
  PROVE  /\ DOMAIN Bindings = KnownNames
         /\ key \in KnownNames <=> ~Unknown(key)
BY DEF Bindings, KnownNames, Unknown, Holds, ActiveSlots

(* At the start the map is what is given.                                  *)
LEMMA InitMaps == EnvInit /\ EnvInv => Bindings = Given
<1> SUFFICES ASSUME EnvInit, EnvInv PROVE Bindings = Given
  OBVIOUS
<1>1. ASSUME NEW k \in DOMAIN Preset
      PROVE  /\ k - 1 \in EnvSlots /\ envTable[k - 1].active
             /\ envTable[k - 1].key = Preset[k]
             /\ envTable[k - 1].val = Given[Preset[k]]
  <2>1. k \in 1 .. Len(Preset) /\ Len(Preset) \in Nat /\ Len(Preset) <= MAX_ENV_VARS
    BY PresetAssumption
  <2>2. k - 1 \in EnvSlots /\ k - 1 < Len(Preset) /\ (k - 1) + 1 = k
    BY <2>1, EnvAssumption DEF EnvSlots
  <2> QED
    BY <2>2, InitIs
<1>2. ASSUME NEW i \in ActiveSlots
      PROVE  \E k \in DOMAIN Preset : i = k - 1
  <2>1. i \in EnvSlots /\ i < Len(Preset)
    BY InitIs DEF ActiveSlots
  <2>2. i + 1 \in DOMAIN Preset /\ i = (i + 1) - 1
    BY <2>1, PresetIs DEF EnvSlots
  <2> QED
    BY <2>2
<1>3. KnownNames = {Preset[k] : k \in DOMAIN Preset}
  BY <1>1, <1>2 DEF KnownNames, ActiveSlots
<1>4. DOMAIN Bindings = DOMAIN Given
  BY <1>3, BindingsAre, PresetAssumption
<1>5. ASSUME NEW n \in DOMAIN Given PROVE Bindings[n] = Given[n]
  <2>1. PICK k \in DOMAIN Preset : n = Preset[k]
    BY PresetAssumption
  <2> QED
    BY <1>1, <2>1, BindingIs DEF BindingsRight
<1>6. Bindings = [n \in DOMAIN Bindings |-> Bindings[n]]
  BY DEF Bindings
<1>7. Given = [n \in DOMAIN Given |-> Given[n]]
  BY PresetAssumption
<1> QED
  BY <1>4, <1>5, <1>6, <1>7

LEMMA SetMaps ==
  ASSUME EnvInv, NEW name \in Names, NEW val \in Values, EnvSet(name, val)
  PROVE  Env!Set(NameCut[name], ValueCut[val])
<1> DEFINE key == NameCut[name]
           new == Variable(key, ValueCut[val])
<1>0. BindingsRight /\ BindingsRight'
  <2>1. EnvInv'
    BY SetInv
  <2> QED
    BY <2>1, BindingIs, PTL
<1>1. CASE \E i \in EnvSlots :
             /\ EnvFind(key, i) \/ (Unknown(key) /\ FirstInactive(i))
             /\ envTable' = [envTable EXCEPT ![i] = new]
             /\ envReply' = <<key, Done>>
  <2>1. PICK i \in EnvSlots :
          /\ EnvFind(key, i) \/ (Unknown(key) /\ FirstInactive(i))
          /\ envTable' = [envTable EXCEPT ![i] = new]
          /\ envReply' = <<key, Done>>
    BY <1>1
  <2>2. /\ envTable'[i].active /\ envTable'[i].key = key
        /\ envTable'[i].val = ValueCut[val]
        /\ \A j \in EnvSlots \ {i} : envTable'[j] = envTable[j]
    BY <2>1, VariableIs DEF EnvInv, EnvTypeOK
  <2>3. key \in DOMAIN Bindings \/ Cardinality(DOMAIN Bindings) < MAX_ENV_VARS
    <3>1. CASE EnvFind(key, i)
      BY <1>0, <3>1 DEF BindingsRight, EnvFind, Holds
    <3>2. CASE FirstInactive(i)
      <4>1. ActiveSlots # EnvSlots
        BY <3>2 DEF FirstInactive, ActiveSlots
      <4> QED
        BY <4>1, NamesCounted, BindingsAre, EnvAssumption
    <3> QED
      BY <2>1, <3>1, <3>2
  <2>4. ActiveSlots' = ActiveSlots \cup {i}
    BY <2>2 DEF ActiveSlots
  <2>5. DOMAIN (Bindings') = DOMAIN Bindings \cup {key}
    <3>1. CASE EnvFind(key, i)
      BY <3>1, <2>2, <2>4 DEF Bindings, EnvFind, Holds, ActiveSlots
    <3>2. CASE FirstInactive(i)
      BY <3>2, <2>2, <2>4 DEF Bindings, FirstInactive, ActiveSlots
    <3> QED
      BY <2>1, <3>1, <3>2
  <2>6. Bindings'[key] = ValueCut[val]
    BY <1>0, <2>2 DEF BindingsRight
  <2>7. ASSUME NEW n \in DOMAIN Bindings, n # key
        PROVE  Bindings'[n] = Bindings[n]
    <3>1. PICK j \in ActiveSlots : envTable[j].key = n
      BY DEF Bindings
    <3>2. j \in EnvSlots /\ envTable[j].active
      BY DEF ActiveSlots
    <3>3. j # i
      BY <2>1, <2>7, <3>1, <3>2 DEF EnvFind, Holds, FirstInactive
    <3> QED
      BY <1>0, <2>2, <3>1, <3>2, <3>3 DEF BindingsRight
  <2>8. Bindings' = [n \in DOMAIN Bindings \cup {key} |->
                       IF n = key THEN ValueCut[val] ELSE Bindings[n]]
    BY <2>5, <2>6, <2>7 DEF Bindings
  <2> QED
    BY <2>1, <2>3, <2>8, SameCount DEF Env!Set, Env!HasRoom
<1>2. CASE /\ Unknown(key)
           /\ \A i \in EnvSlots : envTable[i].active
           /\ envReply' = <<key, Refused>>
           /\ UNCHANGED envTable
  <2>1. ActiveSlots = EnvSlots
    BY <1>2 DEF ActiveSlots
  <2>2. key \notin DOMAIN Bindings /\ ~(Cardinality(DOMAIN Bindings) < MAX_ENV_VARS)
    BY <1>2, <2>1, BindingsAre, NamesCounted, EnvAssumption
  <2>3. Bindings' = Bindings
    BY <1>2 DEF Bindings, ActiveSlots, SlotOf, Holds
  <2> QED
    BY <1>2, <2>2, <2>3, SameCount DEF Env!Set, Env!HasRoom
<1> QED
  BY <1>1, <1>2 DEF EnvSet

LEMMA ReadsMap ==
  ASSUME EnvInv, UNCHANGED envTable
  PROVE  Bindings' = Bindings
BY DEF Bindings, ActiveSlots, SlotOf, Holds

LEMMA GetMaps ==
  ASSUME EnvInv, NEW name \in Names, EnvGet(name)
  PROVE  Env!Get(NameCut[name])
<1> DEFINE key == NameCut[name]
<1>1. Bindings' = Bindings
  BY ReadsMap DEF EnvGet
<1>2. CASE \E i \in EnvSlots : EnvFind(key, i) /\ envReply' = <<key, envTable[i].val>>
  BY <1>1, <1>2, BindingIs DEF BindingsRight, EnvFind, Holds, Env!Get
<1>3. CASE Unknown(key) /\ envReply' = <<key, Refused>>
  BY <1>1, <1>3, BindingsAre DEF Env!Get
<1> QED
  BY <1>2, <1>3 DEF EnvGet

LEMMA ListMaps ==
  ASSUME EnvInv, EnvList
  PROVE  Env!List
<1>1. Bindings' = Bindings
  BY ReadsMap DEF EnvList
<1>2. {<<envTable[i].key, envTable[i].val>> : i \in ActiveSlots}
        = {<<name, Bindings[name]>> : name \in DOMAIN Bindings}
  <2>1. \A i \in ActiveSlots : /\ envTable[i].key \in DOMAIN Bindings
                                /\ Bindings[envTable[i].key] = envTable[i].val
    BY BindingIs DEF BindingsRight, ActiveSlots
  <2>2. \A name \in DOMAIN Bindings : \E i \in ActiveSlots : envTable[i].key = name
    BY BindingsAre DEF KnownNames
  <2> QED
    BY <2>1, <2>2
<1> QED
  BY <1>1, <1>2 DEF EnvList, Env!List

(* The table, with its search for the first match, its limit and its cut   *)
(* names, behaves as a bounded map from names to the values set last.      *)
THEOREM TableIsMap == EnvSpec => ImplementsEnvMap
<1>1. EnvInit => Env!Init
  BY InitMaps, InitInv DEF EnvInit, Env!Init
<1>2. EnvInv /\ [EnvNext]_envVars => [Env!Next]_(Env!mapVars)
  <2> SUFFICES ASSUME EnvInv, [EnvNext]_envVars
               PROVE  Env!Next \/ UNCHANGED <<Bindings, envReply>>
    BY DEF Env!mapVars
  <2>1. CASE UNCHANGED envVars
    BY <2>1, ReadsMap DEF envVars
  <2>2. ASSUME NEW name \in Names, EnvGet(name)
        PROVE  Env!Next
    BY <2>2, GetMaps DEF Env!Next
  <2>3. ASSUME NEW name \in Names, NEW val \in Values, EnvSet(name, val)
        PROVE  Env!Next
    BY <2>3, SetMaps DEF Env!Next
  <2>4. CASE EnvList
    BY <2>4, ListMaps DEF Env!Next
  <2> QED
    BY <2>1, <2>2, <2>3, <2>4 DEF EnvNext
<1> QED
  BY <1>1, <1>2, SpecInv, PTL DEF EnvSpec, ImplementsEnvMap, Env!Spec
-----------------------------------------------------------------------------
(* What is in the queue of events.  The subscribers do not matter to it.   *)
QueueInv ==
  /\ accepted \in Seq(EvtTypes) /\ evtQueue \in [EvtPlaces -> EvtTypes \cup {0}]
  /\ evtCount \in Nat /\ evtHead = evtCount
  /\ EventsKept

LEMMA QueueInit == EvtInit => QueueInv
<1> SUFFICES ASSUME EvtInit PROVE QueueInv
  OBVIOUS
<1>1. /\ accepted = <<>> /\ evtCount = 0 /\ evtHead = 0
      /\ evtQueue = [p \in EvtPlaces |-> 0]
  BY DEF EvtInit
<1>2. accepted \in Seq(EvtTypes) /\ Len(accepted) = 0
  BY <1>1
<1> QED
  BY <1>1, <1>2, EventsAssumption DEF QueueInv, EventsKept

(* The head is the count, so the next event goes behind the others.        *)
LEMMA NotifyKeeps ==
  ASSUME QueueInv, NEW type \in EvtTypes, EventNotify(type)
  PROVE  QueueInv'
<1>1. CASE evtCount >= EVT_QUEUE_SIZE
  BY <1>1 DEF QueueInv, EventsKept, EventNotify, queueVars
<1>2. CASE ~(evtCount >= EVT_QUEUE_SIZE)
  <2>1. /\ evtCount \in EvtPlaces /\ evtHead % EVT_QUEUE_SIZE = evtCount
        /\ evtCount = Len(accepted) /\ accepted \in Seq(EvtTypes)
        /\ evtQueue \in [EvtPlaces -> EvtTypes \cup {0}]
        /\ \A k \in 1 .. evtCount : evtQueue[k - 1] = accepted[k]
    <3>1. /\ evtCount \in Nat /\ evtCount < EVT_QUEUE_SIZE /\ evtHead = evtCount
          /\ EVT_QUEUE_SIZE \in Nat
      BY <1>2, EventsAssumption DEF QueueInv
    <3>2. evtCount % EVT_QUEUE_SIZE = evtCount
      BY <3>1
    <3> QED
      BY <3>1, <3>2 DEF QueueInv, EventsKept, EvtPlaces
  <2>2. /\ evtQueue' = [evtQueue EXCEPT ![evtCount] = type]
        /\ evtHead' = evtCount + 1 /\ evtCount' = evtCount + 1
        /\ accepted' = Append(accepted, type)
    BY <1>2, <2>1 DEF EventNotify, QueueInv
  <2>3. /\ accepted' \in Seq(EvtTypes) /\ Len(accepted') = evtCount'
        /\ evtQueue' \in [EvtPlaces -> EvtTypes \cup {0}]
        /\ evtCount' \in Nat /\ evtCount' <= EVT_QUEUE_SIZE
    BY <2>1, <2>2, EventsAssumption DEF EvtPlaces
  <2>4. \A k \in 1 .. evtCount' : evtQueue'[k - 1] = accepted'[k]
    <3> SUFFICES ASSUME NEW k \in 1 .. evtCount + 1
                 PROVE  evtQueue'[k - 1] = accepted'[k]
      BY <2>2
    <3>1. CASE k = evtCount + 1
      BY <3>1, <2>1, <2>2 DEF EvtPlaces
    <3>2. CASE k # evtCount + 1
      BY <3>2, <2>1, <2>2 DEF EvtPlaces
    <3> QED
      BY <3>1, <3>2
  <2> QED
    BY <2>2, <2>3, <2>4 DEF QueueInv, EventsKept
<1> QED
  BY <1>1, <1>2

LEMMA QueueStep == QueueInv /\ [EvtNext]_evtVars => QueueInv'
<1> SUFFICES ASSUME QueueInv, [EvtNext]_evtVars PROVE QueueInv'
  OBVIOUS
<1>1. ASSUME NEW type \in EvtTypes, EventNotify(type) PROVE QueueInv'
  BY <1>1, NotifyKeeps
<1>2. ASSUME UNCHANGED queueVars PROVE QueueInv'
  BY <1>2 DEF QueueInv, EventsKept, queueVars
<1> QED
  BY <1>1, <1>2 DEF EvtNext, evtVars, EventSubscribe, EventUnsubscribe, EventPoll
-----------------------------------------------------------------------------
(* Modules that call the tables in turn do to each what modules that call  *)
(* no other can do to it, and interrupts that are taken between the calls  *)
(* what they can do to a module that calls none: what is shown of one      *)
(* holds among the others.                                                 *)
THEOREM PartsApart == KernelSpec => Spec /\ FilesSpec /\ EnvSpec /\ EvtSpec /\ IrqSpec
<1>1. KernelInit => Init /\ FilesInit /\ EnvInit /\ EvtInit /\ IrqInit
  BY DEF KernelInit, ObjectsInit
<1>2. [KernelNext]_kernelVars => /\ [Next]_ipcVars /\ [FilesNext]_fileVars
                                 /\ [EnvNext]_envVars /\ [EvtNext]_evtVars
                                 /\ [IrqNext]_irqVars
  BY DEF KernelNext, kernelVars, HostCall, Interrupts, ObjectsNext, objectVars,
         IpcCall, FilesCall, EnvCall, EvtCall
<1> QED
  BY <1>1, <1>2, PTL DEF KernelSpec, Spec, FilesSpec, EnvSpec, EvtSpec, IrqSpec

(* An event that event_notify accepted stays in the queue, in its place,   *)
(* whatever modules call and whatever interrupts them in between.          *)
THEOREM AcceptedEventsStay == KernelSpec => []EventsKept
<1>1. QueueInv => EventsKept
  BY DEF QueueInv
<1> QED
  BY <1>1, QueueInit, QueueStep, PartsApart, PTL DEF EvtSpec
=============================================================================
