----------------------------- MODULE Environment ----------------------------
(***************************************************************************)
(* The environment variables of wasm_host.c: one table for all modules,    *)
(* searched from its first slot, in which no slot is ever given back.      *)
(*                                                                         *)
(* Names and values are stored in fields of fixed size: what is too long   *)
(* is cut, when it is set and when it is looked for, so that two long      *)
(* names may be one variable.  A list holds all variables; that a caller's *)
(* buffer may be too short for it, and their order, are left out.  Some    *)
(* are set before the first module runs: PATH, HOME and SHELL.             *)
(***************************************************************************)
EXTENDS Integers, Sequences

CONSTANTS
  MAX_ENV_VARS,
  Names, Values,      \* what modules ask for
  NameCut, ValueCut,  \* what fits of it: MAX_ENV_KEY - 1, MAX_ENV_VAL - 1
  Preset, Given,      \* the names set from the start, in order, and their values
  Done, Refused       \* the results 0 and -1

ASSUME EnvAssumption == /\ MAX_ENV_VARS \in Nat
                        /\ NameCut \in [Names -> Names]
                        /\ ValueCut \in [Values -> Values]
                        /\ \A name \in Names : NameCut[NameCut[name]] = NameCut[name]

ASSUME PresetAssumption ==
  /\ Preset \in Seq({NameCut[name] : name \in Names})
  /\ Len(Preset) <= MAX_ENV_VARS
  /\ \A i, j \in DOMAIN Preset : Preset[i] = Preset[j] => i = j
  /\ Given \in [{Preset[i] : i \in DOMAIN Preset} -> {ValueCut[val] : val \in Values}]

VARIABLES
  envTable,  \* env_table
  envReply   \* the name of the last call, as it was cut, and its result

envVars == <<envTable, envReply>>

EnvSlots == 0 .. MAX_ENV_VARS - 1
Inactive == [active |-> FALSE]
Variable(key, val) == [active |-> TRUE, key |-> key, val |-> val]

EnvInit ==
  /\ envTable = [i \in EnvSlots |->
                   IF i < Len(Preset) THEN Variable(Preset[i + 1], Given[Preset[i + 1]])
                   ELSE Inactive]
  /\ envReply = Done

(* env_find finds slot i for this name, or none.                           *)
Holds(i, key) == envTable[i].active /\ envTable[i].key = key
EnvFind(key, i) == Holds(i, key) /\ \A j \in 0 .. i - 1 : ~Holds(j, key)
Unknown(key) == \A i \in EnvSlots : ~Holds(i, key)

(* Wrong on purpose: any slot to spare.                                    *)
AnyInactive(i) == ~envTable[i].active

FirstInactive(i) == /\ ~envTable[i].active
                    /\ \A j \in 0 .. i - 1 : envTable[j].active

(* Wrong on purpose: the first slot to spare is taken before looking for   *)
(* the name.                                                               *)
EnvSetFirst(name, val) ==
  /\ \E i \in EnvSlots :
       /\ FirstInactive(i) \/ EnvFind(NameCut[name], i)
       /\ envTable' = [envTable EXCEPT ![i] = Variable(NameCut[name], ValueCut[val])]
  /\ envReply' = <<NameCut[name], Done>>

EnvSet(name, val) ==
  LET key == NameCut[name]
      new == Variable(key, ValueCut[val])
  IN  \/ \E i \in EnvSlots :
           /\ EnvFind(key, i) \/ (Unknown(key) /\ FirstInactive(i))
           /\ envTable' = [envTable EXCEPT ![i] = new]
           /\ envReply' = <<key, Done>>
      \/ /\ Unknown(key)
         /\ \A i \in EnvSlots : envTable[i].active
         /\ envReply' = <<key, Refused>>
         /\ UNCHANGED envTable

(* Wrong on purpose: the name is looked for as it was given.               *)
EnvGetWhole(name) ==
  /\ \E val \in Values \cup {Refused} :
       /\ \/ \E i \in EnvSlots : EnvFind(name, i) /\ val = envTable[i].val
          \/ Unknown(name) /\ val = Refused
       /\ envReply' = <<NameCut[name], val>>
  /\ UNCHANGED envTable

EnvGet(name) ==
  LET key == NameCut[name]
  IN  /\ \/ \E i \in EnvSlots : EnvFind(key, i) /\ envReply' = <<key, envTable[i].val>>
         \/ Unknown(key) /\ envReply' = <<key, Refused>>
      /\ UNCHANGED envTable

ActiveSlots == {i \in EnvSlots : envTable[i].active}

EnvList ==
  /\ envReply' = <<"all", {<<envTable[i].key, envTable[i].val>> : i \in ActiveSlots}>>
  /\ UNCHANGED envTable

EnvNext == \/ \E name \in Names :
                EnvGet(name) \/ \E val \in Values : EnvSet(name, val)
           \/ EnvList

EnvSpec == EnvInit /\ [][EnvNext]_envVars
-----------------------------------------------------------------------------
(* Names and values are stored as they were cut, and the slots in use are  *)
(* the first ones.                                                         *)
EnvTypeOK ==
  /\ envTable \in [EnvSlots -> {Inactive} \cup
                     [active : {TRUE}, key : {NameCut[name] : name \in Names},
                      val : {ValueCut[val] : val \in Values}]]
  /\ \A i \in ActiveSlots, j \in EnvSlots : j <= i => envTable[j].active

(* No name is in two slots: the search, which stops at the first, cannot   *)
(* miss a value that was set later.                                        *)
NamesOnce == \A i, j \in ActiveSlots : envTable[i].key = envTable[j].key => i = j

(* The table is a map with one value for each name, cut to what fits, and  *)
(* all names that were ever set count against its size, those the kernel   *)
(* sets at the start included.                                             *)
SlotOf(key) == CHOOSE i \in EnvSlots : Holds(i, key)
Bindings == [key \in {envTable[i].key : i \in ActiveSlots} |-> envTable[SlotOf(key)].val]
Env == INSTANCE EnvMap WITH
         value  <- Bindings,
         reply  <- envReply,
         Names  <- {NameCut[name] : name \in Names},
         Values <- {ValueCut[val] : val \in Values},
         Max    <- MAX_ENV_VARS
ImplementsEnvMap == Env!Spec
=============================================================================
