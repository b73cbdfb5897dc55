------------------------------- MODULE EnvMap -------------------------------
(***************************************************************************)
(* What the environment of wasm_host.c promises: names with one value      *)
(* each, the one set last; a new name is refused only when Max names are   *)
(* set.  It belongs to no module: it starts with what the kernel gives     *)
(* all, what one sets all others see, and nobody can take a name out.      *)
(***************************************************************************)
EXTENDS Naturals, FiniteSets

CONSTANTS Names, Values, Max, Done, Refused,
          Given   \* what is set from the start

VARIABLES
  value,   \* of each name that was set
  reply    \* to the last call: the name it was about, and the answer

mapVars == <<value, reply>>

Init == value = Given /\ reply = Done

HasRoom(name) == name \in DOMAIN value \/ Cardinality(DOMAIN value) < Max

Set(name, val) ==
  \/ /\ reply' = <<name, Done>>
     /\ HasRoom(name)
     /\ value' = [n \in DOMAIN value \cup {name} |->
                    IF n = name THEN val ELSE value[n]]
  \/ /\ reply' = <<name, Refused>>
     /\ ~HasRoom(name)
     /\ value' = value

Get(name) ==
  /\ reply' = <<name, IF name \in DOMAIN value THEN value[name] ELSE Refused>>
  /\ value' = value

List == /\ reply' = <<"all", {<<name, value[name]>> : name \in DOMAIN value}>>
        /\ value' = value

Next == \/ \E name \in Names : Get(name) \/ \E val \in Values : Set(name, val)
        \/ List

Spec == Init /\ [][Next]_mapVars
=============================================================================
