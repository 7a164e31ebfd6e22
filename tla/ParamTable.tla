----------------------------- MODULE ParamTable -----------------------------
(***************************************************************************)
(* What the parameter store promises: a mode, a set of parameters for each *)
(* mode, and the set in use.  A change is atomic and outlives a restart.   *)
(* The promise ends ("ok") when the device is switched off in a change     *)
(* ("please don't power off!") or two changes are under way at a time.     *)
(***************************************************************************)
EXTENDS Naturals

CONSTANTS
  Modes, CUSTOM, \* the modes, the one of a new device
  NoMode,        \* what a user may set instead of one
  Defaults,      \* the sets of a new device
  Lost           \* what the RAM holds when nothing has been loaded

VARIABLES ok, mode, sets, ram

vars == <<ok, mode, sets, ram>>

Init == ok = TRUE /\ mode = CUSTOM /\ sets = Defaults /\ ram = Lost

(* The sets a mode stands for: its own, or, when there is no such mode,    *)
(* whichever the program comes upon.                                       *)
SetsOf(m) == IF m \in Modes THEN {m} ELSE Modes

(* One parameter, or those of the calibration, change in one set, which    *)
(* becomes the one in use.  Without a mode it may be that none changes.    *)
Set ==
  /\ \/ \E m \in SetsOf(mode) :
          /\ \/ ram' = [sets[m] EXCEPT !.chan = ram'.chan]
             \/ ram' = [sets[m] EXCEPT !.cal = ram'.cal, !.vec = ram'.vec]
          /\ sets' = [sets EXCEPT ![m] = ram']
     \/ mode = NoMode /\ ram' = Lost /\ UNCHANGED sets
  /\ UNCHANGED <<ok, mode>>

(* Another mode; its set comes into use at the next start. *)
SetMode ==
  /\ mode' \in Modes \cup {NoMode}
  /\ UNCHANGED <<ok, sets, ram>>

(* The defaults of all modes; the set in use stays. *)
SetDefaults ==
  /\ mode' = CUSTOM /\ sets' = Defaults
  /\ UNCHANGED <<ok, ram>>

(* Off and on again; without a mode nothing need be loaded. *)
SwitchOff == ram' = Lost /\ UNCHANGED <<ok, mode, sets>>
Load ==
  /\ ram = Lost
  /\ \/ \E m \in SetsOf(mode) : ram' = sets[m]
     \/ mode = NoMode /\ UNCHANGED ram
  /\ UNCHANGED <<ok, mode, sets>>

Break == ok /\ ~ok'

Next ==
  \/ ok /\ (Set \/ SetMode \/ SetDefaults \/ SwitchOff \/ Load)
  \/ Break

Spec == Init /\ [][Next]_vars
=============================================================================
