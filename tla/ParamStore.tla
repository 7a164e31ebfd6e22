----------------------------- MODULE ParamStore -----------------------------
(***************************************************************************)
(* The parameters in flash (cv_sys_param.c over cv_drv_fls.c) and the      *)
(* threads that rewrite them: t-sys-mng for the key (priority 15), t-gsnr  *)
(* for the calibration of the acceleration sensor (22) and the shell (29). *)
(*                                                                         *)
(* One sector holds the magic word, the mode and one parameter set for     *)
(* each mode.  Every change copies the sector to the stack, erases it and  *)
(* programs the pieces one after the other; nothing excludes a second      *)
(* change in between, and a reset may come at any point.                   *)
(*   - a piece is programmed in two halves, so that a torn piece exists;   *)
(*     in a set the calibration (gsnr) precedes the channel (wnet);        *)
(*   - programming without an erase clears bits only: And;                 *)
(*   - each call of the flash driver unlocks the controller first and      *)
(*     locks it at its end, whoever else is inside;                        *)
(*   - the CPU executes from the bank it erases or programs: one operation *)
(*     of the controller is one step;                                      *)
(*   - a thread runs while no thread of a higher priority is in a change.  *)
(* Of a set the model has the calibration step, the vectors that belong to *)
(* it (how many of the two are good) and the channel, as one of the other  *)
(* parameters.  A mode is its number, NoMode any 16 bits that name none.   *)
(***************************************************************************)
EXTENDS Integers, FiniteSets

CONSTANTS
  NModes,      \* modes custom (1), ... : 4 in the code
  ShellValues, \* values typed for a parameter
  MaxSaves,    \* bound: changes begun one after the other
  MaxHurt,     \* bound: changes begun, when they overlap or after a reset in one
  MaxResets    \* bound: resets, switching off included

ASSUME ParamStoreAssumption ==
  /\ NModes \in 1..250
  /\ ShellValues \subseteq Int
  /\ MaxSaves \in Nat /\ MaxHurt \in 0..MaxSaves /\ MaxResets \in Nat

VARIABLES
  flash,       \* the sector: [flag, mode, set]
  locked,      \* FLASH_CR.LOCK
  power,       \* "off", "boot" (rt_init_thread_entry), "up"
  pmode, ram,  \* param_mode, cms_param
  job,         \* what each thread does with the sector
  drv, axes,   \* drivint_step of t-gsnr (3: there is none), its good vectors
               \* (Acce_V, Acce_Ahead)
  hurt,        \* history: two changes overlapped or a reset hit one that writes
  typed,       \* history: the modes whose calibration the shell has typed; NoMode
               \* in it: the one t-gsnr works with, or one read for no mode
  saves, resets

gsnr == <<drv, axes>>
vars == <<flash, locked, power, pmode, ram, job, gsnr, hurt, typed, saves, resets>>

Modes == 1..NModes
CUSTOM == 1
NoMode == 0

Blank == 255   \* erased; so is a byte of 255
Mixed == 256   \* a value nobody has saved
Half  == 257   \* one half programmed, the other blank
Magic == 258   \* param_init_words

(* load_default_param_custom, _highway, _mountain, _city. *)
Default(m) == [cal |-> 0, vec |-> 0, chan |-> IF m = NModes /\ m # CUSTOM THEN 13 ELSE 11]
Defaults == [mode |-> CUSTOM, set |-> [m \in Modes |-> Default(m)]]

BlankSet == [cal |-> Blank, vec |-> Blank, chan |-> Blank]
WildSet  == [cal |-> Mixed, vec |-> Mixed, chan |-> Mixed]
Erased == [flag |-> Blank, mode |-> Blank, set |-> [m \in Modes |-> BlankSet]]

-----------------------------------------------------------------------------
(* Threads.  "init" is alone: the others do not exist yet. *)
Threads == {"init", "sys", "gsnr", "shell"}
Above(w) == CASE w = "gsnr" -> {"sys"} [] w = "shell" -> {"sys", "gsnr"} [] OTHER -> {}

NoJob == [op |-> "none", val |-> 0, at |-> 0, ph |-> "done", copy |-> Defaults]
Busy(w) == job[w].op # "none"
Saver == {w \in Threads : job[w].ph \in {"open", "erase", "first", "second"}}
CpuFor(w) ==
  /\ power = IF w = "init" THEN "boot" ELSE "up"
  /\ \A v \in Above(w) : ~Busy(v)

(* A change begins: the first phase and its argument. *)
Begin(w, op, v, ph, copy) ==
  /\ CpuFor(w) /\ ~Busy(w)
  /\ job' = [job EXCEPT ![w] = [op |-> op, val |-> v, at |-> 0, ph |-> ph, copy |-> copy]]
  /\ hurt' = (hurt \/ \E u \in Threads : Busy(u))
  /\ saves < (IF hurt' THEN MaxHurt ELSE MaxSaves) /\ saves' = saves + 1

(* C_DOWN_KEY: param_set(19, 0). *)
KeyReset ==
  /\ Begin("sys", "step", 0, "read", Defaults)
  /\ UNCHANGED <<flash, locked, power, pmode, ram, gsnr, typed, resets>>

(* param_set from the shell.  The step (19) and the channel (29) keep 8    *)
(* bits of the value: the test of the channel is "(value < 1) && (value >  *)
(* 13)", which no value meets, the step and the coordinates of the vectors *)
(* (23 to 28) have none but the maximum.  A parameter the model does not   *)
(* have, or a number that is none, rewrites the sector as it was read.     *)
ShellSet ==
  /\ \/ \E op \in {"step", "chan"}, v \in ShellValues :
          v <= 255 /\ Begin("shell", op, v % 256, "read", Defaults)
     \/ \E op \in {"vec", "other"} : Begin("shell", op, 0, "read", Defaults)
  /\ UNCHANGED <<flash, locked, power, pmode, ram, gsnr, typed, resets>>

(* gsnr_param_set from the shell: any step, any vectors. *)
ShellGsnr ==
  /\ \E v \in ShellValues : Begin("shell", "gsnr", v % 256, "read", Defaults)
  /\ UNCHANGED <<flash, locked, power, pmode, ram, gsnr, typed, resets>>

(* mode_set of any number, mode_change, which passes an uninitialised one  *)
(* if its own is not 1 to 4: param_mode first, the sector afterwards.      *)
ShellMode ==
  /\ \E m \in Modes \cup {NoMode} : Begin("shell", "mode", m, "read", Defaults) /\ pmode' = m
  /\ UNCHANGED <<flash, locked, power, ram, gsnr, typed, resets>>

(* write_def_param from the shell. *)
ShellDefaults ==
  /\ Begin("shell", "def", 0, "open", Defaults)
  /\ pmode' = CUSTOM
  /\ typed' = typed \cap {NoMode}
  /\ UNCHANGED <<flash, locked, power, ram, gsnr, resets>>

(* Mutation: the step is not looked at. *)
CalibrateAlways ==
  /\ drv' = drv + 1 /\ axes' = drv'
  /\ Begin("gsnr", "cal", drv', "read", Defaults)
  /\ UNCHANGED <<flash, locked, power, pmode, ram, typed, resets>>

(* gsnr_thread_entry: GetStaticVal or RecDirection has come to an end;     *)
(* GsensorDataSave.  The second vector is computed from the first.         *)
Calibrate ==
  /\ drv \in {0, 1}
  /\ drv' = drv + 1
  /\ axes' = IF drv = 0 THEN 1 ELSE IF axes = 1 THEN 2 ELSE axes
  /\ typed' = IF drv = 0 THEN typed \ {NoMode} ELSE typed
  /\ Begin("gsnr", "cal", drv', "read", Defaults)
  /\ UNCHANGED <<flash, locked, power, pmode, ram, resets>>

-----------------------------------------------------------------------------
Goto(w, ph) == job' = [job EXCEPT ![w].ph = ph]

(* drv_fls_read of the four sets and of the mode.  Between two of the      *)
(* reads a higher thread could only make a change of its own, which leaves *)
(* all but the set of param_mode alone: the same as before or after all.   *)
ReadSector(w) ==
  /\ CpuFor(w) /\ job[w].ph = "read"
  /\ job' = [job EXCEPT ![w].copy = [mode |-> IF job[w].op = "mode" THEN job[w].val ELSE flash.mode,
                                     set  |-> flash.set],
                        ![w].ph = IF job[w].op = "mode" THEN "open" ELSE "apply"]
  /\ UNCHANGED <<flash, locked, power, pmode, ram, gsnr, hurt, typed, saves, resets>>

(* Mutation: gsnr_param_set stores the step and not the vectors. *)
ChangeStepOnly(w, s, x) ==
  CASE job[w].op \in {"step", "cal", "gsnr"} -> [s EXCEPT !.cal = job[w].val]
    [] job[w].op = "vec"   -> [s EXCEPT !.vec = x]
    [] job[w].op = "chan"  -> [s EXCEPT !.chan = job[w].val]
    [] job[w].op = "other" -> s

(* The switch of param_set, the assignments of gsnr_param_set; x are the   *)
(* vectors that are good with what the shell has typed.                    *)
Change(w, s, x) ==
  CASE job[w].op = "step"  -> [s EXCEPT !.cal = job[w].val]
    [] job[w].op = "vec"   -> [s EXCEPT !.vec = x]
    [] job[w].op = "cal"   -> [s EXCEPT !.cal = job[w].val, !.vec = axes]
    [] job[w].op = "gsnr"  -> [s EXCEPT !.cal = job[w].val, !.vec = x]
    [] job[w].op = "chan"  -> [s EXCEPT !.chan = job[w].val]
    [] job[w].op = "other" -> s

(* Whose calibration set n has then: step 0 asks for a new one, t-gsnr     *)
(* stores what it works with.                                              *)
Retyped(w, n) ==
  LET byHand == \/ job[w].op \in {"vec", "gsnr"}
                \/ job[w].op = "step" /\ job[w].val # 0
                \/ job[w].op = "cal" /\ NoMode \in typed
  IN IF job[w].op \in {"chan", "other"} THEN typed
     ELSE IF byHand THEN typed \cup {n} ELSE typed \ {n}

(* The set get_param_num or load_param_from_fl picks for a mode.  Without  *)
(* one it is uninitialised: any of the sets, or memory that is none.       *)
Picks(m) == IF m \in Modes THEN {m} ELSE Modes \cup {NoMode}

(* get_param_num looks at param_mode, not at its argument. *)
Apply(w) ==
  /\ CpuFor(w) /\ job[w].ph = "apply"
  /\ \E n \in Picks(pmode), x \in 0..2 :
       IF n \in Modes
         THEN LET s == Change(w, job[w].copy.set[n], x)
              IN /\ job' = [job EXCEPT ![w].copy.set[n] = s, ![w].ph = "open"]
                 /\ ram' = s /\ typed' = Retyped(w, n)
         ELSE Goto(w, "open") /\ ram' = WildSet /\ UNCHANGED typed
  /\ UNCHANGED <<flash, locked, power, pmode, gsnr, hurt, saves, resets>>

-----------------------------------------------------------------------------
(* Pieces in the order of their programming: 0 the erase, 1 the magic      *)
(* word, 2 the mode, 2 + m the set of mode m.                              *)
Last == NModes + 2

(* FLASH_Unlock, FLASH_ClearFlag. *)
Open(w) ==
  /\ CpuFor(w) /\ job[w].ph = "open"
  /\ locked' = FALSE
  /\ Goto(w, IF job[w].at = 0 THEN "erase" ELSE "first")
  /\ UNCHANGED <<flash, power, pmode, ram, gsnr, hurt, typed, saves, resets>>

(* Mutation: one piece too few. *)
CloseOneEarly(w) ==
  /\ locked' = TRUE
  /\ job' = IF job[w].at < Last - 1
              THEN [job EXCEPT ![w].at = @ + 1, ![w].ph = "open"]
              ELSE [job EXCEPT ![w] = NoJob]

(* FLASH_Lock at the end of a call, and on to the next piece. *)
Close(w) ==
  /\ locked' = TRUE
  /\ job' = IF job[w].at < Last
              THEN [job EXCEPT ![w].at = @ + 1, ![w].ph = "open"]
              ELSE [job EXCEPT ![w] = NoJob]

(* FLASH_EraseSector; on a locked controller nothing happens, and no error *)
(* is reported.                                                            *)
Erase(w) ==
  /\ CpuFor(w) /\ job[w].ph = "erase"
  /\ flash' = IF locked THEN flash ELSE Erased
  /\ Close(w)
  /\ UNCHANGED <<power, pmode, ram, gsnr, hurt, typed, saves, resets>>

(* Bits of x that stay set when y is programmed over them; exact to 3. *)
And(x, y) ==
  IF x = Blank \/ x = y THEN y
  ELSE IF y = Blank THEN x
  ELSE IF {x, y} \subseteq 0..3 THEN IF x = 3 THEN y ELSE IF y = 3 THEN x ELSE 0
  ELSE IF 0 \in {x, y} THEN 0
  ELSE Mixed

(* The two halves of the magic word or of the mode. *)
FirstHalf(x, y) == IF x = Blank THEN Half ELSE IF x \in {Half, y} THEN x ELSE Mixed
SecondHalf(x, y) == IF x \in {Half, y} THEN y ELSE Mixed

ProgramFirst(k, c) ==
  IF k = 1 THEN [flash EXCEPT !.flag = FirstHalf(@, Magic)]
  ELSE IF k = 2 THEN [flash EXCEPT !.mode = FirstHalf(@, c.mode)]
  ELSE [flash EXCEPT !.set[k - 2].cal = And(@, c.set[k - 2].cal),
                     !.set[k - 2].vec = And(@, c.set[k - 2].vec)]

ProgramSecond(k, c) ==
  IF k = 1 THEN [flash EXCEPT !.flag = SecondHalf(@, Magic)]
  ELSE IF k = 2 THEN [flash EXCEPT !.mode = SecondHalf(@, c.mode)]
  ELSE [flash EXCEPT !.set[k - 2].chan = And(@, c.set[k - 2].chan)]

(* drv_fls_write: byte after byte until one fails, as all do while the     *)
(* controller is locked.  The caller looks at the result of the last call  *)
(* only, to print it.                                                      *)
First(w) ==
  /\ CpuFor(w) /\ job[w].ph = "first"
  /\ IF locked THEN Close(w) /\ UNCHANGED flash
     ELSE /\ flash' = ProgramFirst(job[w].at, job[w].copy)
          /\ Goto(w, "second") /\ UNCHANGED locked
  /\ UNCHANGED <<power, pmode, ram, gsnr, hurt, typed, saves, resets>>

Second(w) ==
  /\ CpuFor(w) /\ job[w].ph = "second"
  /\ flash' = IF locked THEN flash ELSE ProgramSecond(job[w].at, job[w].copy)
  /\ Close(w)
  /\ UNCHANGED <<power, pmode, ram, gsnr, hurt, typed, saves, resets>>

-----------------------------------------------------------------------------
(* Reset or loss of power.  The RAM is lost; an erase under way may leave  *)
(* any of the pieces unreadable.                                           *)
Erasing == \E w \in Threads : CpuFor(w) /\ job[w].ph = "erase" /\ ~locked

Reset ==
  /\ power # "off" /\ resets < MaxResets
  /\ resets' = resets + 1
  /\ power' = "off" /\ locked' = TRUE
  /\ pmode' = 0 /\ ram' = WildSet /\ drv' = 0 /\ axes' = 0
  /\ hurt' = (hurt \/ Saver # {})
  /\ job' = [w \in Threads |-> NoJob]
  /\ \/ UNCHANGED flash
     \/ /\ Erasing
        /\ \E bad \in (SUBSET (1..Last)) \ {{}} :
             flash' = [flag |-> IF 1 \in bad THEN Mixed ELSE flash.flag,
                       mode |-> IF 2 \in bad THEN Mixed ELSE flash.mode,
                       set  |-> [m \in Modes |-> IF m + 2 \in bad THEN WildSet ELSE flash.set[m]]]
  /\ UNCHANGED <<typed, saves>>

(* Mutation: the defaults are loaded, not written. *)
LoadOnly ==
  /\ ram' = Default(CUSTOM) /\ pmode' = CUSTOM
  /\ typed' = typed \cap {NoMode}
  /\ UNCHANGED job

(* param_init without the magic word: the defaults, write_def_param. *)
LoadDefaults ==
  /\ ram' = Default(CUSTOM) /\ pmode' = CUSTOM
  /\ typed' = typed \cap {NoMode}
  /\ job' = [job EXCEPT !["init"] =
               [op |-> "def", val |-> 0, at |-> 0, ph |-> "open", copy |-> Defaults]]

(* load_param_from_fl. *)
LoadFromFlash ==
  /\ pmode' = flash.mode
  /\ \E n \in Picks(flash.mode) : ram' = IF n \in Modes THEN flash.set[n] ELSE WildSet
  /\ UNCHANGED <<job, typed>>

Boot ==
  /\ power = "off" /\ power' = "boot"
  /\ IF flash.flag # Magic THEN LoadDefaults ELSE LoadFromFlash
  /\ UNCHANGED <<flash, locked, gsnr, hurt, saves, resets>>

(* What the step in RAM may be: one that nobody has saved is any. *)
StepOf(x) == IF x = Mixed THEN 0..3 \cup {Mixed} ELSE {x}

(* gsnr_init.  Step 3 (GPS instead of the sensor) returns before there is  *)
(* a thread; GsensorDataRead takes the first vector from step 1 on, the    *)
(* second with step 2; a step above 3 leaves t-gsnr with nothing to do.    *)
Started ==
  /\ power = "boot" /\ ~Busy("init")
  /\ power' = "up"
  /\ \E s \in StepOf(ram.cal) :
       /\ drv' = s
       /\ axes' = CASE s \in {0, 3} -> 0
                    [] s = 2      -> ram.vec
                    [] OTHER      -> IF ram.vec = 2 THEN 1 ELSE ram.vec
  /\ typed' = IF pmode \in Modes \ typed THEN typed \ {NoMode} ELSE typed \cup {NoMode}
  /\ UNCHANGED <<flash, locked, pmode, ram, job, hurt, saves, resets>>

-----------------------------------------------------------------------------
(* A new device: the sector has been erased with the rest of the flash. *)
Init ==
  /\ flash = Erased /\ locked = TRUE
  /\ power = "off" /\ pmode = 0 /\ ram = WildSet
  /\ job = [w \in Threads |-> NoJob]
  /\ drv = 0 /\ axes = 0
  /\ hurt = FALSE /\ typed = {} /\ saves = 0 /\ resets = 0

Start == KeyReset \/ ShellSet \/ ShellGsnr \/ ShellMode \/ ShellDefaults \/ Calibrate
Step(w) == ReadSector(w) \/ Apply(w) \/ Open(w) \/ Erase(w) \/ First(w) \/ Second(w)

Next == Start \/ (\E w \in Threads : Step(w)) \/ Reset \/ Boot \/ Started

Spec == Init /\ [][Next]_vars

-----------------------------------------------------------------------------
(* Types; Blank, Mixed and Half are what flash can hold besides values.    *)
Steps == 0..255 \cup {Mixed}
Vectors == 0..2 \cup {Blank, Mixed}
Sets == [cal : Steps, vec : Vectors, chan : 0..255 \cup {Mixed}]
Marks == {Blank, Half, Mixed}
ModeWords == Modes \cup {NoMode} \cup Marks
Copies == [mode : ModeWords, set : [Modes -> Sets]]
Ops == {"step", "vec", "cal", "gsnr", "chan", "other", "mode", "def"}
Jobs == [op   : Ops \cup {"none"},
         val  : 0..255, at : 0..Last,
         ph   : {"read", "apply", "open", "erase", "first", "second", "done"},
         copy : Copies]

TypeOK ==
  /\ flash \in [flag : {Magic} \cup Marks, mode : ModeWords, set : [Modes -> Sets]]
  /\ locked \in BOOLEAN
  /\ power \in {"off", "boot", "up"}
  /\ pmode \in ModeWords
  /\ ram \in Sets
  /\ job \in [Threads -> Jobs]
  /\ drv \in Steps /\ axes \in Vectors
  /\ hurt \in BOOLEAN /\ typed \in SUBSET (Modes \cup {NoMode})
  /\ saves \in 0..MaxSaves /\ resets \in 0..MaxResets

(* The promise of the store (ParamTable): a change reaches one set, that   *)
(* of the mode in force if it exists, and nothing else, all at once, and a *)
(* start loads what was stored last, whenever the device was switched off. *)
(* It is kept until two changes overlap or a reset hits one that writes.   *)
Stored ==
  IF Saver # {} THEN job[CHOOSE w \in Saver : TRUE].copy
  ELSE IF flash.flag = Magic THEN [mode |-> flash.mode, set |-> flash.set]
  ELSE Defaults

Table == INSTANCE ParamTable WITH
  Defaults <- Defaults.set,
  Lost     <- WildSet,
  ok       <- ~hurt,
  mode     <- IF hurt THEN CUSTOM ELSE Stored.mode,
  sets     <- IF hurt THEN Defaults.set ELSE Stored.set,
  ram      <- IF hurt THEN WildSet ELSE ram

ImplementsParamTable == Table!Spec

(* t-gsnr never works with a vector it has not got: a calibration step in  *)
(* use or in flash comes with the vectors it stands for, whatever mode     *)
(* changes, key presses, restarts and other parameters lie between.  For a *)
(* mode whose calibration was typed at the shell the typist answers, until *)
(* step 0 (the key), the defaults or a calibration from step 0 on replaces *)
(* it; of the other modes it holds meanwhile.                              *)
CalibrationUsable ==
  ~hurt =>
    /\ power = "up" /\ drv \in {1, 2} /\ NoMode \notin typed => axes = drv
    /\ ~Busy("init") /\ Saver = {} /\ flash.flag = Magic =>
         \A m \in Modes \ typed :
           flash.set[m].cal \in {1, 2} => flash.set[m].vec \in flash.set[m].cal .. 2

(* Whatever was torn, a started device has the magic word in flash as soon *)
(* as nobody changes it: a damaged sector is never taken for a new one     *)
(* afterwards, only the very next start can repair it.                     *)
MagicOnceUp ==
  power = "up" /\ (\A w \in Threads : ~Busy(w)) => flash.flag = Magic
=============================================================================
