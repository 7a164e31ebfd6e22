-------------------------- MODULE ParamStore_proofs --------------------------
(***************************************************************************)
(* Theorems about the parameter sector for any number of modes, changes    *)
(* and resets: the types; that a started device has the magic word in      *)
(* flash again as soon as nobody is changing the sector, whatever has been *)
(* torn; and, until two changes overlap or a reset hits one that writes,   *)
(* that a calibration the shell has not typed is usable and the store      *)
(* implements the table of parameters (ParamTable).  The shell may give    *)
(* any parameter any value and any mode, one that does not exist included. *)
(***************************************************************************)
EXTENDS ParamStore, TLAPS

USE ParamStoreAssumption

(* The changes of one set. *)
Edits == {"step", "vec", "cal", "gsnr", "chan", "other"}

(* What a thread is about to do fits the change it makes. *)
Shape(j) ==
  /\ j.op = "cal" => j.val \in {1, 2}
  /\ j.op = "mode" => j.val \in Modes \cup {NoMode}
  /\ j.ph = "read" => j.op \in Edits \cup {"mode"}
  /\ j.ph = "apply" => j.op \in Edits
  /\ j.ph = "erase" => j.at = 0
  /\ j.ph \in {"first", "second"} => j.at >= 1
  /\ j.op = "none" <=> j.ph = "done"

TypeInv == TypeOK /\ \A w \in Threads : Shape(job[w])

LEMMA ModesFacts ==
  /\ Modes \subseteq 1..250 /\ CUSTOM \in Modes /\ NoMode \notin Modes
  /\ Last \in Nat /\ Last >= 3
  /\ \A k \in 0..Last : k = 0 \/ k = 1 \/ k = 2 \/ k - 2 \in Modes
BY DEF Modes, CUSTOM, NoMode, Last

LEMMA DefaultsTyped ==
  /\ \A m \in Modes : Default(m) \in Sets
  /\ Defaults \in Copies /\ WildSet \in Sets /\ BlankSet \in Sets
  /\ NoJob \in Jobs /\ Shape(NoJob)
<1>1. \A m \in Modes : Default(m) \in Sets
  BY DEF Default, Sets, Steps, Vectors
<1>2. WildSet \in Sets /\ BlankSet \in Sets
  BY DEF WildSet, BlankSet, Sets, Steps, Vectors, Mixed, Blank
<1>3. Defaults \in Copies
  BY <1>1, ModesFacts DEF Defaults, Copies, ModeWords
<1>4. NoJob \in Jobs /\ Shape(NoJob)
  BY <1>3, ModesFacts DEF NoJob, Jobs, Shape
<1> QED BY <1>1, <1>2, <1>3, <1>4

(* Programming over what is there leaves a value, or a mark. *)
LEMMA AndTyped ==
  ASSUME NEW s \in Sets, NEW c \in Sets
  PROVE  /\ [s EXCEPT !.cal = And(@, c.cal), !.vec = And(@, c.vec)] \in Sets
         /\ [s EXCEPT !.chan = And(@, c.chan)] \in Sets
<1>1. And(s.cal, c.cal) \in Steps
  BY DEF And, Sets, Steps, Blank, Mixed
<1>2. And(s.vec, c.vec) \in Vectors
  BY DEF And, Sets, Vectors, Blank, Mixed
<1>3. And(s.chan, c.chan) \in 0..255 \cup {Mixed}
  BY DEF And, Sets, Blank, Mixed
<1> DEFINE a == And(s.cal, c.cal)
           v == And(s.vec, c.vec)
           n == And(s.chan, c.chan)
<1>4. [s EXCEPT !.cal = And(@, c.cal), !.vec = And(@, c.vec)] = [s EXCEPT !.cal = a, !.vec = v]
      /\ [s EXCEPT !.chan = And(@, c.chan)] = [s EXCEPT !.chan = n]
  BY DEF Sets
<1>5. a \in Steps /\ v \in Vectors /\ n \in 0..255 \cup {Mixed}
  BY <1>1, <1>2, <1>3
<1> HIDE DEF a, v, n
<1>6. /\ [s EXCEPT !.cal = a, !.vec = v] = [cal |-> a, vec |-> v, chan |-> s.chan]
      /\ [s EXCEPT !.chan = n] = [cal |-> s.cal, vec |-> s.vec, chan |-> n]
  <2>1. s = [cal |-> s.cal, vec |-> s.vec, chan |-> s.chan]
    BY DEF Sets
  <2>2. [s EXCEPT !.chan = n] = [cal |-> s.cal, vec |-> s.vec, chan |-> n]
    BY <2>1
  <2> DEFINE t == [s EXCEPT !.cal = a]
  <2>3. t = [cal |-> a, vec |-> s.vec, chan |-> s.chan]
    BY <2>1
  <2>4. [s EXCEPT !.cal = a, !.vec = v] = [t EXCEPT !.vec = v]
    BY <2>1
  <2>5. [t EXCEPT !.vec = v] = [cal |-> a, vec |-> v, chan |-> s.chan]
    <3> HIDE DEF t
    <3> QED BY <2>3
  <2> QED BY <2>2, <2>4, <2>5
<1>7. s.chan \in 0..255 \cup {Mixed} /\ s.cal \in Steps /\ s.vec \in Vectors
  BY DEF Sets
<1>8. /\ [cal |-> a, vec |-> v, chan |-> s.chan] \in Sets
      /\ [cal |-> s.cal, vec |-> s.vec, chan |-> n] \in Sets
  BY <1>5, <1>7 DEF Sets
<1> QED BY <1>4, <1>6, <1>8

(* A piece is programmed: the sector keeps its type. *)
LEMMA ProgramTyped ==
  ASSUME TypeOK, NEW k \in 1..Last, NEW c \in Copies
  PROVE  /\ ProgramFirst(k, c) \in [flag : {Magic} \cup Marks, mode : ModeWords,
                                    set : [Modes -> Sets]]
         /\ ProgramSecond(k, c) \in [flag : {Magic} \cup Marks, mode : ModeWords,
                                     set : [Modes -> Sets]]
<1> DEFINE S == [flag : {Magic} \cup Marks, mode : ModeWords, set : [Modes -> Sets]]
<1>1. flash \in S
  BY DEF TypeOK
<1>2. CASE k = 1
  <2>1. FirstHalf(flash.flag, Magic) \in {Magic} \cup Marks
        /\ SecondHalf(flash.flag, Magic) \in {Magic} \cup Marks
    BY <1>1 DEF FirstHalf, SecondHalf, Marks
  <2> QED BY <1>1, <1>2, <2>1 DEF ProgramFirst, ProgramSecond
<1>3. CASE k = 2
  <2>1. FirstHalf(flash.mode, c.mode) \in ModeWords
        /\ SecondHalf(flash.mode, c.mode) \in ModeWords
    BY <1>1 DEF FirstHalf, SecondHalf, ModeWords, Marks, Copies
  <2> QED BY <1>1, <1>3, <2>1 DEF ProgramFirst, ProgramSecond
<1>4. CASE k # 1 /\ k # 2
  <2> DEFINE m == k - 2
             s == flash.set[m]
             d == c.set[m]
  <2>1. m \in Modes /\ s \in Sets /\ d \in Sets
    BY <1>1, <1>4, ModesFacts DEF Copies
  <2>2. /\ [s EXCEPT !.cal = And(@, d.cal), !.vec = And(@, d.vec)] \in Sets
        /\ [s EXCEPT !.chan = And(@, d.chan)] \in Sets
    BY <2>1, AndTyped
  <2>3. ProgramFirst(k, c) =
          [flash EXCEPT !.set = [flash.set EXCEPT ![m] =
             [s EXCEPT !.cal = And(@, d.cal), !.vec = And(@, d.vec)]]]
    BY <1>1, <1>4, <2>1 DEF ProgramFirst, Sets
  <2>4. ProgramSecond(k, c) =
          [flash EXCEPT !.set = [flash.set EXCEPT ![m] = [s EXCEPT !.chan = And(@, d.chan)]]]
    BY <1>1, <1>4, <2>1 DEF ProgramSecond, Sets
  <2> QED BY <1>1, <2>1, <2>2, <2>3, <2>4
<1> QED BY <1>2, <1>3, <1>4

-----------------------------------------------------------------------------
Phases == {"read", "apply", "open", "erase", "first", "second", "done"}

(* What an assignment to fields of one thread's change does. *)
LEMMA GotoJob ==
  ASSUME NEW f \in [Threads -> Jobs], NEW w \in Threads, NEW ph \in Phases
  PROVE  LET g == [f EXCEPT ![w].ph = ph]
         IN /\ g \in [Threads -> Jobs]
            /\ \A v \in Threads \ {w} : g[v] = f[v]
            /\ g[w].op = f[w].op /\ g[w].val = f[w].val /\ g[w].at = f[w].at
            /\ g[w].ph = ph /\ g[w].copy = f[w].copy
<1> DEFINE j == f[w]
           r == [op |-> j.op, val |-> j.val, at |-> j.at, ph |-> ph, copy |-> j.copy]
<1>1. j = [op |-> j.op, val |-> j.val, at |-> j.at, ph |-> j.ph, copy |-> j.copy]
      /\ j \in Jobs
  BY DEF Jobs
<1>2. [j EXCEPT !.ph = ph] = r
  BY <1>1
<1>3. r \in Jobs
  BY <1>1 DEF Jobs, Phases
<1>4. [f EXCEPT ![w].ph = ph] = [f EXCEPT ![w] = r]
  BY <1>2
<1> HIDE DEF j, r
<1>5. [f EXCEPT ![w] = r] \in [Threads -> Jobs] /\ [f EXCEPT ![w] = r][w] = r
      /\ \A v \in Threads \ {w} : [f EXCEPT ![w] = r][v] = f[v]
  BY <1>3
<1>6. r.op = f[w].op /\ r.val = f[w].val /\ r.at = f[w].at /\ r.ph = ph /\ r.copy = f[w].copy
  BY DEF r, j
<1> QED BY <1>4, <1>5, <1>6

LEMMA AtJob ==
  ASSUME NEW f \in [Threads -> Jobs], NEW w \in Threads, f[w].at < Last
  PROVE  LET g == [f EXCEPT ![w].at = @ + 1, ![w].ph = "open"]
         IN /\ g \in [Threads -> Jobs]
            /\ \A v \in Threads \ {w} : g[v] = f[v]
            /\ g[w].op = f[w].op /\ g[w].val = f[w].val /\ g[w].at = f[w].at + 1
            /\ g[w].ph = "open" /\ g[w].copy = f[w].copy
<1> DEFINE j == f[w]
           r == [op |-> j.op, val |-> j.val, at |-> j.at + 1, ph |-> j.ph, copy |-> j.copy]
           h == [f EXCEPT ![w] = r]
<1>1. j = [op |-> j.op, val |-> j.val, at |-> j.at, ph |-> j.ph, copy |-> j.copy]
      /\ j \in Jobs
  BY DEF Jobs
<1>2. [j EXCEPT !.at = @ + 1] = r
  BY <1>1
<1>3. r \in Jobs
  BY <1>1, ModesFacts DEF Jobs
<1>4. [f EXCEPT ![w].at = @ + 1, ![w].ph = "open"] = [h EXCEPT ![w].ph = "open"]
  BY <1>2
<1>5. r.op = f[w].op /\ r.val = f[w].val /\ r.at = f[w].at + 1 /\ r.copy = f[w].copy
  OBVIOUS
<1>6. h \in [Threads -> Jobs] /\ h[w] = r /\ \A v \in Threads \ {w} : h[v] = f[v]
  <2> HIDE DEF r
  <2> QED BY <1>3
<1> HIDE DEF r, h, j
<1>7. LET g == [h EXCEPT ![w].ph = "open"]
      IN /\ g \in [Threads -> Jobs]
         /\ \A v \in Threads \ {w} : g[v] = h[v]
         /\ g[w].op = h[w].op /\ g[w].val = h[w].val /\ g[w].at = h[w].at
         /\ g[w].ph = "open" /\ g[w].copy = h[w].copy
  <2>1. "open" \in Phases
    BY DEF Phases
  <2> QED BY <1>6, <2>1, GotoJob
<1> QED BY <1>4, <1>5, <1>6, <1>7

SetCopy(f, w, c, ph) == [f EXCEPT ![w].copy = c, ![w].ph = ph]

LEMMA CopyJob ==
  ASSUME NEW f \in [Threads -> Jobs], NEW w \in Threads, NEW c \in Copies,
         NEW ph \in Phases
  PROVE  LET g == SetCopy(f, w, c, ph)
         IN /\ g \in [Threads -> Jobs]
            /\ \A v \in Threads \ {w} : g[v] = f[v]
            /\ g[w].op = f[w].op /\ g[w].val = f[w].val /\ g[w].at = f[w].at
            /\ g[w].ph = ph /\ g[w].copy = c
<1> DEFINE j == f[w]
           r == [op |-> j.op, val |-> j.val, at |-> j.at, ph |-> j.ph, copy |-> c]
           h == [f EXCEPT ![w] = r]
<1>1. j = [op |-> j.op, val |-> j.val, at |-> j.at, ph |-> j.ph, copy |-> j.copy]
      /\ j \in Jobs
  BY DEF Jobs
<1>2. [j EXCEPT !.copy = c] = r
  BY <1>1
<1>3. r \in Jobs
  BY <1>1 DEF Jobs
<1>4. SetCopy(f, w, c, ph) = [h EXCEPT ![w].ph = ph]
  BY <1>2 DEF SetCopy
<1>5. r.op = f[w].op /\ r.val = f[w].val /\ r.at = f[w].at /\ r.copy = c
  OBVIOUS
<1>6. h \in [Threads -> Jobs] /\ h[w] = r /\ \A v \in Threads \ {w} : h[v] = f[v]
  <2> HIDE DEF r
  <2> QED BY <1>3
<1> HIDE DEF r, h, j
<1>7. LET g == [h EXCEPT ![w].ph = ph]
      IN /\ g \in [Threads -> Jobs]
         /\ \A v \in Threads \ {w} : g[v] = h[v]
         /\ g[w].op = h[w].op /\ g[w].val = h[w].val /\ g[w].at = h[w].at
         /\ g[w].ph = ph /\ g[w].copy = h[w].copy
  BY <1>6, GotoJob
<1> QED BY <1>4, <1>5, <1>6, <1>7

-----------------------------------------------------------------------------
(* One step of a change: what it does to the changes. *)
Untouched(w) == \A v \in Threads \ {w} : job'[v] = job[v]

LEMMA CloseJob ==
  ASSUME TypeInv, NEW w \in Threads, Close(w)
  PROVE  /\ job' \in [Threads -> Jobs] /\ Untouched(w) /\ locked' = TRUE
         /\ \/ /\ job[w].at < Last
               /\ job'[w].op = job[w].op /\ job'[w].val = job[w].val
               /\ job'[w].at = job[w].at + 1 /\ job'[w].ph = "open"
               /\ job'[w].copy = job[w].copy
            \/ /\ job[w].at = Last
               /\ job'[w] = NoJob
<1>1. job \in [Threads -> Jobs] /\ job[w].at \in 0..Last
  BY DEF TypeInv, TypeOK, Jobs
<1>2. CASE job[w].at < Last
  <2> DEFINE g == [job EXCEPT ![w].at = @ + 1, ![w].ph = "open"]
  <2>1. job' = g /\ locked' = TRUE
    BY <1>2 DEF Close
  <2>2. /\ g \in [Threads -> Jobs]
        /\ \A v \in Threads \ {w} : g[v] = job[v]
        /\ g[w].op = job[w].op /\ g[w].val = job[w].val /\ g[w].at = job[w].at + 1
        /\ g[w].ph = "open" /\ g[w].copy = job[w].copy
    BY <1>1, <1>2, AtJob
  <2> HIDE DEF g
  <2> QED BY <1>2, <2>1, <2>2 DEF Untouched
<1>3. CASE ~(job[w].at < Last)
  <2>1. job[w].at = Last
    BY <1>1, <1>3, ModesFacts
  <2>2. job' = [job EXCEPT ![w] = NoJob] /\ locked' = TRUE
    BY <1>3 DEF Close
  <2> QED BY <1>1, <2>1, <2>2, DefaultsTyped DEF Untouched
<1> QED BY <1>2, <1>3

LEMMA ShapeKept ==
  ASSUME TypeInv, NEW w \in Threads, Untouched(w), Shape(job'[w])
  PROVE  \A v \in Threads : Shape(job'[v])
BY DEF TypeInv, Untouched

(* Beginning a change: what a step that begins one leaves behind. *)
HasBegun(w, op, v, ph, c) ==
  /\ job' \in [Threads -> Jobs] /\ Untouched(w)
  /\ job'[w].op = op /\ job'[w].val = v /\ job'[w].at = 0 /\ job'[w].ph = ph
  /\ job'[w].copy = c
  /\ hurt' \in BOOLEAN /\ saves' \in 0..MaxSaves

LEMMA BeginJob ==
  ASSUME TypeInv, NEW w \in Threads,
         NEW op \in Ops, NEW v \in 0..255,
         NEW ph \in Phases, NEW c \in Copies, Begin(w, op, v, ph, c)
  PROVE  HasBegun(w, op, v, ph, c)
<1> DEFINE r == [op |-> op, val |-> v, at |-> 0, ph |-> ph, copy |-> c]
<1>1. r \in Jobs
  BY ModesFacts DEF Jobs, Phases
<1>2. job' = [job EXCEPT ![w] = r] /\ job \in [Threads -> Jobs]
  BY DEF Begin, TypeInv, TypeOK
<1>3. r.op = op /\ r.val = v /\ r.at = 0 /\ r.ph = ph /\ r.copy = c
  OBVIOUS
<1>4. hurt' \in BOOLEAN /\ saves' \in 0..MaxSaves
  BY DEF Begin, TypeInv, TypeOK
<1> HIDE DEF r
<1> QED BY <1>1, <1>2, <1>3, <1>4 DEF HasBegun, Untouched

LEMMA InitTyped == Init => TypeInv
<1> SUFFICES ASSUME Init PROVE TypeInv
  OBVIOUS
<1>1. flash \in [flag : {Magic} \cup Marks, mode : ModeWords, set : [Modes -> Sets]]
  <2>1. Erased = [flag |-> Blank, mode |-> Blank, set |-> [m \in Modes |-> BlankSet]]
    BY DEF Erased
  <2>2. [m \in Modes |-> BlankSet] \in [Modes -> Sets]
    BY DefaultsTyped
  <2> HIDE DEF BlankSet
  <2> QED BY <2>1, <2>2 DEF Init, ModeWords, Marks
<1>2. ram \in Sets /\ job \in [Threads -> Jobs] /\ \A w \in Threads : Shape(job[w])
  BY DefaultsTyped DEF Init
<1>3. locked \in BOOLEAN /\ power \in {"off", "boot", "up"} /\ hurt \in BOOLEAN
  BY DEF Init
<1>4. pmode = 0 /\ drv = 0 /\ axes = 0 /\ saves = 0 /\ resets = 0 /\ typed = {}
  BY DEF Init
<1>5. /\ pmode \in ModeWords
      /\ drv \in Steps /\ axes \in Vectors
      /\ saves \in 0..MaxSaves /\ resets \in 0..MaxResets
      /\ typed \in SUBSET (Modes \cup {NoMode})
  BY <1>4 DEF ModeWords, NoMode, Steps, Vectors
<1> QED BY <1>1, <1>2, <1>3, <1>5 DEF TypeInv, TypeOK

Sector == [flag : {Magic} \cup Marks, mode : ModeWords, set : [Modes -> Sets]]

(* The parts of TypeOK a step can disturb, one by one. *)
LEMMA Typed ==
  ASSUME TypeInv,
         flash' \in Sector, locked' \in BOOLEAN, power' \in {"off", "boot", "up"},
         pmode' \in ModeWords, ram' \in Sets,
         job' \in [Threads -> Jobs], \A w \in Threads : Shape(job'[w]),
         drv' \in Steps, axes' \in Vectors,
         hurt' \in BOOLEAN, typed' \in SUBSET (Modes \cup {NoMode}),
         saves' \in 0..MaxSaves, resets' \in 0..MaxResets
  PROVE  TypeInv'
BY DEF TypeInv, TypeOK, Sector, Shape

LEMMA Now ==
  ASSUME TypeInv
  PROVE  /\ flash \in Sector /\ locked \in BOOLEAN /\ power \in {"off", "boot", "up"}
         /\ pmode \in ModeWords /\ ram \in Sets
         /\ job \in [Threads -> Jobs] /\ \A w \in Threads : Shape(job[w])
         /\ drv \in Steps /\ axes \in Vectors
         /\ hurt \in BOOLEAN /\ typed \in SUBSET (Modes \cup {NoMode})
         /\ saves \in 0..MaxSaves /\ resets \in 0..MaxResets
BY DEF TypeInv, TypeOK, Sector

(* The shell gives a step, a vector, both, a channel or something else. *)
LEMMA ShellBegins ==
  ASSUME ShellSet \/ ShellGsnr
  PROVE  \E op \in Edits \ {"cal"}, z \in 0..255 : Begin("shell", op, z, "read", Defaults)
<1>1. \A v \in ShellValues : v % 256 \in 0..255
  OBVIOUS
<1> QED BY <1>1 DEF ShellSet, ShellGsnr, Edits

LEMMA StartTyped == TypeInv /\ Start => TypeInv'
<1> SUFFICES ASSUME TypeInv, Start PROVE TypeInv'
  OBVIOUS
<1>a. /\ "sys" \in Threads /\ "gsnr" \in Threads /\ "shell" \in Threads
      /\ "read" \in Phases /\ "open" \in Phases /\ 0 \in 0..255 /\ Defaults \in Copies
      /\ "step" \in Ops /\ "cal" \in Ops /\ Edits \subseteq Ops
      /\ "mode" \in Ops /\ "def" \in Ops
  BY DefaultsTyped DEF Threads, Phases, Ops, Edits
<1>b. ASSUME NEW w \in Threads, NEW op \in Ops, NEW v \in 0..255, NEW ph \in {"read", "open"},
             Begin(w, op, v, ph, Defaults),
             op = "cal" => v \in {1, 2}, op = "mode" => v \in Modes \cup {NoMode},
             ph = "read" => op \in Edits \cup {"mode"},
             UNCHANGED <<flash, locked, power, ram, resets>>,
             pmode' \in ModeWords, drv' \in Steps, axes' \in Vectors,
             typed' \in SUBSET (Modes \cup {NoMode})
      PROVE  TypeInv'
  <2>1. HasBegun(w, op, v, ph, Defaults)
    BY <1>a, <1>b, BeginJob
  <2>2. Shape(job'[w]) /\ Untouched(w)
    BY <1>b, <2>1 DEF HasBegun, Shape, Ops
  <2>3. \A u \in Threads : Shape(job'[u])
    BY <2>2, ShapeKept
  <2>4. job' \in [Threads -> Jobs] /\ hurt' \in BOOLEAN /\ saves' \in 0..MaxSaves
    BY <2>1 DEF HasBegun
  <2> QED BY <1>b, <2>3, <2>4, Now, Typed
<1>1. CASE KeyReset
  <2>1. Begin("sys", "step", 0, "read", Defaults) /\ "step" \in Edits
        /\ UNCHANGED <<flash, locked, power, pmode, ram, drv, axes, typed, resets>>
    BY <1>1 DEF KeyReset, gsnr, Edits
  <2> QED BY <1>a, <1>b, <2>1, Now
<1>2. CASE ShellSet \/ ShellGsnr
  <2>1. PICK op \in Edits \ {"cal"}, z \in 0..255 : Begin("shell", op, z, "read", Defaults)
    BY <1>2, ShellBegins
  <2>2. UNCHANGED <<flash, locked, power, pmode, ram, drv, axes, typed, resets>>
        /\ op # "cal" /\ op # "mode" /\ op \in Ops
    BY <1>a, <1>2, <2>1 DEF ShellSet, ShellGsnr, gsnr, Edits
  <2> QED BY <1>a, <1>b, <2>1, <2>2, Now
<1>3. CASE ShellMode
  <2>1. PICK m \in Modes \cup {NoMode} :
          Begin("shell", "mode", m, "read", Defaults) /\ pmode' = m
    BY <1>3 DEF ShellMode
  <2>2. m \in 0..255 /\ pmode' \in ModeWords
        /\ UNCHANGED <<flash, locked, power, ram, drv, axes, typed, resets>>
    BY <1>3, <2>1, ModesFacts DEF ShellMode, gsnr, NoMode, ModeWords
  <2> QED BY <1>a, <1>b, <2>1, <2>2, Now
<1>4. CASE ShellDefaults
  <2>1. Begin("shell", "def", 0, "open", Defaults) /\ pmode' = CUSTOM
        /\ typed' = typed \cap {NoMode}
        /\ UNCHANGED <<flash, locked, power, ram, drv, axes, resets>>
    BY <1>4 DEF ShellDefaults, gsnr
  <2>2. pmode' \in ModeWords /\ typed' \in SUBSET (Modes \cup {NoMode})
    BY <2>1, ModesFacts DEF ModeWords
  <2> QED BY <1>a, <1>b, <2>1, <2>2, Now
<1>5. CASE Calibrate
  <2>1. drv' \in {1, 2} /\ axes' \in Vectors /\ typed' \in SUBSET (Modes \cup {NoMode})
    <3>1. /\ drv \in {0, 1} /\ drv' = drv + 1
          /\ axes' = IF drv = 0 THEN 1 ELSE IF axes = 1 THEN 2 ELSE axes
          /\ typed' = IF drv = 0 THEN typed \ {NoMode} ELSE typed
      BY <1>5 DEF Calibrate
    <3> QED BY <3>1, Now DEF Vectors
  <2>2. PICK z \in {1, 2} : z = drv'
    BY <2>1
  <2>3. Begin("gsnr", "cal", z, "read", Defaults) /\ z \in 0..255 /\ drv' \in Steps
        /\ "cal" \in Edits /\ UNCHANGED <<flash, locked, power, pmode, ram, resets>>
    BY <1>5, <2>2 DEF Calibrate, Steps, Edits
  <2> QED BY <1>a, <1>b, <2>1, <2>2, <2>3, Now
<1> QED BY <1>1, <1>2, <1>3, <1>4, <1>5 DEF Start

(* One step of a change: the change of w only, its kind kept. *)
Moves(w) ==
  /\ job' \in [Threads -> Jobs] /\ Untouched(w)
  /\ Shape(job'[w])
  /\ \/ job'[w] = NoJob
     \/ job'[w].op = job[w].op /\ job'[w].val = job[w].val

LEMMA ReadTyped ==
  ASSUME TypeInv, NEW w \in Threads, ReadSector(w)
  PROVE  /\ TypeInv' /\ Moves(w)
         /\ job'[w].op = job[w].op /\ job'[w].val = job[w].val /\ job'[w].at = job[w].at
         /\ job'[w].ph = IF job[w].op = "mode" THEN "open" ELSE "apply"
         /\ job'[w].copy = [mode |-> IF job[w].op = "mode" THEN job[w].val ELSE flash.mode,
                            set  |-> flash.set]
<1> DEFINE mo == IF job[w].op = "mode" THEN job[w].val ELSE flash.mode
           c  == [mode |-> mo, set |-> flash.set]
           ph == IF job[w].op = "mode" THEN "open" ELSE "apply"
           g  == SetCopy(job, w, c, ph)
<1>1. job' = g
      /\ UNCHANGED <<flash, locked, power, pmode, ram, drv, axes, hurt, typed, saves, resets>>
  BY DEF ReadSector, gsnr, SetCopy
<1>2. job[w] \in Jobs /\ Shape(job[w]) /\ job[w].ph = "read"
  BY Now DEF ReadSector
<1>3. mo \in ModeWords /\ flash.set \in [Modes -> Sets]
  BY <1>2, Now DEF Shape, Sector, ModeWords
<1>4. c \in Copies /\ ph \in Phases
  <2>1. ph \in Phases
    BY DEF Phases
  <2>2. c \in Copies
    <3> HIDE DEF mo, ph
    <3> QED BY <1>3 DEF Copies
  <2> QED BY <2>1, <2>2
<1> HIDE DEF c, mo
<1>5. /\ g \in [Threads -> Jobs]
      /\ \A v \in Threads \ {w} : g[v] = job[v]
      /\ g[w].op = job[w].op /\ g[w].val = job[w].val /\ g[w].at = job[w].at
      /\ g[w].ph = ph /\ g[w].copy = c
  <2>1. job \in [Threads -> Jobs]
    BY Now
  <2> HIDE DEF ph
  <2> QED BY <1>4, <2>1, CopyJob
<1> HIDE DEF g
<1>6. Shape(job'[w])
  BY <1>1, <1>2, <1>5 DEF Shape
<1>7. Moves(w)
  BY <1>1, <1>5, <1>6 DEF Moves, Untouched
<1>8. \A v \in Threads : Shape(job'[v])
  BY <1>7, ShapeKept DEF Moves
<1>9. TypeInv'
  BY <1>1, <1>7, <1>8, Now, Typed DEF Moves
<1> QED BY <1>1, <1>5, <1>7, <1>9 DEF c, mo

LEMMA OpenTyped ==
  ASSUME TypeInv, NEW w \in Threads, Open(w)
  PROVE  /\ TypeInv' /\ Moves(w)
         /\ job'[w].op = job[w].op /\ job'[w].val = job[w].val
         /\ job'[w].at = job[w].at /\ job'[w].copy = job[w].copy
         /\ job'[w].ph = IF job[w].at = 0 THEN "erase" ELSE "first"
<1> DEFINE ph == IF job[w].at = 0 THEN "erase" ELSE "first"
           g == [job EXCEPT ![w].ph = ph]
<1>1. job' = g /\ locked' = FALSE
      /\ UNCHANGED <<flash, power, pmode, ram, drv, axes, hurt, typed, saves, resets>>
  BY DEF Open, Goto, gsnr
<1>2. job[w] \in Jobs /\ Shape(job[w]) /\ job[w].ph = "open" /\ job[w].at \in 0..Last
  BY Now DEF Open, Jobs
<1>3. ph \in Phases
  BY DEF Phases
<1>4. /\ g \in [Threads -> Jobs]
      /\ \A v \in Threads \ {w} : g[v] = job[v]
      /\ g[w].op = job[w].op /\ g[w].val = job[w].val /\ g[w].at = job[w].at
      /\ g[w].ph = ph /\ g[w].copy = job[w].copy
  <2> HIDE DEF ph
  <2> QED BY <1>3, Now, GotoJob
<1> HIDE DEF g
<1>5. Shape(job'[w])
  BY <1>1, <1>2, <1>4, ModesFacts DEF Shape
<1>6. Moves(w)
  BY <1>1, <1>4, <1>5 DEF Moves, Untouched
<1>7. \A v \in Threads : Shape(job'[v])
  BY <1>6, ShapeKept DEF Moves
<1> QED BY <1>1, <1>4, <1>6, <1>7, Now, Typed DEF Moves

(* What the changes make of a set. *)
LEMMA ChangeForms ==
  ASSUME TypeInv, NEW w \in Threads, job[w].op \in Edits, NEW s \in Sets, NEW x \in 0..2
  PROVE  /\ job[w].op = "step"  =>
              Change(w, s, x) = [cal |-> job[w].val, vec |-> s.vec, chan |-> s.chan]
         /\ job[w].op = "vec"   =>
              Change(w, s, x) = [cal |-> s.cal, vec |-> x, chan |-> s.chan]
         /\ job[w].op = "cal"   =>
              Change(w, s, x) = [cal |-> job[w].val, vec |-> axes, chan |-> s.chan]
         /\ job[w].op = "gsnr"  =>
              Change(w, s, x) = [cal |-> job[w].val, vec |-> x, chan |-> s.chan]
         /\ job[w].op = "chan"  =>
              Change(w, s, x) = [cal |-> s.cal, vec |-> s.vec, chan |-> job[w].val]
         /\ job[w].op = "other" => Change(w, s, x) = s
<1>1. s = [cal |-> s.cal, vec |-> s.vec, chan |-> s.chan]
  BY DEF Sets
<1>2. ASSUME NEW a PROVE /\ [s EXCEPT !.cal = a] = [cal |-> a, vec |-> s.vec, chan |-> s.chan]
                         /\ [s EXCEPT !.vec = a] = [cal |-> s.cal, vec |-> a, chan |-> s.chan]
                         /\ [s EXCEPT !.chan = a] = [cal |-> s.cal, vec |-> s.vec, chan |-> a]
  BY <1>1
<1>3. ASSUME NEW a, NEW b
      PROVE  [s EXCEPT !.cal = a, !.vec = b] = [cal |-> a, vec |-> b, chan |-> s.chan]
  <2> DEFINE t == [s EXCEPT !.cal = a]
  <2>1. t = [cal |-> a, vec |-> s.vec, chan |-> s.chan]
    BY <1>2
  <2>2. [s EXCEPT !.cal = a, !.vec = b] = [t EXCEPT !.vec = b]
    BY <1>1
  <2> HIDE DEF t
  <2> QED BY <2>1, <2>2
<1>4. CASE job[w].op = "step"
  BY <1>2, <1>4 DEF Change
<1>5. CASE job[w].op = "vec"
  BY <1>2, <1>5 DEF Change
<1>6. CASE job[w].op = "cal"
  BY <1>3, <1>6 DEF Change
<1>7. CASE job[w].op = "gsnr"
  BY <1>3, <1>7 DEF Change
<1>8. CASE job[w].op = "chan"
  BY <1>2, <1>8 DEF Change
<1>9. CASE job[w].op = "other"
  BY <1>9 DEF Change
<1> QED BY <1>4, <1>5, <1>6, <1>7, <1>8, <1>9 DEF Edits

LEMMA ChangeTyped ==
  ASSUME TypeInv, NEW w \in Threads, job[w].op \in Edits, NEW s \in Sets, NEW x \in 0..2
  PROVE  Change(w, s, x) \in Sets
<1>1. s.cal \in Steps /\ s.vec \in Vectors /\ s.chan \in 0..255 \cup {Mixed}
  BY DEF Sets
<1>2. job[w].val \in 0..255 /\ axes \in Vectors
  BY Now DEF Jobs
<1>3. job[w].val \in Steps /\ job[w].val \in 0..255 \cup {Mixed} /\ x \in Vectors
  BY <1>2 DEF Steps, Vectors
<1>4. \A a \in Steps, b \in Vectors, d \in 0..255 \cup {Mixed} :
         [cal |-> a, vec |-> b, chan |-> d] \in Sets
  BY DEF Sets
<1>a. s = [cal |-> s.cal, vec |-> s.vec, chan |-> s.chan]
  BY DEF Sets
<1>5. \E a \in {s.cal, job[w].val}, b \in {s.vec, x, axes}, d \in {s.chan, job[w].val} :
         Change(w, s, x) = [cal |-> a, vec |-> b, chan |-> d]
  <2> DEFINE t == Change(w, s, x)
             v == job[w].val
  <2>1. /\ job[w].op = "step"  => t = [cal |-> v, vec |-> s.vec, chan |-> s.chan]
        /\ job[w].op = "vec"   => t = [cal |-> s.cal, vec |-> x, chan |-> s.chan]
        /\ job[w].op = "cal"   => t = [cal |-> v, vec |-> axes, chan |-> s.chan]
        /\ job[w].op = "gsnr"  => t = [cal |-> v, vec |-> x, chan |-> s.chan]
        /\ job[w].op = "chan"  => t = [cal |-> s.cal, vec |-> s.vec, chan |-> v]
        /\ job[w].op = "other" => t = [cal |-> s.cal, vec |-> s.vec, chan |-> s.chan]
    BY <1>a, ChangeForms
  <2>2. job[w].op \in {"step", "vec", "cal", "gsnr", "chan", "other"}
    BY DEF Edits
  <2> HIDE DEF t, v
  <2>3. \E a \in {s.cal, v}, b \in {s.vec, x, axes}, d \in {s.chan, v} :
           t = [cal |-> a, vec |-> b, chan |-> d]
    BY <2>1, <2>2
  <2> QED BY <2>3 DEF t, v
<1>6. PICK a \in {s.cal, job[w].val}, b \in {s.vec, x, axes}, d \in {s.chan, job[w].val} :
         Change(w, s, x) = [cal |-> a, vec |-> b, chan |-> d]
  BY <1>5
<1>7. a \in Steps /\ b \in Vectors /\ d \in 0..255 \cup {Mixed}
  BY <1>1, <1>2, <1>3
<1>8. [cal |-> a, vec |-> b, chan |-> d] \in Sets
  BY <1>4, <1>7
<1> QED BY <1>6, <1>8

(* A change applied to set n, or to memory that is none. *)
Applied(w, n, x) ==
  /\ n \in Picks(pmode) /\ x \in 0..2
  /\ n \in Modes =>
       /\ ram' = Change(w, job[w].copy.set[n], x) /\ typed' = Retyped(w, n)
       /\ job'[w].copy = [mode |-> job[w].copy.mode,
                          set  |-> [job[w].copy.set EXCEPT ![n] = ram']]
  /\ n \notin Modes => ram' = WildSet /\ typed' = typed /\ job'[w].copy = job[w].copy

LEMMA ApplyTyped ==
  ASSUME TypeInv, NEW w \in Threads, Apply(w)
  PROVE  /\ TypeInv' /\ Moves(w)
         /\ job'[w].op = job[w].op /\ job'[w].val = job[w].val
         /\ job'[w].at = job[w].at /\ job'[w].ph = "open"
         /\ \E n, x : Applied(w, n, x)
<1>1. job[w] \in Jobs /\ Shape(job[w]) /\ job[w].ph = "apply"
  BY Now DEF Apply
<1>2. job[w].op \in Edits /\ job[w].copy \in Copies /\ job[w].val \in 0..255
  BY <1>1 DEF Shape, Jobs
<1>3. UNCHANGED <<flash, locked, power, pmode, drv, axes, hurt, saves, resets>>
  BY DEF Apply, gsnr
<1>4. "open" \in Phases
  BY DEF Phases
<1>n. PICK n \in Picks(pmode), x \in 0..2 :
        IF n \in Modes
          THEN /\ job' = [job EXCEPT ![w].copy.set[n] = Change(w, job[w].copy.set[n], x),
                                     ![w].ph = "open"]
               /\ ram' = Change(w, job[w].copy.set[n], x) /\ typed' = Retyped(w, n)
          ELSE Goto(w, "open") /\ ram' = WildSet /\ UNCHANGED typed
  BY DEF Apply
<1>5. CASE n \in Modes
  <2> DEFINE k == job[w].copy
             o == k.set[n]
             s == Change(w, o, x)
             c == [mode |-> k.mode, set |-> [k.set EXCEPT ![n] = s]]
             g == SetCopy(job, w, c, "open")
  <2>1. o \in Sets /\ k.set \in [Modes -> Sets] /\ k.mode \in ModeWords
    BY <1>2, <1>5 DEF Copies
  <2>2. s \in Sets
    BY <1>2, <2>1, ChangeTyped
  <2>3. c \in Copies
    <3> HIDE DEF s, k
    <3> QED BY <1>5, <2>1, <2>2 DEF Copies
  <2>4. job' = g /\ ram' = s /\ typed' = Retyped(w, n)
    <3>1. job' = [job EXCEPT ![w].copy.set[n] = s, ![w].ph = "open"] /\ ram' = s
          /\ typed' = Retyped(w, n)
      BY <1>5, <1>n
    <3>2. k = [mode |-> k.mode, set |-> k.set]
      BY <1>2 DEF Copies
    <3>3. [k EXCEPT !.set[n] = s] = c
      <4> HIDE DEF k, s
      <4> QED BY <3>2
    <3> HIDE DEF s, c
    <3> QED BY <3>1, <3>3 DEF SetCopy
  <2>5. typed' \in SUBSET (Modes \cup {NoMode})
    BY <1>5, <2>4, Now DEF Retyped
  <2> HIDE DEF s, c
  <2>6. /\ g \in [Threads -> Jobs]
        /\ \A v \in Threads \ {w} : g[v] = job[v]
        /\ g[w].op = job[w].op /\ g[w].val = job[w].val /\ g[w].at = job[w].at
        /\ g[w].ph = "open" /\ g[w].copy = c
    <3>1. job \in [Threads -> Jobs]
      BY Now
    <3> QED BY <1>4, <2>3, <3>1, CopyJob
  <2> HIDE DEF g
  <2>7. Shape(job'[w])
    BY <1>1, <2>4, <2>6 DEF Shape
  <2>8. Moves(w)
    BY <2>4, <2>6, <2>7 DEF Moves, Untouched
  <2>9. \A v \in Threads : Shape(job'[v])
    BY <2>8, ShapeKept DEF Moves
  <2>10. TypeInv'
    BY <1>3, <2>2, <2>4, <2>5, <2>6, <2>8, <2>9, Now, Typed DEF Moves
  <2>11. Applied(w, n, x)
    BY <1>n, <1>5, <2>4, <2>6 DEF Applied, c, s
  <2> QED BY <2>4, <2>6, <2>8, <2>10, <2>11
<1>6. CASE n \notin Modes
  <2> DEFINE g == [job EXCEPT ![w].ph = "open"]
  <2>1. job' = g /\ ram' = WildSet /\ WildSet \in Sets /\ typed' = typed
    BY <1>6, <1>n, DefaultsTyped DEF Goto
  <2>2. /\ g \in [Threads -> Jobs]
        /\ \A v \in Threads \ {w} : g[v] = job[v]
        /\ g[w].op = job[w].op /\ g[w].val = job[w].val /\ g[w].at = job[w].at
        /\ g[w].ph = "open" /\ g[w].copy = job[w].copy
    BY <1>4, Now, GotoJob
  <2> HIDE DEF g
  <2>3. Shape(job'[w])
    BY <1>1, <2>1, <2>2 DEF Shape
  <2>4. Moves(w)
    BY <2>1, <2>2, <2>3 DEF Moves, Untouched
  <2>5. \A v \in Threads : Shape(job'[v])
    BY <2>4, ShapeKept DEF Moves
  <2>6. TypeInv'
    BY <1>3, <2>1, <2>2, <2>4, <2>5, Now, Typed DEF Moves
  <2>7. Applied(w, n, x)
    BY <1>n, <1>6, <2>1, <2>2 DEF Applied
  <2> QED BY <2>1, <2>2, <2>4, <2>6, <2>7
<1> QED BY <1>5, <1>6

(* The end of a call of the flash driver. *)
LEMMA CloseMoves ==
  ASSUME TypeInv, NEW w \in Threads, Close(w), Busy(w),
         flash' \in Sector, UNCHANGED <<power, pmode, ram, drv, axes, hurt, typed, saves, resets>>
  PROVE  TypeInv' /\ Moves(w)
<1>1. Shape(job[w]) /\ job[w] \in Jobs
  BY Now
<1>2. /\ job' \in [Threads -> Jobs] /\ Untouched(w) /\ locked' = TRUE
      /\ \/ /\ job[w].at < Last
            /\ job'[w].op = job[w].op /\ job'[w].val = job[w].val
            /\ job'[w].at = job[w].at + 1 /\ job'[w].ph = "open"
            /\ job'[w].copy = job[w].copy
         \/ /\ job[w].at = Last
            /\ job'[w] = NoJob
  BY CloseJob
<1>3. Shape(job'[w])
  BY <1>1, <1>2, DefaultsTyped DEF Shape, Busy
<1>4. Moves(w)
  BY <1>2, <1>3 DEF Moves
<1>5. \A v \in Threads : Shape(job'[v])
  BY <1>4, ShapeKept DEF Moves
<1> QED BY <1>2, <1>4, <1>5, Now, Typed

LEMMA WriteTyped ==
  ASSUME TypeInv, NEW w \in Threads, Erase(w) \/ First(w) \/ Second(w)
  PROVE  TypeInv' /\ Moves(w)
<1>1. job[w] \in Jobs /\ Shape(job[w]) /\ job[w].copy \in Copies
  BY Now DEF Jobs
<1>2. job[w].ph \in {"erase", "first", "second"} /\ Busy(w)
  BY <1>1 DEF Erase, First, Second, Shape, Busy
<1>3. UNCHANGED <<power, pmode, ram, drv, axes, hurt, typed, saves, resets>>
  BY DEF Erase, First, Second, gsnr
<1>4. job[w].ph \in {"first", "second"} =>
        ProgramFirst(job[w].at, job[w].copy) \in Sector
        /\ ProgramSecond(job[w].at, job[w].copy) \in Sector
  <2> SUFFICES ASSUME job[w].ph \in {"first", "second"}
               PROVE  ProgramFirst(job[w].at, job[w].copy) \in Sector
                      /\ ProgramSecond(job[w].at, job[w].copy) \in Sector
    OBVIOUS
  <2>1. job[w].at \in 1..Last
    BY <1>1, ModesFacts DEF Shape, Jobs
  <2>2. TypeOK
    BY DEF TypeInv
  <2> QED BY <1>1, <2>1, <2>2, ProgramTyped DEF Sector
<1>5. CASE Erase(w)
  <2>1. Erased \in Sector
    <3>1. [m \in Modes |-> BlankSet] \in [Modes -> Sets]
      BY DefaultsTyped
    <3> HIDE DEF BlankSet
    <3> QED BY <3>1 DEF Sector, Erased, ModeWords, Marks
  <2>2. flash' \in Sector
    BY <1>5, <2>1, Now DEF Erase
  <2> QED BY <1>2, <1>3, <1>5, <2>2, CloseMoves DEF Erase
<1>6. CASE First(w) /\ locked
  <2>1. Close(w) /\ flash' \in Sector
    BY <1>6, Now DEF First
  <2> QED BY <1>2, <1>3, <2>1, CloseMoves
<1>7. CASE First(w) /\ ~locked
  <2> DEFINE g == [job EXCEPT ![w].ph = "second"]
  <2>1. job' = g /\ flash' = ProgramFirst(job[w].at, job[w].copy) /\ locked' = locked
        /\ job[w].ph = "first"
    BY <1>7 DEF First, Goto
  <2>2. "second" \in Phases
    BY DEF Phases
  <2>3. /\ g \in [Threads -> Jobs]
        /\ \A v \in Threads \ {w} : g[v] = job[v]
        /\ g[w].op = job[w].op /\ g[w].val = job[w].val /\ g[w].at = job[w].at
        /\ g[w].ph = "second" /\ g[w].copy = job[w].copy
    BY <2>2, Now, GotoJob
  <2> HIDE DEF g
  <2>4. Shape(job'[w])
    BY <1>1, <2>1, <2>3 DEF Shape
  <2>5. Moves(w)
    BY <2>1, <2>3, <2>4 DEF Moves, Untouched
  <2>6. \A v \in Threads : Shape(job'[v])
    BY <2>5, ShapeKept DEF Moves
  <2> QED BY <1>3, <1>4, <2>1, <2>3, <2>5, <2>6, Now, Typed DEF Moves
<1>8. CASE Second(w)
  <2>1. Close(w) /\ flash' \in Sector
    BY <1>4, <1>8, Now DEF Second
  <2> QED BY <1>2, <1>3, <2>1, CloseMoves
<1> QED BY <1>5, <1>6, <1>7, <1>8

LEMMA PowerTyped == TypeInv /\ (Reset \/ Boot \/ Started) => TypeInv'
<1> SUFFICES ASSUME TypeInv, Reset \/ Boot \/ Started PROVE TypeInv'
  OBVIOUS
<1>1. CASE Reset
  <2>1. /\ power' = "off" /\ locked' = TRUE /\ pmode' = 0 /\ ram' = WildSet
        /\ drv' = 0 /\ axes' = 0 /\ job' = [w \in Threads |-> NoJob]
        /\ typed' = typed /\ saves' = saves
        /\ resets' = resets + 1 /\ resets < MaxResets
    BY <1>1 DEF Reset
  <2>2. hurt' \in BOOLEAN
    BY <1>1, Now DEF Reset
  <2>3. flash' \in Sector
    <3>1. CASE UNCHANGED flash
      BY <3>1, Now
    <3>2. CASE \E bad \in (SUBSET (1..Last)) \ {{}} :
             flash' = [flag |-> IF 1 \in bad THEN Mixed ELSE flash.flag,
                       mode |-> IF 2 \in bad THEN Mixed ELSE flash.mode,
                       set  |-> [m \in Modes |-> IF m + 2 \in bad THEN WildSet ELSE flash.set[m]]]
      <4>1. PICK bad : flash' = [flag |-> IF 1 \in bad THEN Mixed ELSE flash.flag,
                       mode |-> IF 2 \in bad THEN Mixed ELSE flash.mode,
                       set  |-> [m \in Modes |-> IF m + 2 \in bad THEN WildSet ELSE flash.set[m]]]
        BY <3>2
      <4> DEFINE a == IF 1 \in bad THEN Mixed ELSE flash.flag
                 b == IF 2 \in bad THEN Mixed ELSE flash.mode
                 c == [m \in Modes |-> IF m + 2 \in bad THEN WildSet ELSE flash.set[m]]
      <4>2. a \in {Magic} \cup Marks /\ b \in ModeWords
        BY Now DEF Sector, ModeWords, Marks
      <4>3. flash.set \in [Modes -> Sets] /\ WildSet \in Sets
        BY Now, DefaultsTyped DEF Sector
      <4>4. c \in [Modes -> Sets]
        <5> HIDE DEF WildSet
        <5> QED BY <4>3
      <4>5. flash' = [flag |-> a, mode |-> b, set |-> c]
        BY <4>1
      <4> HIDE DEF a, b, c
      <4> QED BY <4>2, <4>4, <4>5 DEF Sector
    <3> QED BY <1>1, <3>1, <3>2 DEF Reset
  <2>4. job' \in [Threads -> Jobs] /\ \A w \in Threads : Shape(job'[w])
    BY <2>1, DefaultsTyped
  <2>5. resets' \in 0..MaxResets
    BY <2>1, Now
  <2>6. ram' \in Sets
    BY <2>1, DefaultsTyped
  <2>7. 0 \in Steps /\ 0 \in Vectors /\ 0 \in ModeWords
    BY DEF Steps, Vectors, ModeWords, NoMode
  <2> QED BY <2>1, <2>2, <2>3, <2>4, <2>5, <2>6, <2>7, Now, Typed
<1>2. CASE Boot
  <2>1. /\ power' = "boot"
        /\ UNCHANGED <<flash, locked, drv, axes, hurt, saves, resets>>
    BY <1>2 DEF Boot, gsnr
  <2>2. CASE LoadDefaults
    <3> DEFINE r == [op |-> "def", val |-> 0, at |-> 0, ph |-> "open", copy |-> Defaults]
    <3>1. job' = [job EXCEPT !["init"] = r] /\ ram' = Default(CUSTOM) /\ pmode' = CUSTOM
          /\ typed' = typed \cap {NoMode}
      BY <2>2 DEF LoadDefaults
    <3>2. r \in Jobs /\ Shape(r)
      BY DefaultsTyped, ModesFacts DEF Jobs, Ops, Shape
    <3> HIDE DEF r
    <3>3. job' \in [Threads -> Jobs] /\ \A w \in Threads : Shape(job'[w])
      BY <3>1, <3>2, Now
    <3>4. ram' \in Sets /\ pmode' \in ModeWords /\ typed' \in SUBSET (Modes \cup {NoMode})
      BY <3>1, DefaultsTyped, ModesFacts DEF ModeWords
    <3> QED BY <2>1, <3>3, <3>4, Now, Typed
  <2>3. CASE LoadFromFlash
    <3>1. pmode' = flash.mode /\ UNCHANGED <<job, typed>>
      BY <2>3 DEF LoadFromFlash
    <3>2. flash.mode \in ModeWords
      BY Now DEF Sector
    <3>3. ram' \in Sets
      BY <2>3, Now, DefaultsTyped DEF LoadFromFlash, Sector
    <3> QED BY <2>1, <3>1, <3>2, <3>3, Now, Typed
  <2> QED BY <1>2, <2>2, <2>3 DEF Boot
<1>3. CASE Started
  <2>1. power' = "up" /\ UNCHANGED <<flash, locked, pmode, ram, job, hurt, saves, resets>>
        /\ typed' = IF pmode \in Modes \ typed THEN typed \ {NoMode} ELSE typed \cup {NoMode}
    BY <1>3 DEF Started
  <2>2. PICK s \in StepOf(ram.cal) :
          /\ drv' = s
          /\ axes' = CASE s \in {0, 3} -> 0
                       [] s = 2      -> ram.vec
                       [] OTHER      -> IF ram.vec = 2 THEN 1 ELSE ram.vec
    BY <1>3 DEF Started
  <2>3. ram.cal \in Steps /\ ram.vec \in Vectors
    BY Now DEF Sets
  <2>4. drv' \in Steps
    BY <2>2, <2>3 DEF StepOf, Steps
  <2>5. axes' \in Vectors
    <3>1. CASE s \in {0, 3}
      BY <2>2, <3>1 DEF Vectors
    <3>2. CASE s = 2
      BY <2>2, <2>3, <3>2
    <3>3. CASE s \notin {0, 2, 3}
      BY <2>2, <2>3, <3>3 DEF Vectors
    <3> QED BY <3>1, <3>2, <3>3
  <2>6. typed' \in SUBSET (Modes \cup {NoMode})
    BY <2>1, Now
  <2> QED BY <2>1, <2>4, <2>5, <2>6, Now, Typed
<1> QED BY <1>1, <1>2, <1>3

LEMMA StepTyped ==
  ASSUME TypeInv, NEW w \in Threads, Step(w)
  PROVE  TypeInv' /\ Moves(w)
BY ReadTyped, ApplyTyped, OpenTyped, WriteTyped DEF Step

LEMMA NextTyped == TypeInv /\ [Next]_vars => TypeInv'
<1> SUFFICES ASSUME TypeInv, [Next]_vars PROVE TypeInv'
  OBVIOUS
<1>1. CASE Start
  BY <1>1, StartTyped
<1>2. CASE \E w \in Threads : Step(w)
  BY <1>2, StepTyped
<1>3. CASE Reset \/ Boot \/ Started
  BY <1>3, PowerTyped
<1>4. CASE UNCHANGED vars
  BY <1>4, Now, Typed DEF vars, gsnr
<1> QED BY <1>1, <1>2, <1>3, <1>4 DEF Next

(* The sector, the copies of it and the registers of the threads keep      *)
(* their types: nothing but a value, a torn piece or blank flash is ever   *)
(* read back, whatever overlaps and wherever the power fails.              *)
THEOREM TypesKept == Spec => []TypeOK
<1>1. TypeInv => TypeOK
  BY DEF TypeInv
<1> QED BY <1>1, InitTyped, NextTyped, PTL DEF Spec

-----------------------------------------------------------------------------
(* The magic word.  Only the thread that has the processor counts: when a  *)
(* higher one has come between, it leaves a complete sector behind.        *)
Running(w) == Busy(w) /\ \A v \in Above(w) : ~Busy(v)

Fits(w) ==
  /\ job[w].at >= 2 => flash.flag = Magic
  /\ job[w].ph \in {"erase", "first", "second"} /\ locked => flash.flag = Magic
  /\ job[w].at = 1 => flash.flag \in {Blank, Half, Magic}
  /\ job[w].at = 1 /\ job[w].ph = "second" => flash.flag \in {Half, Magic}

MagicInv ==
  /\ power = "off" => \A w \in Threads : ~Busy(w)
  /\ power = "boot" => \A w \in Threads \ {"init"} : ~Busy(w)
  /\ power = "up" => ~Busy("init")
  /\ \A w \in Threads : Running(w) => Fits(w)
  /\ power # "off" /\ (\A w \in Threads : ~Busy(w)) => flash.flag = Magic

LEMMA Order ==
  \A v, w \in Threads \ {"init"} : v = w \/ v \in Above(w) \/ w \in Above(v)
BY DEF Threads, Above

(* Whoever has the processor: the others of the change are below it. *)
LEMMA OthersBelow ==
  ASSUME TypeInv, MagicInv, NEW w \in Threads, CpuFor(w), NEW u \in Threads \ {w}, Busy(u)
  PROVE  w \in Above(u)
<1>1. CASE w = "init"
  BY <1>1 DEF MagicInv, CpuFor
<1>2. CASE w # "init"
  <2>1. power = "up" /\ ~Busy("init") /\ \A v \in Above(w) : ~Busy(v)
    BY <1>2 DEF MagicInv, CpuFor
  <2>2. u # "init"
    BY <2>1
  <2> QED BY <1>2, <2>1, <2>2, Order
<1> QED BY <1>1, <1>2

(* A step of a change that goes on. *)
LEMMA GoesOn ==
  ASSUME TypeInv, MagicInv, NEW w \in Threads, CpuFor(w), Untouched(w),
         power' = power, Busy(w)', Fits(w)'
  PROVE  MagicInv'
<1>1. \A u \in Threads \ {w} : Busy(u)' <=> Busy(u)
  BY DEF Busy, Untouched
<1>2. ASSUME NEW u \in Threads, Running(u)'
      PROVE  Fits(u)'
  <2>1. CASE u = w
    BY <2>1
  <2>2. CASE u # w
    <3>1. Busy(u) /\ w \notin Above(u)
      BY <1>1, <1>2, <2>2 DEF Running
    <3> QED BY <2>2, <3>1, OthersBelow
  <2> QED BY <2>1, <2>2
<1>3. /\ power = "off" => FALSE
      /\ power = "boot" => w = "init"
      /\ power = "up" => w # "init"
  BY DEF CpuFor
<1>4. (\A u \in Threads : Running(u) => Fits(u))'
  BY <1>2
<1>5. (power = "boot" => \A u \in Threads \ {"init"} : ~Busy(u))'
  BY <1>1, <1>3 DEF MagicInv
<1>6. (power = "up" => ~Busy("init"))'
  BY <1>1, <1>3 DEF MagicInv, Threads
<1>7. ~(power = "off")' /\ ~(\A u \in Threads : ~Busy(u))'
  BY <1>3
<1> QED BY <1>4, <1>5, <1>6, <1>7 DEF MagicInv

(* The last step of a change: the magic word is there. *)
LEMMA Ends ==
  ASSUME TypeInv, MagicInv, NEW w \in Threads, CpuFor(w), Untouched(w),
         power' = power, ~Busy(w)', flash'.flag = Magic
  PROVE  MagicInv'
<1>1. \A u \in Threads \ {w} : Busy(u)' <=> Busy(u)
  BY DEF Busy, Untouched
<1>2. \A u \in Threads : Fits(u)'
  BY DEF Fits
<1>3. /\ power = "off" => FALSE
      /\ power = "boot" => w = "init"
      /\ power = "up" => w # "init"
  BY DEF CpuFor
<1>4. (\A u \in Threads : Running(u) => Fits(u))'
  BY <1>2
<1>5. (power = "boot" => \A u \in Threads \ {"init"} : ~Busy(u))'
  BY <1>1, <1>3 DEF MagicInv
<1>6. (power = "up" => ~Busy("init"))'
  BY <1>1, <1>3 DEF MagicInv, Threads
<1>7. ~(power = "off")' /\ (flash.flag = Magic)'
  BY <1>3
<1> QED BY <1>4, <1>5, <1>6, <1>7 DEF MagicInv

LEMMA Runs ==
  ASSUME TypeInv, MagicInv, NEW w \in Threads, CpuFor(w), job[w].ph # "done"
  PROVE  Busy(w) /\ Fits(w) /\ job[w].at \in 0..Last
<1>1. Shape(job[w]) /\ job[w].at \in 0..Last
  BY Now DEF Jobs
<1>2. Busy(w)
  BY <1>1 DEF Busy, Shape
<1> QED BY <1>1, <1>2 DEF MagicInv, Running, CpuFor

LEMMA StartMagic == TypeInv /\ MagicInv /\ Start => MagicInv'
<1> SUFFICES ASSUME TypeInv, MagicInv, Start PROVE MagicInv'
  OBVIOUS
<1>1. power' = power
  BY DEF Start, KeyReset, ShellSet, ShellGsnr, ShellMode, ShellDefaults, Calibrate
<1>2. ASSUME NEW w \in Threads, NEW op, NEW v, NEW ph, NEW c, Begin(w, op, v, ph, c),
             op # "none", ph \notin {"erase", "first", "second"}
      PROVE  MagicInv'
  <2> DEFINE r == [op |-> op, val |-> v, at |-> 0, ph |-> ph, copy |-> c]
  <2>1. CpuFor(w) /\ job' = [job EXCEPT ![w] = r]
    BY <1>2 DEF Begin
  <2>2. r.op = op /\ r.at = 0 /\ r.ph = ph
    OBVIOUS
  <2> HIDE DEF r
  <2>3. Untouched(w) /\ job'[w] = r
    BY <2>1, Now DEF Untouched
  <2>4. Busy(w)' /\ Fits(w)'
    BY <1>2, <2>2, <2>3 DEF Busy, Fits
  <2> QED BY <1>1, <2>1, <2>3, <2>4, GoesOn
<1>3. \E w \in Threads, op \in Edits \cup {"mode", "def"}, ph \in {"read", "open"} :
        \E v : Begin(w, op, v, ph, Defaults)
  <2>1. CASE KeyReset
    BY <2>1 DEF KeyReset, Threads, Edits
  <2>2. CASE ShellSet \/ ShellGsnr
    BY <2>2, ShellBegins DEF Threads
  <2>3. CASE ShellMode
    BY <2>3 DEF ShellMode, Threads
  <2>4. CASE ShellDefaults
    BY <2>4 DEF ShellDefaults, Threads
  <2>5. CASE Calibrate
    BY <2>5 DEF Calibrate, Threads, Edits
  <2> QED BY <2>1, <2>2, <2>3, <2>4, <2>5 DEF Start
<1>4. "none" \notin Edits \cup {"mode", "def"}
  BY DEF Edits
<1> QED BY <1>2, <1>3, <1>4

LEMMA QuietMagic ==
  ASSUME TypeInv, MagicInv, NEW w \in Threads, ReadSector(w) \/ Apply(w) \/ Open(w)
  PROVE  MagicInv'
<1>1. CpuFor(w) /\ job[w].ph # "done" /\ flash' = flash /\ power' = power
  BY DEF ReadSector, Apply, Open
<1>2. Busy(w) /\ Fits(w) /\ job[w].at \in 0..Last
  BY <1>1, Runs
<1>3. Moves(w)
  BY StepTyped DEF Step
<1>4. job'[w].at = job[w].at /\ job'[w].ph \in {"apply", "open", "erase", "first"}
  BY ReadTyped, ApplyTyped, OpenTyped
<1>5. \/ locked' = locked /\ job'[w].ph \in {"apply", "open"}
      \/ ~locked'
  BY ReadTyped, ApplyTyped DEF ReadSector, Apply, Open
<1>6. Fits(w)'
  BY <1>1, <1>2, <1>4, <1>5 DEF Fits
<1>7. Busy(w)'
  BY <1>2, <1>3, <1>4 DEF Moves, Busy, NoJob
<1> QED BY <1>1, <1>3, <1>6, <1>7, GoesOn DEF Moves

(* The end of a call: on to the next piece, or done. *)
LEMMA CloseMagic ==
  ASSUME TypeInv, MagicInv, NEW w \in Threads, CpuFor(w), job[w].ph # "done",
         Close(w), power' = power,
         job[w].at = 0 => flash'.flag \in {Blank, Magic},
         job[w].at >= 1 => flash'.flag = Magic
  PROVE  MagicInv'
<1>1. Busy(w) /\ Fits(w) /\ job[w].at \in 0..Last
  BY Runs
<1>2. /\ job' \in [Threads -> Jobs] /\ Untouched(w) /\ locked' = TRUE
      /\ \/ /\ job[w].at < Last
            /\ job'[w].op = job[w].op /\ job'[w].val = job[w].val
            /\ job'[w].at = job[w].at + 1 /\ job'[w].ph = "open"
            /\ job'[w].copy = job[w].copy
         \/ /\ job[w].at = Last
            /\ job'[w] = NoJob
  BY CloseJob
<1>3. CASE job[w].at < Last
  <2>1. job'[w].op = job[w].op /\ job'[w].at = job[w].at + 1 /\ job'[w].ph = "open"
    BY <1>1, <1>2, <1>3, ModesFacts
  <2>2. Busy(w)'
    BY <1>1, <2>1 DEF Busy
  <2>3. Fits(w)'
    BY <1>1, <2>1 DEF Fits
  <2> QED BY <1>2, <2>2, <2>3, GoesOn
<1>4. CASE ~(job[w].at < Last)
  <2>1. job'[w] = NoJob /\ job[w].at >= 1
    BY <1>1, <1>2, <1>4, ModesFacts
  <2>2. ~Busy(w)'
    BY <2>1 DEF Busy, NoJob
  <2> QED BY <1>2, <2>1, <2>2, Ends
<1> QED BY <1>3, <1>4

(* What programming a piece does to the magic word. *)
LEMMA ProgramFlag ==
  ASSUME TypeInv, NEW k \in 1..Last, NEW c \in Copies
  PROVE  /\ ProgramFirst(k, c).flag =
              IF k = 1 THEN FirstHalf(flash.flag, Magic) ELSE flash.flag
         /\ ProgramSecond(k, c).flag =
              IF k = 1 THEN SecondHalf(flash.flag, Magic) ELSE flash.flag
BY Now DEF ProgramFirst, ProgramSecond, Sector

LEMMA WriteMagic ==
  ASSUME TypeInv, MagicInv, NEW w \in Threads, Erase(w) \/ First(w) \/ Second(w)
  PROVE  MagicInv'
<1>1. CpuFor(w) /\ job[w].ph \in {"erase", "first", "second"} /\ power' = power
  BY DEF Erase, First, Second
<1>2. Busy(w) /\ Fits(w) /\ job[w].at \in 0..Last /\ Shape(job[w]) /\ job[w].copy \in Copies
  BY <1>1, Runs, Now DEF Jobs
<1>3. CASE Erase(w)
  <2>1. Close(w) /\ job[w].at = 0
    BY <1>2, <1>3 DEF Erase, Shape
  <2>2. flash'.flag \in {Blank, Magic}
    BY <1>1, <1>2, <1>3 DEF Erase, Fits, Erased
  <2> QED BY <1>1, <2>1, <2>2, CloseMagic
<1>4. CASE First(w) /\ locked
  <2>1. Close(w) /\ flash'.flag = Magic
    BY <1>1, <1>2, <1>4 DEF First, Fits
  <2> QED BY <1>1, <2>1, CloseMagic
<1>5. CASE First(w) /\ ~locked
  <2>1. job[w].ph = "first" /\ job[w].at \in 1..Last
    BY <1>2, <1>5, ModesFacts DEF First, Shape
  <2>2. /\ flash' = ProgramFirst(job[w].at, job[w].copy) /\ locked' = locked
        /\ job' = [job EXCEPT ![w].ph = "second"]
    BY <1>5 DEF First, Goto
  <2>3. flash'.flag = IF job[w].at = 1 THEN FirstHalf(flash.flag, Magic) ELSE flash.flag
    BY <1>2, <2>1, <2>2, ProgramFlag
  <2>4. "second" \in Phases
    BY DEF Phases
  <2>5. /\ \A v \in Threads \ {w} : job'[v] = job[v]
        /\ job'[w].op = job[w].op /\ job'[w].at = job[w].at /\ job'[w].ph = "second"
    BY <2>2, <2>4, Now, GotoJob
  <2>6. Busy(w)'
    BY <1>2, <2>5 DEF Busy
  <2>7. Fits(w)'
    <3>1. CASE job[w].at = 1
      <4>1. flash'.flag \in {Half, Magic}
        BY <1>2, <2>3, <3>1 DEF Fits, FirstHalf
      <4> QED BY <1>5, <2>2, <2>5, <3>1, <4>1 DEF Fits
    <3>2. CASE job[w].at # 1
      <4>1. flash'.flag = Magic
        BY <1>2, <2>1, <2>3, <3>2 DEF Fits
      <4> QED BY <2>5, <3>2, <4>1 DEF Fits
    <3> QED BY <3>1, <3>2
  <2>8. Untouched(w)
    BY <2>5 DEF Untouched
  <2> QED BY <1>1, <2>6, <2>7, <2>8, GoesOn
<1>6. CASE Second(w)
  <2>1. job[w].ph = "second" /\ job[w].at \in 1..Last /\ Close(w)
    BY <1>2, <1>6, ModesFacts DEF Second, Shape
  <2>2. flash'.flag = Magic
    <3>1. CASE locked
      BY <1>2, <1>6, <2>1, <3>1 DEF Second, Fits
    <3>2. CASE ~locked
      <4>1. flash'.flag = IF job[w].at = 1 THEN SecondHalf(flash.flag, Magic) ELSE flash.flag
        BY <1>2, <1>6, <2>1, <3>2, ProgramFlag DEF Second
      <4> QED BY <1>2, <2>1, <4>1 DEF Fits, SecondHalf
    <3> QED BY <3>1, <3>2
  <2> QED BY <1>1, <2>1, <2>2, CloseMagic
<1> QED BY <1>3, <1>4, <1>5, <1>6

LEMMA PowerMagic == TypeInv /\ MagicInv /\ (Reset \/ Boot \/ Started) => MagicInv'
<1> SUFFICES ASSUME TypeInv, MagicInv, Reset \/ Boot \/ Started PROVE MagicInv'
  OBVIOUS
<1>1. CASE Reset
  <2>1. power' = "off" /\ \A w \in Threads : ~Busy(w)'
    BY <1>1 DEF Reset, Busy, NoJob
  <2> QED BY <2>1 DEF MagicInv, Running
<1>2. CASE Boot
  <2>1. power = "off" /\ power' = "boot" /\ flash' = flash /\ \A w \in Threads : ~Busy(w)
    BY <1>2 DEF Boot, MagicInv
  <2>2. CASE flash.flag # Magic
    <3> DEFINE r == [op |-> "def", val |-> 0, at |-> 0, ph |-> "open", copy |-> Defaults]
    <3>1. job' = [job EXCEPT !["init"] = r] /\ job \in [Threads -> Jobs]
      BY <1>2, <2>2, Now DEF Boot, LoadDefaults
    <3>2. r.op # "none" /\ r.at = 0 /\ r.ph = "open"
      OBVIOUS
    <3> HIDE DEF r
    <3>3. job'["init"] = r /\ \A w \in Threads \ {"init"} : job'[w] = job[w]
      BY <3>1 DEF Threads
    <3>4. Busy("init")' /\ \A w \in Threads \ {"init"} : ~Busy(w)'
      BY <2>1, <3>2, <3>3 DEF Busy
    <3>5. Fits("init")'
      BY <3>2, <3>3 DEF Fits
    <3>6. (\A u \in Threads : Running(u) => Fits(u))'
      BY <3>4, <3>5 DEF Running
    <3>7. "init" \in Threads
      BY DEF Threads
    <3> QED BY <2>1, <3>4, <3>6, <3>7 DEF MagicInv
  <2>3. CASE flash.flag = Magic
    <3>1. job' = job
      BY <1>2, <2>3 DEF Boot, LoadFromFlash
    <3>2. \A w \in Threads : ~Busy(w)'
      BY <2>1, <3>1 DEF Busy
    <3>3. (\A u \in Threads : Running(u) => Fits(u))'
      BY <3>2 DEF Running
    <3> QED BY <2>1, <2>3, <3>2, <3>3 DEF MagicInv
  <2> QED BY <2>2, <2>3
<1>3. CASE Started
  <2>1. power = "boot" /\ power' = "up" /\ job' = job /\ flash' = flash /\ ~Busy("init")
    BY <1>3 DEF Started
  <2>2. \A w \in Threads : ~Busy(w)'
    BY <2>1 DEF MagicInv, Busy
  <2>3. (\A u \in Threads : Running(u) => Fits(u))'
    BY <2>2 DEF Running
  <2>4. flash.flag = Magic
    BY <2>1, <2>2 DEF MagicInv, Busy
  <2>5. "init" \in Threads
    BY DEF Threads
  <2> QED BY <2>1, <2>2, <2>3, <2>4, <2>5 DEF MagicInv
<1> QED BY <1>1, <1>2, <1>3

LEMMA MagicInit == Init => MagicInv
BY DEF Init, MagicInv, Running, Busy, NoJob

LEMMA MagicNext == TypeInv /\ MagicInv /\ [Next]_vars => MagicInv'
<1> SUFFICES ASSUME TypeInv, MagicInv, [Next]_vars PROVE MagicInv'
  OBVIOUS
<1>1. CASE Start
  BY <1>1, StartMagic
<1>2. CASE \E w \in Threads : Step(w)
  BY <1>2, QuietMagic, WriteMagic DEF Step
<1>3. CASE Reset \/ Boot \/ Started
  BY <1>3, PowerMagic
<1>4. CASE UNCHANGED vars
  BY <1>4 DEF vars, gsnr, MagicInv, Running, Fits, Busy
<1> QED BY <1>1, <1>2, <1>3, <1>4 DEF Next

(* Whatever changes overlap, at whatever point the power fails and however *)
(* torn the sector is: a device that has started and changes nothing has   *)
(* the magic word in flash, and its next start reads the sector instead of *)
(* replacing it by the defaults.                                           *)
THEOREM MagicAgain == Spec => []MagicOnceUp
<1>1. MagicInv => MagicOnceUp
  BY DEF MagicInv, MagicOnceUp
<1> QED BY <1>1, MagicInit, MagicNext, InitTyped, NextTyped, PTL DEF Spec

-----------------------------------------------------------------------------
(* The store while nothing has hurt it: one change at a time, and its      *)
(* progress through the pieces of the sector.                              *)
Writing == {"open", "erase", "first", "second"}

(* A calibration step is stored with the vectors it stands for, but for the *)
(* modes whose calibration the shell has typed.                            *)
GoodSet(s) == s.cal # Mixed /\ (s.cal \in {1, 2} => s.vec \in s.cal .. 2)
GoodCopy(c) ==
  /\ c.mode \in Modes \cup {NoMode}
  /\ \A m \in Modes \ typed : GoodSet(c.set[m])

OnFlash == [mode |-> flash.mode, set |-> flash.set]

(* Piece k of the sector: blank, half programmed, programmed. *)
IsBlank(k) ==
  /\ k = 1 => flash.flag = Blank
  /\ k = 2 => flash.mode = Blank
  /\ k > 2 => flash.set[k - 2] = BlankSet

IsHalf(k, c) ==
  /\ k = 1 => flash.flag = Half
  /\ k = 2 => flash.mode = Half
  /\ k > 2 => flash.set[k - 2] = [cal |-> c.set[k - 2].cal, vec |-> c.set[k - 2].vec, chan |-> Blank]

IsDone(k, c) ==
  /\ k = 1 => flash.flag = Magic
  /\ k = 2 => flash.mode = c.mode
  /\ k > 2 => flash.set[k - 2] = c.set[k - 2]

(* How far the one change under way has come. *)
Progress(j) ==
  /\ GoodCopy(j.copy)
  /\ j.ph \in {"erase", "first", "second"} => locked = FALSE
  /\ j.at >= 1 =>
       \A k \in 1..Last : /\ k < j.at => IsDone(k, j.copy)
                          /\ k > j.at => IsBlank(k)
                          /\ k = j.at => IF j.ph = "second" THEN IsHalf(k, j.copy) ELSE IsBlank(k)

Alone == \A u, v \in Threads : Busy(u) /\ Busy(v) => u = v

(* The sector when nobody writes it: as the last change left it, or, before *)
(* the first start of the device, blank.                                    *)
Rest ==
  Saver = {} => \/ flash.flag = Magic /\ GoodCopy(OnFlash)
                \/ flash.flag = Blank /\ power = "off"

(* The job of one thread, by its phase. *)
Fitting(j) ==
  /\ j.ph \in Writing => Progress(j) /\ pmode = j.copy.mode
  /\ j.ph = "apply" => j.copy = OnFlash
  /\ j.ph \in {"read", "apply"} =>
       /\ j.at = 0
       /\ pmode = IF j.op = "mode" THEN j.val ELSE flash.mode
       /\ j.op = "cal" /\ NoMode \notin typed => axes = j.val

Registers ==
  /\ power = "off" => ram = WildSet
  /\ power = "boot" /\ pmode \in Modes \ typed => GoodSet(ram)
  /\ power = "up" /\ drv \in {1, 2} /\ NoMode \notin typed => axes = drv
  /\ power # "off" /\ (\A w \in Threads : ~Busy(w)) => pmode = flash.mode

Kept == Alone /\ Rest /\ Registers /\ \A w \in Threads : Fitting(job[w])
KeptInv == ~hurt => Kept

-----------------------------------------------------------------------------
(* A change that is alone: who is busy, and who writes. *)
LEMMA Sole ==
  ASSUME TypeInv, Alone, NEW w \in Threads, job[w].ph # "done"
  PROVE  /\ Busy(w) /\ Shape(job[w]) /\ job[w] \in Jobs
         /\ \A v \in Threads \ {w} : job[v].op = "none" /\ job[v].ph = "done"
         /\ Saver = IF job[w].ph \in Writing THEN {w} ELSE {}
<1>1. \A v \in Threads : Shape(job[v]) /\ job[v] \in Jobs
  BY Now
<1>2. Busy(w)
  BY <1>1 DEF Busy, Shape
<1>3. \A v \in Threads \ {w} : job[v].op = "none"
  BY <1>2 DEF Alone, Busy
<1>4. \A v \in Threads \ {w} : job[v].ph = "done"
  BY <1>1, <1>3 DEF Shape
<1>5. Saver = IF job[w].ph \in Writing THEN {w} ELSE {}
  BY <1>4 DEF Saver, Writing
<1> QED BY <1>1, <1>2, <1>3, <1>4, <1>5

LEMMA NoneBusy ==
  ASSUME TypeInv, \A v \in Threads : ~Busy(v)
  PROVE  Saver = {} /\ Alone /\ \A v \in Threads : job[v].op = "none" /\ job[v].ph = "done"
<1>1. \A v \in Threads : job[v].op = "none" /\ job[v].ph = "done"
  BY Now DEF Busy, Shape
<1> QED BY <1>1 DEF Saver, Alone, Busy

(* A thread that is done does not matter. *)
LEMMA DoneFits ==
  ASSUME NEW j, j.ph = "done"
  PROVE  Fitting(j)
BY DEF Fitting, Writing

(* One change moved: what is left to show. *)
LEMMA KeptBy ==
  ASSUME NEW w \in Threads, Untouched(w),
         \A v \in Threads \ {w} : job[v].op = "none" /\ job[v].ph = "done",
         Fitting(job[w])', Registers',
         job'[w].ph \notin Writing =>
           \/ flash'.flag = Magic /\ GoodCopy(OnFlash)'
           \/ flash'.flag = Blank /\ power' = "off"
  PROVE  Kept' /\ Saver' = IF job'[w].ph \in Writing THEN {w} ELSE {}
<1>1. \A v \in Threads \ {w} : job'[v].op = "none" /\ job'[v].ph = "done"
  BY DEF Untouched
<1>2. Alone'
  BY <1>1 DEF Alone, Busy
<1>3. (\A v \in Threads : Fitting(job[v]))'
  BY <1>1 DEF Fitting, Writing
<1>4. Saver' = IF job'[w].ph \in Writing THEN {w} ELSE {}
  BY <1>1 DEF Saver, Writing
<1>5. Rest'
  BY <1>4 DEF Rest
<1> QED BY <1>2, <1>3, <1>4, <1>5 DEF Kept

(* The sector while a change has not begun to write. *)
LEMMA AtRest ==
  ASSUME TypeInv, Kept, power # "off", Saver = {}
  PROVE  flash.flag = Magic /\ GoodCopy(OnFlash) /\ OnFlash \in Copies
         /\ flash.mode \in Modes \cup {NoMode}
         /\ \A m \in Modes : flash.set[m] \in Sets /\ (m \in typed \/ GoodSet(flash.set[m]))
<1>1. flash \in Sector
  BY Now
<1>2. flash.flag = Magic /\ GoodCopy(OnFlash)
  BY DEF Kept, Rest
<1>3. OnFlash \in Copies
  BY <1>1 DEF OnFlash, Sector, Copies
<1> QED BY <1>1, <1>2, <1>3 DEF OnFlash, GoodCopy, Sector

LEMMA RegistersKept ==
  ASSUME Registers, UNCHANGED <<power, pmode, ram, drv, axes, typed>>,
         power' # "off" /\ (\A w \in Threads : ~Busy(w)') => pmode' = flash'.mode
  PROVE  Registers'
BY DEF Registers

LEMMA ReadKept ==
  ASSUME TypeInv, Kept, NEW w \in Threads, ReadSector(w)
  PROVE  /\ Kept' /\ Saver = {} /\ flash' = flash /\ ram' = ram
         /\ \/ Saver' = {}
            \/ /\ Saver' = {w}
               /\ job'[w].copy.mode \in Modes \cup {NoMode} /\ job'[w].copy.set = flash.set
<1>1. CpuFor(w) /\ job[w].ph = "read"
      /\ UNCHANGED <<flash, locked, power, pmode, ram, drv, axes, typed>>
  BY DEF ReadSector, gsnr
<1>2. /\ Shape(job[w]) /\ Saver = {} /\ Fitting(job[w]) /\ Registers
      /\ \A v \in Threads \ {w} : job[v].op = "none" /\ job[v].ph = "done"
  BY <1>1, Sole DEF Kept, Writing
<1>3. power # "off"
  BY <1>1 DEF CpuFor
<1>4. flash.flag = Magic /\ GoodCopy(OnFlash)
  BY <1>2, <1>3, AtRest
<1>5. /\ job'[w].op = job[w].op /\ job'[w].val = job[w].val /\ job'[w].at = job[w].at
      /\ job'[w].ph = IF job[w].op = "mode" THEN "open" ELSE "apply"
      /\ job'[w].copy = [mode |-> IF job[w].op = "mode" THEN job[w].val ELSE flash.mode,
                         set  |-> flash.set]
      /\ Untouched(w)
  BY ReadTyped DEF Moves
<1>6. Busy(w)'
  BY <1>1, <1>2, <1>5 DEF Busy, Shape
<1>7. Registers'
  BY <1>1, <1>2, <1>6, RegistersKept
<1>8. CASE job[w].op = "mode"
  <2>1. GoodCopy(job[w].copy)'
    BY <1>1, <1>2, <1>4, <1>5, <1>8 DEF GoodCopy, OnFlash, Shape
  <2>2. job'[w].ph = "open" /\ job'[w].at = 0 /\ pmode' = job'[w].copy.mode
    BY <1>1, <1>2, <1>5, <1>8 DEF Fitting
  <2>3. Fitting(job[w])'
    BY <2>1, <2>2 DEF Fitting, Progress, Writing
  <2>4. "open" \in Writing
    BY DEF Writing
  <2>5. Kept' /\ Saver' = {w}
    BY <1>2, <1>5, <1>7, <2>2, <2>3, <2>4, KeptBy
  <2>6. job'[w].copy.mode \in Modes \cup {NoMode} /\ job'[w].copy.set = flash.set
    BY <1>2, <1>5, <1>8 DEF Shape
  <2> QED BY <1>1, <1>2, <2>5, <2>6
<1>9. CASE job[w].op # "mode"
  <2>1. job'[w].ph = "apply" /\ job'[w].copy = OnFlash'
    BY <1>1, <1>5, <1>9 DEF OnFlash
  <2>2. Fitting(job[w])'
    BY <1>1, <1>2, <1>5, <2>1 DEF Fitting, Writing
  <2>3. "apply" \notin Writing
    BY DEF Writing
  <2>4. flash'.flag = Magic /\ GoodCopy(OnFlash)'
    BY <1>1, <1>4 DEF OnFlash, GoodCopy
  <2>5. Kept' /\ Saver' = {}
    BY <1>2, <1>5, <1>7, <2>1, <2>2, <2>3, <2>4, KeptBy
  <2> QED BY <1>1, <1>2, <2>5
<1> QED BY <1>8, <1>9

(* A change leaves a good set, or one typed at the shell. *)
LEMMA ChangeGood ==
  ASSUME TypeInv, NEW w \in Threads, job[w].op \in Edits,
         job[w].op = "cal" /\ NoMode \notin typed => axes = job[w].val,
         NEW n \in Modes, NEW s \in Sets, NEW x \in 0..2, n \in typed \/ GoodSet(s)
  PROVE  n \in Retyped(w, n) \/ GoodSet(Change(w, s, x))
<1> DEFINE t == Change(w, s, x)
           v == job[w].val
<1>1. CASE job[w].op \in {"vec", "gsnr"}
  BY <1>1 DEF Retyped
<1>2. CASE job[w].op = "step"
  <2>1. CASE v # 0
    BY <1>2, <2>1 DEF Retyped
  <2>2. CASE v = 0
    <3>1. t = [cal |-> 0, vec |-> s.vec, chan |-> s.chan]
      BY <1>2, <2>2, ChangeForms
    <3> HIDE DEF t
    <3>2. GoodSet(t)
      BY <3>1 DEF GoodSet, Mixed
    <3> QED BY <3>2 DEF t
  <2> QED BY <2>1, <2>2
<1>3. CASE job[w].op = "cal"
  <2>1. CASE NoMode \in typed
    BY <1>3, <2>1 DEF Retyped
  <2>2. CASE NoMode \notin typed
    <3>1. t = [cal |-> v, vec |-> axes, chan |-> s.chan] /\ v \in {1, 2} /\ axes = v
      BY <1>3, <2>2, ChangeForms, Now DEF Shape
    <3> HIDE DEF t, v
    <3>2. GoodSet(t)
      BY <3>1 DEF GoodSet, Mixed
    <3> QED BY <3>2 DEF t
  <2> QED BY <2>1, <2>2
<1>4. CASE job[w].op \in {"chan", "other"}
  <2>1. Retyped(w, n) = typed
    BY <1>4 DEF Retyped
  <2>2. t = [cal |-> s.cal, vec |-> s.vec, chan |-> v] \/ t = s
    BY <1>4, ChangeForms
  <2> HIDE DEF t, v
  <2>3. GoodSet(s) => GoodSet(t)
    BY <2>2 DEF GoodSet
  <2> QED BY <2>1, <2>3 DEF t
<1> QED BY <1>1, <1>2, <1>3, <1>4 DEF Edits

LEMMA ApplyKept ==
  ASSUME TypeInv, Kept, NEW w \in Threads, Apply(w)
  PROVE  /\ Kept' /\ Saver = {} /\ Saver' = {w} /\ power # "off"
         /\ flash.mode \in Modes \cup {NoMode} /\ job[w].op \in Edits
         /\ \E n \in Picks(flash.mode), x \in 0..2 :
              \/ /\ n \in Modes /\ ram' = Change(w, flash.set[n], x)
                 /\ job'[w].copy = [mode |-> flash.mode, set |-> [flash.set EXCEPT ![n] = ram']]
              \/ n \notin Modes /\ ram' = WildSet /\ job'[w].copy = OnFlash
<1>1. CpuFor(w) /\ job[w].ph = "apply" /\ UNCHANGED <<flash, locked, power, pmode, drv, axes>>
  BY DEF Apply, gsnr
<1>2. /\ Shape(job[w]) /\ Saver = {} /\ Fitting(job[w]) /\ Registers
      /\ \A v \in Threads \ {w} : job[v].op = "none" /\ job[v].ph = "done"
  BY <1>1, Sole DEF Kept, Writing
<1>3. power # "off"
  BY <1>1 DEF CpuFor
<1>4. /\ flash.flag = Magic /\ GoodCopy(OnFlash) /\ flash.mode \in Modes \cup {NoMode}
      /\ \A m \in Modes : flash.set[m] \in Sets /\ (m \in typed \/ GoodSet(flash.set[m]))
  BY <1>2, <1>3, AtRest
<1>5. job[w].op \in Edits
  BY <1>1, <1>2 DEF Shape
<1>6. job[w].copy = OnFlash /\ job[w].at = 0 /\ pmode = flash.mode
      /\ (job[w].op = "cal" /\ NoMode \notin typed => axes = job[w].val)
  BY <1>1, <1>2, <1>5 DEF Fitting, Edits
<1>7. /\ job'[w].op = job[w].op /\ job'[w].at = 0 /\ job'[w].ph = "open" /\ Untouched(w)
      /\ \E n, x : Applied(w, n, x)
  BY <1>6, ApplyTyped DEF Moves
<1>n. PICK n, x : Applied(w, n, x)
  BY <1>7
<1>8. n \in Picks(flash.mode) /\ x \in 0..2
  BY <1>6, <1>n DEF Applied
<1>9. job[w].copy.mode = flash.mode /\ job[w].copy.set = flash.set
  BY <1>6 DEF OnFlash
<1>10. /\ NoMode \notin typed' => NoMode \notin typed
       /\ GoodCopy(job[w].copy)'
       /\ pmode \in Modes \ typed' => GoodSet(ram')
       /\ \/ /\ n \in Modes /\ ram' = Change(w, flash.set[n], x)
             /\ job'[w].copy = [mode |-> flash.mode, set |-> [flash.set EXCEPT ![n] = ram']]
          \/ n \notin Modes /\ ram' = WildSet /\ job'[w].copy = OnFlash
  <2>1. CASE n \in Modes
    <3>1. /\ ram' = Change(w, flash.set[n], x) /\ typed' = Retyped(w, n)
          /\ job'[w].copy = [mode |-> flash.mode, set |-> [flash.set EXCEPT ![n] = ram']]
      BY <1>9, <1>n, <2>1 DEF Applied
    <3>2. n \in typed' \/ GoodSet(ram')
      BY <1>4, <1>5, <1>6, <1>8, <2>1, <3>1, ChangeGood
    <3>3. \A m \in (Modes \cup {NoMode}) \ {n} : m \in typed => m \in typed'
      BY <3>1 DEF Retyped
    <3>4. n # NoMode
      BY <2>1, ModesFacts
    <3>5. flash.set \in [Modes -> Sets]
      BY Now DEF Sector
    <3>6. \A m \in Modes \ typed' : GoodSet(job'[w].copy.set[m])
      <4> TAKE m \in Modes \ typed'
      <4>1. CASE m = n
        BY <2>1, <3>1, <3>2, <3>5, <4>1
      <4>2. CASE m # n
        BY <1>4, <3>1, <3>3, <3>5, <4>2
      <4> QED BY <4>1, <4>2
    <3>7. GoodCopy(job[w].copy)'
      BY <1>4, <3>1, <3>6 DEF GoodCopy
    <3>8. pmode \in Modes => pmode = n
      BY <1>6, <1>8 DEF Picks
    <3> QED BY <2>1, <3>1, <3>2, <3>3, <3>4, <3>7, <3>8
  <2>2. CASE n \notin Modes
    <3>1. ram' = WildSet /\ typed' = typed /\ job'[w].copy = OnFlash
      BY <1>6, <1>n, <2>2 DEF Applied
    <3>2. pmode \notin Modes
      BY <1>6, <1>8, <2>2 DEF Picks
    <3>3. GoodCopy(job[w].copy)'
      BY <1>4, <3>1 DEF GoodCopy
    <3> QED BY <2>2, <3>1, <3>2, <3>3
  <2> QED BY <2>1, <2>2
<1>11. Fitting(job[w])'
  <2>1. pmode' = job'[w].copy.mode
    BY <1>1, <1>6, <1>10 DEF OnFlash
  <2> QED BY <1>7, <1>10, <2>1 DEF Fitting, Progress, Writing
<1>12. Busy(w)'
  BY <1>5, <1>7 DEF Busy, Edits
<1>13. Registers'
  BY <1>1, <1>2, <1>3, <1>10, <1>12 DEF Registers
<1>14. "open" \in Writing
  BY DEF Writing
<1>15. Kept' /\ Saver' = {w}
  BY <1>2, <1>7, <1>11, <1>13, <1>14, KeptBy
<1> QED BY <1>2, <1>3, <1>4, <1>5, <1>8, <1>10, <1>15

(* Programming a piece changes that piece only. *)
AfterFirst(k, c, F) ==
  /\ F.flag = IF k = 1 THEN FirstHalf(flash.flag, Magic) ELSE flash.flag
  /\ F.mode = IF k = 2 THEN FirstHalf(flash.mode, c.mode) ELSE flash.mode
  /\ \A m \in Modes \ {k - 2} : F.set[m] = flash.set[m]
  /\ k > 2 => F.set[k - 2] = [cal  |-> And(flash.set[k - 2].cal, c.set[k - 2].cal),
                              vec  |-> And(flash.set[k - 2].vec, c.set[k - 2].vec),
                              chan |-> flash.set[k - 2].chan]

AfterSecond(k, c, G) ==
  /\ G.flag = IF k = 1 THEN SecondHalf(flash.flag, Magic) ELSE flash.flag
  /\ G.mode = IF k = 2 THEN SecondHalf(flash.mode, c.mode) ELSE flash.mode
  /\ \A m \in Modes \ {k - 2} : G.set[m] = flash.set[m]
  /\ k > 2 => G.set[k - 2] = [cal  |-> flash.set[k - 2].cal,
                              vec  |-> flash.set[k - 2].vec,
                              chan |-> And(flash.set[k - 2].chan, c.set[k - 2].chan)]

LEMMA Pieces ==
  ASSUME TypeInv, NEW k \in 1..Last, NEW c \in Copies
  PROVE  AfterFirst(k, c, ProgramFirst(k, c)) /\ AfterSecond(k, c, ProgramSecond(k, c))
<1>1. flash \in Sector
  BY Now
<1>2. flash = [flag |-> flash.flag, mode |-> flash.mode, set |-> flash.set]
  BY <1>1 DEF Sector
<1>3. CASE k = 1
  <2>1. /\ ProgramFirst(k, c) = [flash EXCEPT !.flag = FirstHalf(flash.flag, Magic)]
        /\ ProgramSecond(k, c) = [flash EXCEPT !.flag = SecondHalf(flash.flag, Magic)]
    BY <1>1, <1>3 DEF ProgramFirst, ProgramSecond, Sector
  <2> QED BY <1>2, <1>3, <2>1 DEF AfterFirst, AfterSecond
<1>4. CASE k = 2
  <2>1. /\ ProgramFirst(k, c) = [flash EXCEPT !.mode = FirstHalf(flash.mode, c.mode)]
        /\ ProgramSecond(k, c) = [flash EXCEPT !.mode = SecondHalf(flash.mode, c.mode)]
    BY <1>1, <1>4 DEF ProgramFirst, ProgramSecond, Sector
  <2> QED BY <1>2, <1>4, <2>1 DEF AfterFirst, AfterSecond
<1>5. CASE k # 1 /\ k # 2
  <2> DEFINE m == k - 2
             s == flash.set[m]
             d == c.set[m]
             a == And(s.cal, d.cal)
             v == And(s.vec, d.vec)
             n == And(s.chan, d.chan)
             f == [cal |-> a, vec |-> v, chan |-> s.chan]
             g == [cal |-> s.cal, vec |-> s.vec, chan |-> n]
  <2>1. m \in Modes /\ s \in Sets /\ flash.set \in [Modes -> Sets] /\ k > 2
    BY <1>1, <1>5, ModesFacts DEF Sector
  <2>2. s = [cal |-> s.cal, vec |-> s.vec, chan |-> s.chan]
    BY <2>1 DEF Sets
  <2>3. [s EXCEPT !.cal = And(@, d.cal), !.vec = And(@, d.vec)] = f
    <3> DEFINE t == [s EXCEPT !.cal = a]
    <3>1. t = [cal |-> a, vec |-> s.vec, chan |-> s.chan]
      <4> HIDE DEF a
      <4> QED BY <2>2
    <3>2. [s EXCEPT !.cal = And(@, d.cal), !.vec = And(@, d.vec)] = [t EXCEPT !.vec = v]
      BY <2>2
    <3>3. [t EXCEPT !.vec = v] = f
      <4> HIDE DEF t, a, v
      <4> QED BY <3>1
    <3> QED BY <3>2, <3>3
  <2>4. [s EXCEPT !.chan = And(@, d.chan)] = g
    <3>1. [s EXCEPT !.chan = And(@, d.chan)] = [s EXCEPT !.chan = n]
      BY <2>2
    <3>2. [s EXCEPT !.chan = n] = g
      <4> HIDE DEF n
      <4> QED BY <2>2
    <3> QED BY <3>1, <3>2
  <2>5. ProgramFirst(k, c) =
          [flash EXCEPT !.set = [flash.set EXCEPT ![m] =
             [s EXCEPT !.cal = And(@, d.cal), !.vec = And(@, d.vec)]]]
    <3> DEFINE t == [s EXCEPT !.cal = a]
               p == [flash EXCEPT !.set = [flash.set EXCEPT ![m] = t]]
    <3>1. ProgramFirst(k, c) = [p EXCEPT !.set[m].vec = And(@, d.vec)]
      BY <1>5 DEF ProgramFirst
    <3>2. p.set = [flash.set EXCEPT ![m] = t] /\ p.set[m] = t /\ t.vec = s.vec
      BY <1>1, <2>1 DEF Sector, Sets
    <3>3. [p EXCEPT !.set[m].vec = And(@, d.vec)]
            = [p EXCEPT !.set = [p.set EXCEPT ![m] = [t EXCEPT !.vec = v]]]
      <4> HIDE DEF t, p
      <4> QED BY <3>2
    <3>4. [p EXCEPT !.set = [p.set EXCEPT ![m] = [t EXCEPT !.vec = v]]]
            = [flash EXCEPT !.set = [flash.set EXCEPT ![m] = [t EXCEPT !.vec = v]]]
      BY <1>1, <2>1, <3>2 DEF Sector
    <3>5. [t EXCEPT !.vec = v] = [s EXCEPT !.cal = And(@, d.cal), !.vec = And(@, d.vec)]
      BY <2>2
    <3> HIDE DEF t, p
    <3> QED BY <3>1, <3>3, <3>4, <3>5
  <2>6. ProgramSecond(k, c) =
          [flash EXCEPT !.set = [flash.set EXCEPT ![m] = [s EXCEPT !.chan = And(@, d.chan)]]]
    BY <1>1, <1>5, <2>1 DEF ProgramSecond, Sets
  <2>7. /\ ProgramFirst(k, c) = [flash EXCEPT !.set = [flash.set EXCEPT ![m] = f]]
        /\ ProgramSecond(k, c) = [flash EXCEPT !.set = [flash.set EXCEPT ![m] = g]]
    BY <2>3, <2>4, <2>5, <2>6
  <2> HIDE DEF f, g
  <2>8. /\ ProgramFirst(k, c) =
              [flag |-> flash.flag, mode |-> flash.mode, set |-> [flash.set EXCEPT ![m] = f]]
        /\ ProgramSecond(k, c) =
              [flag |-> flash.flag, mode |-> flash.mode, set |-> [flash.set EXCEPT ![m] = g]]
    BY <1>2, <2>7
  <2>9. /\ ProgramFirst(k, c).set[m] = f /\ ProgramSecond(k, c).set[m] = g
        /\ \A i \in Modes \ {m} : /\ ProgramFirst(k, c).set[i] = flash.set[i]
                                  /\ ProgramSecond(k, c).set[i] = flash.set[i]
    BY <2>1, <2>8
  <2> QED BY <1>5, <2>8, <2>9 DEF f, g, AfterFirst, AfterSecond
<1> QED BY <1>3, <1>4, <1>5

(* Over a blank piece, the one half and then the other. *)
LEMMA FirstPiece ==
  ASSUME TypeInv, NEW k \in 1..Last, NEW c \in Copies, flash' = ProgramFirst(k, c),
         IsBlank(k)
  PROVE  /\ IsHalf(k, c)'
         /\ \A i \in 1..Last \ {k} : /\ IsDone(i, c) => IsDone(i, c)'
                                     /\ IsBlank(i) => IsBlank(i)'
<1>1. /\ flash'.flag = IF k = 1 THEN FirstHalf(flash.flag, Magic) ELSE flash.flag
      /\ flash'.mode = IF k = 2 THEN FirstHalf(flash.mode, c.mode) ELSE flash.mode
      /\ \A m \in Modes \ {k - 2} : flash'.set[m] = flash.set[m]
      /\ k > 2 => flash'.set[k - 2] = [cal  |-> And(flash.set[k - 2].cal, c.set[k - 2].cal),
                                       vec  |-> And(flash.set[k - 2].vec, c.set[k - 2].vec),
                                       chan |-> flash.set[k - 2].chan]
  <2>1. AfterFirst(k, c, ProgramFirst(k, c))
    BY Pieces
  <2> QED BY <2>1 DEF AfterFirst
<1>2. \A i \in 1..Last : i > 2 => i - 2 \in Modes
  BY ModesFacts
<1>3. IsHalf(k, c)'
  <2>1. \A y : And(Blank, y) = y /\ FirstHalf(Blank, y) = Half
    BY DEF And, FirstHalf
  <2> QED BY <1>1, <2>1 DEF IsHalf, IsBlank, BlankSet
<1>4. \A i \in 1..Last \ {k} : i > 2 => flash'.set[i - 2] = flash.set[i - 2]
  BY <1>1, <1>2
<1>5. \A i \in 1..Last \ {k} : /\ IsDone(i, c) => IsDone(i, c)'
                               /\ IsBlank(i) => IsBlank(i)'
  BY <1>1, <1>4 DEF IsDone, IsBlank
<1> QED BY <1>3, <1>5

LEMMA SecondPiece ==
  ASSUME TypeInv, NEW k \in 1..Last, NEW c \in Copies, flash' = ProgramSecond(k, c),
         IsHalf(k, c)
  PROVE  /\ IsDone(k, c)'
         /\ \A i \in 1..Last \ {k} : /\ IsDone(i, c) => IsDone(i, c)'
                                     /\ IsBlank(i) => IsBlank(i)'
<1>1. /\ flash'.flag = IF k = 1 THEN SecondHalf(flash.flag, Magic) ELSE flash.flag
      /\ flash'.mode = IF k = 2 THEN SecondHalf(flash.mode, c.mode) ELSE flash.mode
      /\ \A m \in Modes \ {k - 2} : flash'.set[m] = flash.set[m]
      /\ k > 2 => flash'.set[k - 2] = [cal  |-> flash.set[k - 2].cal,
                                       vec  |-> flash.set[k - 2].vec,
                                       chan |-> And(flash.set[k - 2].chan, c.set[k - 2].chan)]
  <2>1. AfterSecond(k, c, ProgramSecond(k, c))
    BY Pieces
  <2> QED BY <2>1 DEF AfterSecond
<1>2. \A i \in 1..Last : i > 2 => i - 2 \in Modes
  BY ModesFacts
<1>3. IsDone(k, c)'
  <2>1. \A y : And(Blank, y) = y /\ SecondHalf(Half, y) = y
    BY DEF And, SecondHalf
  <2>2. k > 2 => c.set[k - 2] = [cal |-> c.set[k - 2].cal, vec |-> c.set[k - 2].vec,
                                 chan |-> c.set[k - 2].chan]
    BY <1>2 DEF Copies, Sets
  <2> QED BY <1>1, <2>1, <2>2 DEF IsHalf, IsDone
<1>4. \A i \in 1..Last \ {k} : i > 2 => flash'.set[i - 2] = flash.set[i - 2]
  BY <1>1, <1>2
<1>5. \A i \in 1..Last \ {k} : /\ IsDone(i, c) => IsDone(i, c)'
                               /\ IsBlank(i) => IsBlank(i)'
  BY <1>1, <1>4 DEF IsDone, IsBlank
<1> QED BY <1>3, <1>5

LEMMA AllBlank ==
  ASSUME flash' = Erased
  PROVE  \A k \in 1..Last : IsBlank(k)'
<1>1. \A k \in 1..Last : k > 2 => k - 2 \in Modes
  BY ModesFacts
<1>2. flash'.flag = Blank /\ flash'.mode = Blank /\ \A m \in Modes : flash'.set[m] = BlankSet
  BY DEF Erased
<1> QED BY <1>1, <1>2 DEF IsBlank

(* All pieces done: the sector is the copy. *)
LEMMA AllDone ==
  ASSUME flash' \in Sector, NEW c \in Copies, \A k \in 1..Last : IsDone(k, c)'
  PROVE  flash'.flag = Magic /\ OnFlash' = c
<1>1. 1 \in 1..Last /\ 2 \in 1..Last /\ \A m \in Modes : m + 2 \in 1..Last /\ m + 2 > 2
                                                      /\ (m + 2) - 2 = m
  BY ModesFacts DEF Modes, Last
<1>2. flash'.flag = Magic /\ flash'.mode = c.mode
  BY <1>1 DEF IsDone
<1>3. \A m \in Modes : flash'.set[m] = c.set[m]
  BY <1>1 DEF IsDone
<1>4. flash'.set \in [Modes -> Sets] /\ c.set \in [Modes -> Sets]
      /\ c = [mode |-> c.mode, set |-> c.set]
  BY DEF Sector, Copies
<1>5. flash'.set = c.set
  BY <1>3, <1>4
<1> QED BY <1>2, <1>4, <1>5 DEF OnFlash

(* A step of a change that writes, but for its last. *)
LEMMA WriteGoesOn ==
  ASSUME TypeInv, Kept, NEW w \in Threads, job[w].ph \in Writing, CpuFor(w), Untouched(w),
         UNCHANGED <<power, pmode, ram, drv, axes, typed>>,
         job'[w].op = job[w].op, job'[w].copy = job[w].copy, job'[w].ph \in Writing,
         Progress(job[w])'
  PROVE  Kept' /\ Saver = {w} /\ Saver' = {w}
<1>1. job[w].ph # "done"
  BY DEF Writing
<1>2. /\ Busy(w) /\ Saver = {w} /\ Fitting(job[w]) /\ Registers
      /\ \A v \in Threads \ {w} : job[v].op = "none" /\ job[v].ph = "done"
  BY <1>1, Sole DEF Kept
<1>3. Busy(w)'
  BY <1>2 DEF Busy
<1>4. Registers'
  BY <1>2, <1>3, RegistersKept
<1>5. Fitting(job[w])'
  <2>1. pmode' = job'[w].copy.mode
    BY <1>2 DEF Fitting
  <2> QED BY <2>1 DEF Fitting, Writing
<1> QED BY <1>2, <1>4, <1>5, KeptBy

(* Where a change that writes stands. *)
LEMMA Writer ==
  ASSUME TypeInv, Kept, NEW w \in Threads, job[w].ph \in Writing
  PROVE  /\ Progress(job[w]) /\ Shape(job[w]) /\ job[w].at \in 0..Last /\ job[w].copy \in Copies
         /\ pmode = job[w].copy.mode /\ Saver = {w} /\ Registers
         /\ \A v \in Threads \ {w} : job[v].op = "none" /\ job[v].ph = "done"
<1>1. job[w].ph # "done"
  BY DEF Writing
<1>2. job[w] \in Jobs /\ Shape(job[w]) /\ Saver = {w} /\ Registers /\ Fitting(job[w])
      /\ \A v \in Threads \ {w} : job[v].op = "none" /\ job[v].ph = "done"
  BY <1>1, Sole DEF Kept
<1> QED BY <1>2 DEF Fitting, Jobs

LEMMA OpenKept ==
  ASSUME TypeInv, Kept, NEW w \in Threads, Open(w)
  PROVE  Kept' /\ Saver = {w} /\ Saver' = {w} /\ job'[w].copy = job[w].copy
<1>1. CpuFor(w) /\ job[w].ph = "open" /\ locked' = FALSE
      /\ UNCHANGED <<flash, power, pmode, ram, drv, axes, typed>>
  BY DEF Open, gsnr
<1>2. job[w].ph \in Writing
  BY <1>1 DEF Writing
<1>3. Progress(job[w])
  BY <1>2, Writer
<1>4. /\ job'[w].op = job[w].op /\ job'[w].at = job[w].at /\ job'[w].copy = job[w].copy
      /\ job'[w].ph = IF job[w].at = 0 THEN "erase" ELSE "first"
      /\ Untouched(w)
  BY OpenTyped DEF Moves
<1>5. Progress(job[w])'
  <2>1. job'[w].ph # "second"
    BY <1>4
  <2>2. \A k : (IsBlank(k)' <=> IsBlank(k)) /\ \A c : IsDone(k, c)' <=> IsDone(k, c)
    BY <1>1 DEF IsDone, IsBlank
  <2>3. GoodCopy(job[w].copy)'
    BY <1>1, <1>3, <1>4 DEF Progress, GoodCopy
  <2> QED BY <1>1, <1>3, <1>4, <2>1, <2>2, <2>3 DEF Progress
<1>6. job'[w].ph \in Writing
  BY <1>4 DEF Writing
<1> QED BY <1>1, <1>2, <1>4, <1>5, <1>6, WriteGoesOn

LEMMA EraseKept ==
  ASSUME TypeInv, Kept, NEW w \in Threads, Erase(w)
  PROVE  Kept' /\ Saver = {w} /\ Saver' = {w} /\ job'[w].copy = job[w].copy
<1>1. CpuFor(w) /\ job[w].ph = "erase" /\ Close(w)
      /\ UNCHANGED <<power, pmode, ram, drv, axes, typed>>
  BY DEF Erase, gsnr
<1>2. job[w].ph \in Writing
  BY <1>1 DEF Writing
<1>3. Progress(job[w]) /\ job[w].at = 0 /\ locked = FALSE
  BY <1>1, <1>2, Writer DEF Shape, Progress
<1>4. flash' = Erased
  BY <1>3 DEF Erase
<1>5. /\ job'[w].op = job[w].op /\ job'[w].at = 1 /\ job'[w].copy = job[w].copy
      /\ job'[w].ph = "open" /\ Untouched(w)
  <2>1. 0 < Last /\ 0 # Last
    BY ModesFacts
  <2>2. /\ Untouched(w)
        /\ \/ /\ job'[w].op = job[w].op /\ job'[w].at = job[w].at + 1 /\ job'[w].ph = "open"
              /\ job'[w].copy = job[w].copy
           \/ job[w].at = Last
    BY <1>1, CloseJob
  <2> QED BY <1>3, <2>1, <2>2
<1>6. Progress(job[w])'
  <2>1. GoodCopy(job[w].copy)'
    BY <1>1, <1>3, <1>5 DEF Progress, GoodCopy
  <2>2. \A k \in 1..Last : IsBlank(k)' /\ ~(k < 1)
    BY <1>4, AllBlank
  <2> QED BY <1>5, <2>1, <2>2 DEF Progress
<1>7. job'[w].ph \in Writing
  BY <1>5 DEF Writing
<1> QED BY <1>1, <1>2, <1>5, <1>6, <1>7, WriteGoesOn

LEMMA FirstKept ==
  ASSUME TypeInv, Kept, NEW w \in Threads, First(w)
  PROVE  Kept' /\ Saver = {w} /\ Saver' = {w} /\ job'[w].copy = job[w].copy
<1>1. CpuFor(w) /\ job[w].ph = "first" /\ UNCHANGED <<power, pmode, ram, drv, axes, typed>>
  BY DEF First, gsnr
<1>2. job[w].ph \in Writing
  BY <1>1 DEF Writing
<1>3. /\ Progress(job[w]) /\ job[w].at \in 1..Last /\ locked = FALSE /\ job[w].copy \in Copies
  <2>1. Progress(job[w]) /\ Shape(job[w]) /\ job[w].at \in 0..Last /\ job[w].copy \in Copies
    BY <1>2, Writer
  <2>2. job[w].at >= 1 /\ locked = FALSE
    BY <1>1, <2>1 DEF Shape, Progress
  <2> QED BY <2>1, <2>2, ModesFacts
<1>k. PICK k \in 1..Last : k = job[w].at
  BY <1>3
<1>c. PICK c \in Copies : c = job[w].copy
  BY <1>3
<1>4. flash' = ProgramFirst(k, c) /\ locked' = FALSE /\ job' = [job EXCEPT ![w].ph = "second"]
  BY <1>3, <1>k, <1>c DEF First, Goto
<1>5. /\ \A v \in Threads \ {w} : job'[v] = job[v]
      /\ job'[w].op = job[w].op /\ job'[w].at = k /\ job'[w].ph = "second" /\ job'[w].copy = c
  <2>1. "second" \in Phases
    BY DEF Phases
  <2> QED BY <1>4, <1>k, <1>c, <2>1, Now, GotoJob
<1>6. IsBlank(k)
  BY <1>1, <1>3, <1>k, <1>c DEF Progress
<1>7. /\ IsHalf(k, c)'
      /\ \A i \in 1..Last \ {k} : /\ IsDone(i, c) => IsDone(i, c)'
                                  /\ IsBlank(i) => IsBlank(i)'
  BY <1>4, <1>6, FirstPiece
<1>8. Progress(job[w])'
  <2>1. GoodCopy(job[w].copy)'
    BY <1>1, <1>3, <1>5, <1>c DEF Progress, GoodCopy
  <2>2. \A i \in 1..Last : /\ i < k => IsDone(i, c)' /\ i # k
                           /\ i > k => IsBlank(i)' /\ i # k
    BY <1>3, <1>7, <1>k, <1>c DEF Progress
  <2> QED BY <1>4, <1>5, <1>7, <2>1, <2>2 DEF Progress
<1>9. job'[w].ph \in Writing /\ Untouched(w)
  BY <1>5 DEF Writing, Untouched
<1> QED BY <1>1, <1>2, <1>5, <1>8, <1>9, <1>c, WriteGoesOn

LEMMA SecondKept ==
  ASSUME TypeInv, Kept, NEW w \in Threads, Second(w)
  PROVE  /\ Kept' /\ Saver = {w} /\ ram' = ram
         /\ \/ Saver' = {w} /\ job'[w].copy = job[w].copy
            \/ Saver' = {} /\ flash'.flag = Magic /\ OnFlash' = job[w].copy
<1>1. CpuFor(w) /\ job[w].ph = "second" /\ Close(w)
      /\ UNCHANGED <<power, pmode, ram, drv, axes, typed>>
  BY DEF Second, gsnr
<1>2. job[w].ph \in Writing
  BY <1>1 DEF Writing
<1>3. /\ Progress(job[w]) /\ job[w].at \in 1..Last /\ locked = FALSE /\ job[w].copy \in Copies
      /\ pmode = job[w].copy.mode /\ Saver = {w} /\ Registers
      /\ \A v \in Threads \ {w} : job[v].op = "none" /\ job[v].ph = "done"
  <2>1. /\ Progress(job[w]) /\ Shape(job[w]) /\ job[w].at \in 0..Last /\ job[w].copy \in Copies
        /\ pmode = job[w].copy.mode /\ Saver = {w} /\ Registers
        /\ \A v \in Threads \ {w} : job[v].op = "none" /\ job[v].ph = "done"
    BY <1>2, Writer
  <2>2. job[w].at >= 1 /\ locked = FALSE
    BY <1>1, <2>1 DEF Shape, Progress
  <2> QED BY <2>1, <2>2, ModesFacts
<1>k. PICK k \in 1..Last : k = job[w].at
  BY <1>3
<1>c. PICK c \in Copies : c = job[w].copy
  BY <1>3
<1>4. flash' = ProgramSecond(k, c) /\ k \in 1..Last /\ c \in Copies
  BY <1>3, <1>k, <1>c DEF Second
<1>5. IsHalf(k, c)
  BY <1>1, <1>3, <1>k, <1>c DEF Progress
<1>a. GoodCopy(c) /\ \A i \in 1..Last : (i < k => IsDone(i, c)) /\ (i > k => IsBlank(i))
  BY <1>3, <1>k, <1>c DEF Progress
<1>b. /\ Untouched(w)
      /\ \/ /\ job[w].at < Last
            /\ job'[w].op = job[w].op /\ job'[w].at = k + 1 /\ job'[w].ph = "open"
            /\ job'[w].copy = c
         \/ job[w].at = Last /\ job'[w] = NoJob
  BY <1>1, <1>k, <1>c, CloseJob
<1>6. /\ IsDone(k, c)'
      /\ \A i \in 1..Last \ {k} : /\ IsDone(i, c) => IsDone(i, c)'
                                  /\ IsBlank(i) => IsBlank(i)'
  BY <1>4, <1>5, SecondPiece
<1>7. \A i \in 1..Last : /\ i < k + 1 => IsDone(i, c)'
                         /\ i > k => IsBlank(i)'
  <2>1. \A i \in 1..Last : (i < k + 1 => i < k \/ i = k) /\ (i < k \/ i > k => i # k)
    BY <1>4
  <2> QED BY <1>6, <1>a, <2>1
<1>8. Untouched(w)
  BY <1>b
<1>9. CASE job[w].at < Last
  <2>1. /\ job'[w].op = job[w].op /\ job'[w].at = k + 1 /\ job'[w].ph = "open"
        /\ job'[w].copy = c
    <3>1. job[w].at # Last
      BY <1>3, <1>9, ModesFacts
    <3> QED BY <1>b, <3>1
  <2>2. Progress(job[w])'
    <3>1. GoodCopy(job[w].copy)'
      BY <1>1, <1>a, <2>1 DEF GoodCopy
    <3>2. \A i \in 1..Last : /\ i > k + 1 => IsBlank(i)'
                             /\ i = k + 1 => IsBlank(i)'
      BY <1>4, <1>7
    <3> QED BY <1>7, <2>1, <3>1, <3>2 DEF Progress
  <2>3. job'[w].ph \in Writing
    BY <2>1 DEF Writing
  <2> QED BY <1>1, <1>2, <1>8, <2>1, <2>2, <2>3, <1>c, WriteGoesOn
<1>10. CASE ~(job[w].at < Last)
  <2>1. job'[w] = NoJob /\ k = Last
    BY <1>b, <1>10, <1>k
  <2>2. job'[w].ph = "done" /\ job'[w].op = "none"
    BY <2>1 DEF NoJob
  <2>3. flash'.flag = Magic /\ OnFlash' = c
    <3>1. \A i \in 1..Last : IsDone(i, c)'
      <4>1. \A i \in 1..Last : i < k + 1
        BY <1>4, <2>1
      <4> QED BY <1>7, <4>1
    <3>2. flash' \in Sector
      <4>1. TypeInv'
        BY WriteTyped
      <4> QED BY <4>1 DEF TypeInv, TypeOK, Sector
    <3> QED BY <1>4, <3>1, <3>2, AllDone
  <2>4. GoodCopy(OnFlash)'
    BY <1>1, <1>a, <2>3 DEF GoodCopy
  <2>5. pmode' = flash'.mode
    BY <1>1, <1>3, <1>c, <2>3 DEF OnFlash
  <2>6. Registers'
    BY <1>1, <1>3, <2>5, RegistersKept
  <2>7. Fitting(job[w])' /\ job'[w].ph \notin Writing
    BY <2>2 DEF Fitting, Writing
  <2>8. Kept' /\ Saver' = {}
    BY <1>3, <1>8, <2>3, <2>4, <2>6, <2>7, KeptBy
  <2> QED BY <1>1, <1>3, <1>c, <2>3, <2>8
<1> QED BY <1>9, <1>10

-----------------------------------------------------------------------------
LEMMA DefaultsGood ==
  /\ Defaults.mode = CUSTOM /\ CUSTOM \in Modes
  /\ \A m \in Modes : Defaults.set[m] = Default(m) /\ GoodSet(Default(m))
BY ModesFacts DEF GoodSet, Default, Defaults, Mixed

(* A change that begins while no other is under way. *)
LEMMA BeginKept ==
  ASSUME TypeInv, Kept, power = "up", \A u \in Threads : ~Busy(u),
         NEW w \in Threads, Untouched(w), UNCHANGED <<flash, power, ram>>,
         job'[w].op \in Ops, job'[w].at = 0, job'[w].copy = Defaults,
         job'[w].ph \in {"read", "open"},
         job'[w].ph = "open" => pmode' = CUSTOM,
         job'[w].ph = "read" => pmode' = IF job'[w].op = "mode" THEN job'[w].val ELSE pmode,
         job'[w].ph = "read" => typed \cap Modes \subseteq typed',
         job'[w].ph = "read" /\ job'[w].op = "cal" /\ NoMode \notin typed' => axes' = job'[w].val,
         drv' \in {1, 2} /\ NoMode \notin typed' => axes' = drv'
  PROVE  /\ Kept' /\ Saver = {} /\ flash.flag = Magic
         /\ Saver' = IF job'[w].ph = "open" THEN {w} ELSE {}
<1>1. Saver = {} /\ \A u \in Threads : job[u].op = "none" /\ job[u].ph = "done"
  BY NoneBusy
<1>2. flash.flag = Magic /\ GoodCopy(OnFlash) /\ pmode = flash.mode
  BY <1>1, AtRest DEF Kept, Registers
<1>3. Busy(w)'
  BY DEF Busy, Ops
<1>4. Registers'
  BY <1>3 DEF Registers
<1>5. job'[w].ph = "read" => flash'.flag = Magic /\ GoodCopy(OnFlash)'
  BY <1>2 DEF GoodCopy, OnFlash
<1>6. Fitting(job[w])'
  <2>1. CASE job'[w].ph = "read"
    BY <1>2, <2>1 DEF Fitting, Writing
  <2>2. CASE job'[w].ph = "open"
    <3>1. GoodCopy(job[w].copy)'
      BY DefaultsGood DEF GoodCopy
    <3>2. pmode' = job'[w].copy.mode
      BY <2>2, DefaultsGood
    <3> QED BY <2>2, <3>1, <3>2 DEF Fitting, Progress, Writing
  <2> QED BY <2>1, <2>2
<1>7. job'[w].ph \in Writing <=> job'[w].ph = "open"
  BY DEF Writing
<1> QED BY <1>1, <1>2, <1>4, <1>5, <1>6, <1>7, KeptBy

(* The change that has begun. *)
Begun(w, op, v, ph) ==
  /\ Untouched(w) /\ job'[w].op = op /\ job'[w].val = v /\ job'[w].at = 0
  /\ job'[w].ph = ph /\ job'[w].copy = Defaults

LEMMA BeginBegun ==
  ASSUME TypeInv, NEW w \in Threads, NEW op \in Ops, NEW v \in 0..255,
         NEW ph \in Phases, Begin(w, op, v, ph, Defaults)
  PROVE  Begun(w, op, v, ph)
<1>1. HasBegun(w, op, v, ph, Defaults)
  BY BeginJob, DefaultsTyped
<1> QED BY <1>1 DEF HasBegun, Begun

(* Who begins a change and is not hurt by it has been alone. *)
LEMMA BeginAlone ==
  ASSUME NEW w, NEW op, NEW v, NEW ph, Begin(w, op, v, ph, Defaults), ~hurt'
  PROVE  ~hurt /\ \A u \in Threads : ~Busy(u)
BY DEF Begin

LEMMA StartKept ==
  ASSUME TypeInv, MagicInv, KeptInv, ~hurt', Start
  PROVE  /\ Kept' /\ Saver = {} /\ flash.flag = Magic /\ UNCHANGED <<flash, ram>>
         /\ \/ Saver' = {}
            \/ \E w \in Threads : Saver' = {w} /\ job'[w].copy = Defaults
<1>1. ~hurt /\ (\A u \in Threads : ~Busy(u)) /\ UNCHANGED <<flash, power, ram>>
  BY BeginAlone DEF Start, KeyReset, ShellSet, ShellGsnr, ShellMode, ShellDefaults, Calibrate
<1>2. Kept /\ power = "up"
  BY <1>1 DEF Start, KeyReset, ShellSet, ShellGsnr, ShellMode, ShellDefaults, Calibrate, Begin, CpuFor,
              KeptInv
<1>3. drv \in {1, 2} /\ NoMode \notin typed => axes = drv
  BY <1>2 DEF Kept, Registers
<1>a. /\ "sys" \in Threads /\ "gsnr" \in Threads /\ "shell" \in Threads
      /\ "read" \in Phases /\ "open" \in Phases /\ 0 \in 0..255
      /\ "step" \in Ops /\ "cal" \in Ops /\ "mode" \in Ops /\ "def" \in Ops
      /\ Edits \subseteq Ops
  BY DEF Threads, Phases, Ops, Edits
<1>4. CASE KeyReset
  <2>1. Begin("sys", "step", 0, "read", Defaults) /\ UNCHANGED <<pmode, drv, axes, typed>>
    BY <1>4 DEF KeyReset, gsnr
  <2>2. Begun("sys", "step", 0, "read")
    BY <1>a, <2>1, BeginBegun
  <2> QED BY <1>1, <1>2, <1>3, <1>a, <2>1, <2>2, BeginKept DEF Begun
<1>5. CASE ShellSet \/ ShellGsnr
  <2>1. PICK op \in Edits \ {"cal"}, z \in 0..255 : Begin("shell", op, z, "read", Defaults)
    BY <1>5, ShellBegins
  <2>2. UNCHANGED <<pmode, drv, axes, typed>> /\ op # "cal" /\ op # "mode" /\ op \in Ops
    BY <1>5, <1>a, <2>1 DEF ShellSet, ShellGsnr, gsnr, Edits
  <2>3. Begun("shell", op, z, "read")
    BY <1>a, <2>1, <2>2, BeginBegun
  <2> QED BY <1>1, <1>2, <1>3, <1>a, <2>2, <2>3, BeginKept DEF Begun
<1>6. CASE ShellMode
  <2>1. PICK m \in Modes \cup {NoMode} :
          Begin("shell", "mode", m, "read", Defaults) /\ pmode' = m
    BY <1>6 DEF ShellMode
  <2>2. m \in 0..255 /\ UNCHANGED <<drv, axes, typed>>
    BY <1>6, ModesFacts DEF ShellMode, gsnr, NoMode
  <2>3. Begun("shell", "mode", m, "read")
    BY <1>a, <2>1, <2>2, BeginBegun
  <2> QED BY <1>1, <1>2, <1>3, <1>a, <2>1, <2>2, <2>3, BeginKept DEF Begun
<1>7. CASE ShellDefaults
  <2>1. Begin("shell", "def", 0, "open", Defaults) /\ pmode' = CUSTOM
        /\ typed' = typed \cap {NoMode} /\ UNCHANGED <<drv, axes>>
    BY <1>7 DEF ShellDefaults, gsnr
  <2>2. Begun("shell", "def", 0, "open")
    BY <1>a, <2>1, BeginBegun
  <2> QED BY <1>1, <1>2, <1>3, <1>a, <2>1, <2>2, BeginKept DEF Begun
<1>8. CASE Calibrate
  <2>1. /\ drv \in {0, 1} /\ drv' = drv + 1 /\ UNCHANGED pmode
        /\ axes' = IF drv = 0 THEN 1 ELSE IF axes = 1 THEN 2 ELSE axes
        /\ typed' = IF drv = 0 THEN typed \ {NoMode} ELSE typed
        /\ Begin("gsnr", "cal", drv', "read", Defaults)
    BY <1>8 DEF Calibrate
  <2>2. NoMode \notin typed' => axes' = drv'
    <3>1. CASE drv = 0
      BY <2>1, <3>1
    <3>2. CASE drv = 1
      BY <1>3, <2>1, <3>2
    <3> QED BY <2>1, <3>1, <3>2
  <2>3. PICK z \in 0..255 : z = drv'
    BY <2>1
  <2>4. Begin("gsnr", "cal", z, "read", Defaults)
    BY <2>1, <2>3
  <2>5. Begun("gsnr", "cal", z, "read")
    BY <1>a, <2>4, BeginBegun
  <2>6. typed \cap Modes \subseteq typed'
    BY <2>1, ModesFacts
  <2>7. UNCHANGED pmode /\ (NoMode \notin typed' => axes' = z /\ axes' = drv')
    BY <2>1, <2>2, <2>3
  <2> QED BY <1>1, <1>2, <1>a, <2>5, <2>6, <2>7, BeginKept DEF Begun
<1> QED BY <1>1, <1>4, <1>5, <1>6, <1>7, <1>8 DEF Start

(* Off, on again, and up. *)
LEMMA ResetKept ==
  ASSUME TypeInv, KeptInv, ~hurt', Reset
  PROVE  Kept' /\ Saver = {} /\ Saver' = {} /\ flash' = flash /\ ram' = WildSet
         /\ flash.flag = Magic
<1>1. ~hurt /\ Saver = {} /\ power # "off" /\ Kept
  BY DEF Reset, KeptInv
<1>2. ~Erasing
  BY <1>1 DEF Erasing, Saver
<1>3. /\ flash' = flash /\ power' = "off" /\ ram' = WildSet
      /\ job' = [w \in Threads |-> NoJob] /\ typed' = typed
  BY <1>2 DEF Reset
<1>4. \A w \in Threads : job'[w].op = "none" /\ job'[w].ph = "done"
  BY <1>3 DEF NoJob
<1>5. Saver' = {} /\ Alone'
  BY <1>4 DEF Saver, Alone, Busy
<1>6. (\A w \in Threads : Fitting(job[w]))'
  BY <1>4 DEF Fitting, Writing
<1>7. flash.flag = Magic /\ GoodCopy(OnFlash)
  BY <1>1, AtRest
<1>8. Rest'
  BY <1>3, <1>7 DEF Rest, GoodCopy, OnFlash
<1>9. Registers'
  BY <1>3 DEF Registers
<1> QED BY <1>1, <1>3, <1>5, <1>6, <1>7, <1>8, <1>9 DEF Kept

LEMMA BootKept ==
  ASSUME TypeInv, MagicInv, KeptInv, ~hurt', Boot
  PROVE  /\ Kept' /\ Saver = {} /\ flash' = flash /\ ram = WildSet
         /\ \/ /\ flash.flag # Magic /\ Saver' = {"init"} /\ job'["init"].copy = Defaults
               /\ ram' = Default(CUSTOM)
            \/ /\ flash.flag = Magic /\ Saver' = {}
               /\ flash.mode \in Modes \cup {NoMode}
               /\ \E n \in Picks(flash.mode) :
                    ram' = IF n \in Modes THEN flash.set[n] ELSE WildSet
<1>1. ~hurt /\ power = "off" /\ power' = "boot" /\ UNCHANGED <<flash, locked, drv, axes>>
  BY DEF Boot, gsnr
<1>2. Kept /\ \A w \in Threads : ~Busy(w)
  BY <1>1 DEF KeptInv, MagicInv
<1>3. Saver = {} /\ Alone /\ \A w \in Threads : job[w].op = "none" /\ job[w].ph = "done"
  BY <1>2, NoneBusy
<1>4. ram = WildSet
  BY <1>1, <1>2 DEF Kept, Registers
<1>5. CASE flash.flag # Magic
  <2> DEFINE r == [op |-> "def", val |-> 0, at |-> 0, ph |-> "open", copy |-> Defaults]
  <2>1. job' = [job EXCEPT !["init"] = r] /\ ram' = Default(CUSTOM) /\ pmode' = CUSTOM
    BY <1>5 DEF Boot, LoadDefaults
  <2>2. r.op = "def" /\ r.at = 0 /\ r.ph = "open" /\ r.copy = Defaults
    OBVIOUS
  <2> HIDE DEF r
  <2>3. job'["init"] = r /\ Untouched("init") /\ "init" \in Threads
    BY <2>1, Now DEF Untouched, Threads
  <2>4. Fitting(job["init"])'
    <3>1. GoodCopy(job["init"].copy)' /\ pmode' = job'["init"].copy.mode
      BY <2>1, <2>2, <2>3, DefaultsGood DEF GoodCopy
    <3> QED BY <2>2, <2>3, <3>1 DEF Fitting, Progress, Writing
  <2>5. Busy("init")'
    BY <2>2, <2>3 DEF Busy
  <2>6. Registers'
    BY <1>1, <2>1, <2>3, <2>5, DefaultsGood DEF Registers
  <2>7. job'["init"].ph \in Writing
    BY <2>2, <2>3 DEF Writing
  <2>8. Kept' /\ Saver' = {"init"}
    BY <1>3, <2>3, <2>4, <2>6, <2>7, KeptBy
  <2> QED BY <1>1, <1>3, <1>4, <1>5, <2>1, <2>2, <2>3, <2>8
<1>6. CASE flash.flag = Magic
  <2>1. job' = job /\ pmode' = flash.mode /\ typed' = typed
        /\ \E n \in Picks(flash.mode) : ram' = IF n \in Modes THEN flash.set[n] ELSE WildSet
    BY <1>6 DEF Boot, LoadFromFlash
  <2>2. GoodCopy(OnFlash)
    BY <1>2, <1>3, <1>6 DEF Kept, Rest, Magic, Blank
  <2>3. flash.mode \in Modes \cup {NoMode}
        /\ \A m \in Modes \ typed : GoodSet(flash.set[m])
    BY <2>2 DEF GoodCopy, OnFlash
  <2>4. flash.mode \in Modes \ typed => GoodSet(ram')
    BY <2>1, <2>3 DEF Picks
  <2>5. Registers'
    BY <1>1, <2>1, <2>4 DEF Registers
  <2>6. (\A w \in Threads : Fitting(job[w]))'
    BY <1>3, <2>1 DEF Fitting, Writing
  <2>7. Saver' = {} /\ Alone'
    BY <1>3, <2>1 DEF Saver, Alone, Busy
  <2>8. Rest'
    BY <1>1, <1>6, <2>1, <2>2 DEF Rest, GoodCopy, OnFlash
  <2> QED BY <1>1, <1>3, <1>4, <1>6, <2>1, <2>3, <2>5, <2>6, <2>7, <2>8 DEF Kept
<1> QED BY <1>5, <1>6

LEMMA StartedKept ==
  ASSUME TypeInv, MagicInv, KeptInv, ~hurt', Started
  PROVE  Kept' /\ Saver = {} /\ Saver' = {} /\ UNCHANGED <<flash, ram>>
<1>1. ~hurt /\ power = "boot" /\ power' = "up" /\ ~Busy("init")
      /\ UNCHANGED <<flash, locked, pmode, ram, job>>
  BY DEF Started
<1>2. Kept /\ \A w \in Threads : ~Busy(w)
  BY <1>1 DEF KeptInv, MagicInv
<1>3. Saver = {} /\ \A w \in Threads : job[w].op = "none" /\ job[w].ph = "done"
  BY <1>2, NoneBusy
<1>4. /\ pmode = flash.mode /\ pmode \in Modes \cup {NoMode}
      /\ pmode \in Modes \ typed => GoodSet(ram)
      /\ ram.cal \in Steps
  BY <1>1, <1>2, <1>3, AtRest, Now DEF Kept, Registers, Sets
<1>a. /\ typed' = IF pmode \in Modes \ typed THEN typed \ {NoMode} ELSE typed \cup {NoMode}
      /\ typed \cap Modes \subseteq typed'
  BY ModesFacts DEF Started
<1>5. drv' \in {1, 2} /\ NoMode \notin typed' => axes' = drv'
  <2> SUFFICES ASSUME drv' \in {1, 2}, NoMode \notin typed' PROVE axes' = drv'
    OBVIOUS
  <2>1. GoodSet(ram)
    BY <1>4, <1>a
  <2>2. PICK s \in StepOf(ram.cal) :
          /\ drv' = s
          /\ axes' = CASE s \in {0, 3} -> 0
                       [] s = 2      -> ram.vec
                       [] OTHER      -> IF ram.vec = 2 THEN 1 ELSE ram.vec
    BY DEF Started
  <2>3. ram.cal = s
    BY <2>1, <2>2 DEF StepOf, GoodSet
  <2>4. CASE s = 1
    BY <2>1, <2>2, <2>3, <2>4 DEF GoodSet
  <2>5. CASE s = 2
    BY <2>1, <2>2, <2>3, <2>5 DEF GoodSet
  <2> QED BY <2>2, <2>4, <2>5
<1>6. pmode' = flash'.mode
  BY <1>1, <1>2 DEF Kept, Registers
<1>7. Registers'
  BY <1>1, <1>5, <1>6 DEF Registers
<1>8. (\A w \in Threads : Fitting(job[w]))'
  BY <1>1, <1>3 DEF Fitting, Writing
<1>9. Saver' = {} /\ Alone'
  BY <1>1, <1>3 DEF Saver, Alone, Busy
<1>10. flash.flag = Magic /\ GoodCopy(OnFlash)
  BY <1>1, <1>2, <1>3, AtRest
<1>11. Rest'
  BY <1>1, <1>a, <1>10 DEF Rest, GoodCopy, OnFlash
<1> QED BY <1>1, <1>3, <1>7, <1>8, <1>9, <1>11 DEF Kept

-----------------------------------------------------------------------------
LEMMA KeptInit == Init => KeptInv
<1> SUFFICES ASSUME Init PROVE Kept
  BY DEF KeptInv
<1>1. \A w \in Threads : job[w].op = "none" /\ job[w].ph = "done"
  BY DEF Init, NoJob
<1>2. Alone /\ Saver = {} /\ \A w \in Threads : Fitting(job[w])
  BY <1>1 DEF Alone, Busy, Saver, Fitting, Writing
<1>3. Rest /\ Registers
  BY DEF Init, Rest, Registers, Erased
<1> QED BY <1>2, <1>3 DEF Kept

LEMMA KeptNext == TypeInv /\ MagicInv /\ KeptInv /\ [Next]_vars => KeptInv'
<1> SUFFICES ASSUME TypeInv, MagicInv, KeptInv, [Next]_vars, ~hurt' PROVE Kept'
  BY DEF KeptInv
<1>1. CASE Start
  BY <1>1, StartKept
<1>2. ASSUME NEW w \in Threads, Step(w) PROVE Kept'
  <2>1. Kept
    BY <1>2 DEF Step, ReadSector, Apply, Open, Erase, First, Second, KeptInv
  <2> QED BY <1>2, <2>1, ReadKept, ApplyKept, OpenKept, EraseKept, FirstKept, SecondKept DEF Step
<1>3. CASE Reset \/ Boot \/ Started
  BY <1>3, ResetKept, BootKept, StartedKept
<1>4. CASE UNCHANGED vars
  <2>1. Kept /\ UNCHANGED <<flash, locked, power, pmode, ram, job, drv, axes, typed>>
    BY <1>4 DEF vars, gsnr, KeptInv
  <2>2. (\A w \in Threads : Fitting(job[w]))'
    <3>1. \A k : (IsBlank(k)' <=> IsBlank(k))
                 /\ \A c : (IsDone(k, c)' <=> IsDone(k, c)) /\ (IsHalf(k, c)' <=> IsHalf(k, c))
      BY <2>1 DEF IsBlank, IsHalf, IsDone
    <3>2. \A j : Progress(j) => Progress(j)'
      BY <2>1, <3>1 DEF Progress, GoodCopy
    <3> QED BY <2>1, <3>2 DEF Kept, Fitting, OnFlash
  <2>3. Alone' /\ Rest' /\ Registers'
    BY <2>1 DEF Kept, Alone, Busy, Rest, Saver, Registers, GoodCopy, OnFlash
  <2> QED BY <2>2, <2>3 DEF Kept
<1> QED BY <1>1, <1>2, <1>3, <1>4 DEF Next

(* The inductive invariant of the store, all parts together. *)
StoreInv == TypeInv /\ MagicInv /\ KeptInv

(* While no change overlaps another and no reset hits one that writes, the *)
(* sector is complete or the one writer has programmed it up to its piece, *)
(* and the registers go with it.                                           *)
THEOREM StoreInvariant == Spec => []StoreInv
<1>1. Init => StoreInv
  BY InitTyped, MagicInit, KeptInit DEF StoreInv
<1>2. StoreInv /\ [Next]_vars => StoreInv'
  BY NextTyped, MagicNext, KeptNext DEF StoreInv
<1> QED BY <1>1, <1>2, PTL DEF Spec

(* t-gsnr never works with a vector it has not got, for any number of      *)
(* modes, changes and restarts, as long as no two changes overlap and no   *)
(* reset hits one that writes: what the shell types for one mode, or for a *)
(* mode that does not exist, spoils no mode whose calibration is t-gsnr's  *)
(* own.                                                                    *)
THEOREM CalibrationKept == Spec => []CalibrationUsable
<1>1. StoreInv => CalibrationUsable
  <2> SUFFICES ASSUME StoreInv, ~hurt PROVE CalibrationUsable
    BY DEF CalibrationUsable
  <2>1. Kept
    BY DEF StoreInv, KeptInv
  <2>2. power = "up" /\ drv \in {1, 2} /\ NoMode \notin typed => axes = drv
    BY <2>1 DEF Kept, Registers
  <2>3. ASSUME Saver = {}, flash.flag = Magic, NEW m \in Modes \ typed,
               flash.set[m].cal \in {1, 2}
        PROVE  flash.set[m].vec \in flash.set[m].cal .. 2
    <3>1. GoodSet(flash.set[m])
      BY <2>1, <2>3 DEF Kept, Rest, GoodCopy, OnFlash, Magic, Blank
    <3> QED BY <2>3, <3>1 DEF GoodSet
  <2> QED BY <2>2, <2>3 DEF CalibrationUsable
<1> QED BY <1>1, StoreInvariant, PTL

-----------------------------------------------------------------------------
(* What the sector and the copy of its writer stand for. *)
LEMMA StoredIs ==
  /\ \A w \in Threads : Saver = {w} => Stored = job[w].copy
  /\ Saver = {} /\ flash.flag = Magic => Stored = OnFlash
  /\ Saver = {} /\ flash.flag # Magic => Stored = Defaults
<1>1. \A w \in Threads : Saver = {w} => (CHOOSE v \in Saver : TRUE) = w
  OBVIOUS
<1> QED BY <1>1 DEF Stored, OnFlash

LEMMA StoredBecomes ==
  /\ \A w \in Threads : Saver' = {w} => Stored' = job'[w].copy
  /\ Saver' = {} /\ flash'.flag = Magic => Stored' = OnFlash'
<1>1. \A w \in Threads : Saver' = {w} => (CHOOSE v \in Saver' : TRUE) = w
  OBVIOUS
<1> QED BY <1>1 DEF Stored, OnFlash

LEMMA Stutters ==
  ASSUME ~hurt, ~hurt', Stored' = Stored, ram' = ram
  PROVE  UNCHANGED Table!vars
BY DEF Table!vars

LEMMA StartRefines ==
  ASSUME StoreInv, ~hurt, ~hurt', Start
  PROVE  [Table!Next]_(Table!vars)
<1>1. /\ Saver = {} /\ flash.flag = Magic /\ UNCHANGED <<flash, ram>>
      /\ \/ Saver' = {}
         \/ \E w \in Threads : Saver' = {w} /\ job'[w].copy = Defaults
  BY StartKept DEF StoreInv
<1>2. CASE Saver' = {}
  <2>1. Stored' = Stored
    BY <1>1, <1>2, StoredIs, StoredBecomes DEF OnFlash
  <2> QED BY <1>1, <2>1, Stutters
<1>3. CASE \E w \in Threads : Saver' = {w} /\ job'[w].copy = Defaults
  <2>1. Stored' = Defaults
    BY <1>3, StoredBecomes
  <2>2. Table!SetDefaults
    BY <1>1, <2>1, DefaultsGood DEF Table!SetDefaults
  <2> QED BY <2>2 DEF Table!Next
<1> QED BY <1>1, <1>2, <1>3

(* What a change makes of a set is a change of the table. *)
LEMMA ChangeShapes ==
  ASSUME TypeInv, NEW w \in Threads, job[w].op \in Edits, NEW s \in Sets, NEW x \in 0..2
  PROVE  LET t == Change(w, s, x)
         IN \/ t = [cal |-> s.cal, vec |-> s.vec, chan |-> t.chan]
            \/ t = [cal |-> t.cal, vec |-> t.vec, chan |-> s.chan]
<1> DEFINE t == Change(w, s, x)
           v == job[w].val
<1>1. s = [cal |-> s.cal, vec |-> s.vec, chan |-> s.chan]
  BY DEF Sets
<1>2. \/ t = [cal |-> v, vec |-> s.vec, chan |-> s.chan]
      \/ t = [cal |-> s.cal, vec |-> x, chan |-> s.chan]
      \/ t = [cal |-> v, vec |-> axes, chan |-> s.chan]
      \/ t = [cal |-> v, vec |-> x, chan |-> s.chan]
      \/ t = [cal |-> s.cal, vec |-> s.vec, chan |-> v]
      \/ t = [cal |-> s.cal, vec |-> s.vec, chan |-> s.chan]
  BY <1>1, ChangeForms DEF Edits
<1> HIDE DEF t, v
<1>3. \/ t = [cal |-> s.cal, vec |-> s.vec, chan |-> t.chan]
      \/ t = [cal |-> t.cal, vec |-> t.vec, chan |-> s.chan]
  BY <1>2
<1> QED BY <1>3 DEF t

LEMMA ApplyRefines ==
  ASSUME StoreInv, ~hurt, ~hurt', NEW w \in Threads, Apply(w)
  PROVE  Table!Set
<1>1. TypeInv /\ Kept
  BY DEF StoreInv, KeptInv
<1>2. /\ Saver = {} /\ Saver' = {w} /\ power # "off"
      /\ flash.mode \in Modes \cup {NoMode} /\ job[w].op \in Edits
      /\ \E n \in Picks(flash.mode), x \in 0..2 :
           \/ /\ n \in Modes /\ ram' = Change(w, flash.set[n], x)
              /\ job'[w].copy = [mode |-> flash.mode, set |-> [flash.set EXCEPT ![n] = ram']]
           \/ n \notin Modes /\ ram' = WildSet /\ job'[w].copy = OnFlash
  BY <1>1, ApplyKept
<1>3. flash.flag = Magic /\ \A m \in Modes : flash.set[m] \in Sets
  BY <1>1, <1>2, AtRest
<1>4. Stored = OnFlash /\ Stored' = job'[w].copy
  BY <1>2, <1>3, StoredIs, StoredBecomes
<1>5. Stored.mode = flash.mode /\ Stored.set = flash.set
  BY <1>4 DEF OnFlash
<1>n. PICK n \in Picks(flash.mode), x \in 0..2 :
        \/ /\ n \in Modes /\ ram' = Change(w, flash.set[n], x)
           /\ job'[w].copy = [mode |-> flash.mode, set |-> [flash.set EXCEPT ![n] = ram']]
        \/ n \notin Modes /\ ram' = WildSet /\ job'[w].copy = OnFlash
  BY <1>2
<1>6. CASE n \in Modes
  <2>1. /\ ram' = Change(w, flash.set[n], x)
        /\ Stored'.mode = flash.mode /\ Stored'.set = [flash.set EXCEPT ![n] = ram']
    BY <1>4, <1>6, <1>n
  <2>2. \/ ram' = [flash.set[n] EXCEPT !.chan = ram'.chan]
        \/ ram' = [flash.set[n] EXCEPT !.cal = ram'.cal, !.vec = ram'.vec]
    <3> DEFINE old == flash.set[n]
               a == ram'.cal
               v == ram'.vec
               c == ram'.chan
    <3>1. old \in Sets /\ ram' = Change(w, old, x)
      BY <1>3, <1>6, <2>1
    <3> HIDE DEF old
    <3>2. \/ ram' = [cal |-> old.cal, vec |-> old.vec, chan |-> c]
          \/ ram' = [cal |-> a, vec |-> v, chan |-> old.chan]
      BY <1>1, <1>2, <3>1, ChangeShapes
    <3> HIDE DEF a, v, c
    <3>3. old = [cal |-> old.cal, vec |-> old.vec, chan |-> old.chan]
      BY <3>1 DEF Sets
    <3>4. [old EXCEPT !.chan = c] = [cal |-> old.cal, vec |-> old.vec, chan |-> c]
      BY <3>3
    <3>5. [old EXCEPT !.cal = a, !.vec = v] = [cal |-> a, vec |-> v, chan |-> old.chan]
      <4> DEFINE r == [old EXCEPT !.cal = a]
      <4>1. r = [cal |-> a, vec |-> old.vec, chan |-> old.chan]
        BY <3>3
      <4>2. [old EXCEPT !.cal = a, !.vec = v] = [r EXCEPT !.vec = v]
        BY <3>3
      <4> HIDE DEF r
      <4> QED BY <4>1, <4>2
    <3>6. ram' = [old EXCEPT !.chan = c] \/ ram' = [old EXCEPT !.cal = a, !.vec = v]
      BY <3>2, <3>4, <3>5
    <3> QED BY <3>6 DEF old, a, v, c
  <2>3. n \in Table!SetsOf(flash.mode)
    BY <1>6 DEF Picks, Table!SetsOf
  <2> QED BY <1>5, <2>1, <2>2, <2>3 DEF Table!Set
<1>7. CASE n \notin Modes
  <2>1. ram' = WildSet /\ Stored' = Stored
    BY <1>4, <1>7, <1>n
  <2>2. flash.mode = NoMode
    BY <1>2, <1>7 DEF Picks
  <2> QED BY <1>5, <2>1, <2>2 DEF Table!Set
<1> QED BY <1>6, <1>7

LEMMA StepRefines ==
  ASSUME StoreInv, ~hurt, ~hurt', NEW w \in Threads, Step(w)
  PROVE  [Table!Next]_(Table!vars)
<1>1. TypeInv /\ Kept
  BY DEF StoreInv, KeptInv
<1>2. CASE ReadSector(w)
  <2>1. /\ Saver = {} /\ flash' = flash /\ ram' = ram
        /\ \/ Saver' = {}
           \/ /\ Saver' = {w}
              /\ job'[w].copy.mode \in Modes \cup {NoMode}
              /\ job'[w].copy.set = flash.set
    BY <1>1, <1>2, ReadKept
  <2>2. flash.flag = Magic
    BY <1>1, <1>2, <2>1, AtRest DEF ReadSector, CpuFor
  <2>3. Stored = OnFlash
    BY <2>1, <2>2, StoredIs
  <2>4. CASE Saver' = {}
    <3>1. Stored' = Stored
      BY <2>1, <2>2, <2>3, <2>4, StoredBecomes DEF OnFlash
    <3> QED BY <2>1, <3>1, Stutters
  <2>5. CASE Saver' = {w} /\ job'[w].copy.mode \in Modes \cup {NoMode}
                         /\ job'[w].copy.set = flash.set
    <3>1. Stored'.mode \in Modes \cup {NoMode} /\ Stored'.set = Stored.set
      BY <2>3, <2>5, StoredBecomes DEF OnFlash
    <3>2. Table!SetMode
      BY <2>1, <3>1 DEF Table!SetMode
    <3> QED BY <3>2 DEF Table!Next
  <2> QED BY <2>1, <2>4, <2>5
<1>3. CASE Apply(w)
  BY <1>3, ApplyRefines DEF Table!Next
<1>4. CASE Open(w) \/ Erase(w) \/ First(w)
  <2>1. Saver = {w} /\ Saver' = {w} /\ job'[w].copy = job[w].copy
    BY <1>1, <1>4, OpenKept, EraseKept, FirstKept
  <2>2. ram' = ram
    BY <1>4 DEF Open, Erase, First
  <2>3. Stored' = Stored
    BY <2>1, StoredIs, StoredBecomes
  <2> QED BY <2>2, <2>3, Stutters
<1>5. CASE Second(w)
  <2>1. /\ Saver = {w} /\ ram' = ram
        /\ \/ Saver' = {w} /\ job'[w].copy = job[w].copy
           \/ Saver' = {} /\ flash'.flag = Magic /\ OnFlash' = job[w].copy
    BY <1>1, <1>5, SecondKept
  <2>2. Stored' = Stored
    BY <2>1, StoredIs, StoredBecomes
  <2> QED BY <2>1, <2>2, Stutters
<1> QED BY <1>2, <1>3, <1>4, <1>5 DEF Step

LEMMA PowerRefines ==
  ASSUME StoreInv, ~hurt, ~hurt', Reset \/ Boot \/ Started
  PROVE  [Table!Next]_(Table!vars)
<1>1. TypeInv /\ MagicInv /\ KeptInv
  BY DEF StoreInv
<1>2. CASE Reset
  <2>1. Saver = {} /\ Saver' = {} /\ flash' = flash /\ ram' = WildSet /\ flash.flag = Magic
    BY <1>1, <1>2, ResetKept
  <2>2. Stored' = Stored
    BY <2>1, StoredIs, StoredBecomes DEF OnFlash
  <2>3. Table!SwitchOff
    BY <2>1, <2>2 DEF Table!SwitchOff
  <2> QED BY <2>3 DEF Table!Next
<1>3. CASE Boot
  <2>1. /\ Saver = {} /\ flash' = flash /\ ram = WildSet
        /\ \/ /\ flash.flag # Magic /\ Saver' = {"init"} /\ job'["init"].copy = Defaults
              /\ ram' = Default(CUSTOM)
           \/ /\ flash.flag = Magic /\ Saver' = {}
              /\ flash.mode \in Modes \cup {NoMode}
              /\ \E n \in Picks(flash.mode) :
                   ram' = IF n \in Modes THEN flash.set[n] ELSE WildSet
    BY <1>1, <1>3, BootKept
  <2>2. "init" \in Threads
    BY DEF Threads
  <2>3. CASE flash.flag # Magic /\ Saver' = {"init"}
    <3>1. Stored = Defaults /\ Stored' = Defaults /\ ram' = Defaults.set[CUSTOM]
      BY <2>1, <2>2, <2>3, StoredIs, StoredBecomes, DefaultsGood
    <3>2. CUSTOM \in Table!SetsOf(CUSTOM)
      BY DefaultsGood DEF Table!SetsOf
    <3> QED BY <2>1, <3>1, <3>2, DefaultsGood DEF Table!Next, Table!Load
  <2>4. CASE flash.flag = Magic /\ Saver' = {}
    <3>1. Stored = OnFlash /\ Stored' = Stored
      BY <2>1, <2>4, StoredIs, StoredBecomes DEF OnFlash
    <3>2. Stored.mode = flash.mode /\ Stored.set = flash.set
      BY <3>1 DEF OnFlash
    <3>n. PICK n \in Picks(flash.mode) : ram' = IF n \in Modes THEN flash.set[n] ELSE WildSet
      BY <2>1, <2>4
    <3>3. CASE n \in Modes
      <4>1. n \in Table!SetsOf(flash.mode) /\ ram' = flash.set[n]
        BY <3>3, <3>n DEF Picks, Table!SetsOf
      <4> QED BY <2>1, <3>1, <3>2, <4>1 DEF Table!Next, Table!Load
    <3>4. CASE n \notin Modes
      <4>1. flash.mode = NoMode /\ ram' = ram
        BY <2>1, <2>4, <3>4, <3>n DEF Picks
      <4> QED BY <3>1, <4>1, Stutters
    <3> QED BY <3>3, <3>4
  <2> QED BY <2>1, <2>3, <2>4
<1>4. CASE Started
  <2>1. Saver = {} /\ Saver' = {} /\ UNCHANGED <<flash, ram>>
    BY <1>1, <1>4, StartedKept
  <2>2. flash.flag = Magic
    BY <1>1, <1>4, <2>1, AtRest DEF Started, KeptInv
  <2>3. Stored' = Stored
    BY <2>1, <2>2, StoredIs, StoredBecomes DEF OnFlash
  <2> QED BY <2>1, <2>3, Stutters
<1> QED BY <1>2, <1>3, <1>4

(* Once hurt, always hurt. *)
LEMMA HurtStays == hurt /\ [Next]_vars => hurt'
<1> SUFFICES ASSUME hurt, [Next]_vars PROVE hurt'
  OBVIOUS
<1>1. CASE Start
  BY <1>1 DEF Start, KeyReset, ShellSet, ShellGsnr, ShellMode, ShellDefaults, Calibrate, Begin
<1>2. ASSUME NEW w \in Threads, Step(w) PROVE hurt'
  BY <1>2 DEF Step, ReadSector, Apply, Open, Erase, First, Second
<1>3. CASE Reset \/ Boot \/ Started
  BY <1>3 DEF Reset, Boot, Started
<1>4. CASE UNCHANGED vars
  BY <1>4 DEF vars
<1> QED BY <1>1, <1>2, <1>3, <1>4 DEF Next

(* The store keeps the promise of the table for any number of modes: a     *)
(* change takes effect at once when its copy is complete, each later step  *)
(* of erasing and programming leaves the table as it is, and a start loads *)
(* what was stored last.                                                   *)
THEOREM StoreIsATable == Spec => ImplementsParamTable
<1>1. Init => Table!Init
  <2> SUFFICES ASSUME Init PROVE Table!Init
    OBVIOUS
  <2>1. Saver = {} /\ flash.flag # Magic /\ ram = WildSet /\ hurt = FALSE
    BY DEF Init, Saver, NoJob, Erased, Blank, Magic
  <2>2. Stored = Defaults
    BY <2>1, StoredIs
  <2> QED BY <2>1, <2>2, DefaultsGood DEF Table!Init
<1>2. StoreInv /\ [Next]_vars => [Table!Next]_(Table!vars)
  <2> SUFFICES ASSUME StoreInv, [Next]_vars PROVE [Table!Next]_(Table!vars)
    OBVIOUS
  <2>1. CASE hurt
    BY <2>1, HurtStays DEF Table!vars
  <2>2. CASE ~hurt /\ hurt'
    BY <2>2 DEF Table!Next, Table!Break
  <2>3. CASE ~hurt /\ ~hurt'
    <3>1. CASE Start
      BY <2>3, <3>1, StartRefines
    <3>2. ASSUME NEW w \in Threads, Step(w) PROVE [Table!Next]_(Table!vars)
      BY <2>3, <3>2, StepRefines
    <3>3. CASE Reset \/ Boot \/ Started
      BY <2>3, <3>3, PowerRefines
    <3>4. CASE UNCHANGED vars
      BY <3>4 DEF vars, Table!vars, Stored, Saver
    <3> QED BY <3>1, <3>2, <3>3, <3>4 DEF Next
  <2> QED BY <2>1, <2>2, <2>3
<1> QED BY <1>1, <1>2, StoreInvariant, PTL DEF Spec, ImplementsParamTable, Table!Spec
=============================================================================
