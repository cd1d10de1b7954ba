---------------------------- MODULE StartupProofs ----------------------------
(***************************************************************************)
(* Theorems about Startup for any processes on one folder, ports, machines *)
(* and bounds: what config.json holds, the port a process serves on, and   *)
(* the addresses it shows.                                                 *)
(***************************************************************************)
EXTENDS Startup, SequenceTheorems, FiniteSetTheorems, TLAPS

----------------------------------------------------------------------------
(* Types.                                                                  *)

Afters == {"down", "loading", "loaded", "loadingAgain", "serving", "saved"}
Writing == {"opening", "writing", "replacing"}
Places == {"down", "ensuring", "loading", "loaded", "loadingAgain", "serving"} \cup Writing

TypeInv ==
    /\ config \in Configs \cup {Missing, Half} /\ temporary \in Configs \cup {Missing, Half}
    /\ writers \subseteq Procs
    /\ env \in {NoPort, Default, BadPort}
    /\ pc \in [Procs -> Places] /\ after \in [Procs -> Afters]
    /\ value \in [Procs -> Configs \cup {Missing}] /\ base \in [Procs -> Configs \cup {Missing}]
    /\ port \in [Procs -> Ports \cup {NoPort, BadPort}]
    /\ saves \in Nat /\ seen \in [Procs -> Nat]
    /\ wanted \in Ports \cup {NoPort}
    /\ mixed \in BOOLEAN /\ raced \in BOOLEAN

\* What a start makes of the file: the defaults, or the file as it is migrated.
Made(c) == Migrated(IF c = Missing THEN Defaults ELSE c)

\* The three kinds of files differ, and a migrated file is migrated for good.
LEMMA ConfigFacts ==
    /\ Missing \notin Configs /\ Half \notin Configs /\ Missing # Half
    /\ Defaults \in Configs /\ Made(Missing) = Defaults
    /\ \A c \in Configs : Made(c) = Migrated(c) /\ Migrated(c) \in Configs
    /\ \A c \in Configs \cup {Missing} : Made(c) \in Configs /\ Made(Made(c)) = Made(c)
    /\ \A c \in Configs : c.port \in Ports /\ (c.version = 2 => Made(c) = c)
    /\ \A n \in Ports : /\ [version |-> 2, port |-> n] \in Configs
                        /\ [version |-> 2, port |-> n].port = n
                        /\ [version |-> 2, port |-> n].version = 2
  BY ConfigAssumption DEF Configs, Missing, Half, Defaults, Made, Migrated

----------------------------------------------------------------------------
(* The file is whole.                                                      *)

\* Unless two processes met, one at the most is past the opening of the temporary file,
\* and what it is about to put in place is what it wrote, and whole.
WholeInv ==
    /\ ConfigIsWhole
    /\ \A p \in Procs : pc[p] \in Writing => value[p] \in Configs
    /\ ~mixed =>
        /\ \A p \in Procs : pc[p] = "replacing" => temporary = value[p]
        /\ \A p, q \in Procs :
               pc[p] \in {"writing", "replacing"} /\ pc[q] \in {"writing", "replacing"} => p = q

\* A step that writes nothing, and leaves p out of any write.
Apart(p) ==
    /\ UNCHANGED <<config, temporary, mixed, env, saves, wanted, raced>>
    /\ UNCHANGED <<value, base, after>>
    /\ writers' \subseteq writers
    /\ \E place \in Places \ Writing : pc' = [pc EXCEPT ![p] = place]

\* Nothing written yet.
LEMMA WholeInit == StartupInit => TypeInv /\ WholeInv
  <1> SUFFICES ASSUME StartupInit PROVE TypeInv /\ WholeInv
    OBVIOUS
  <1>1. Init
    BY DEF StartupInit
  <1>2. config \in Configs \cup {Missing, Half} /\ temporary \in {Missing, Half}
    BY <1>1 DEF Init
  <1>3. wanted \in Ports \cup {NoPort} /\ (config = Half => wanted = NoPort)
    BY <1>1, <1>2, ConfigFacts, ConfigAssumption DEF Init, Half
  <1>4. TypeInv
    BY <1>1, <1>2, <1>3 DEF Init, TypeInv, Places, Afters
  <1>5. WholeInv
    BY <1>1, <1>3 DEF Init, WholeInv, ConfigIsWhole, Writing
  <1> QED
    BY <1>4, <1>5

\* The start and the settings window prepare a whole configuration.
LEMMA PreparedWhole ==
    ASSUME TypeInv, WholeInv, NEW p \in Procs, NEW new \in Configs, NEW next \in Afters,
           Prepare(p, new, next), config # Half, NEW n \in Ports \cup {NoPort, BadPort},
           NEW k \in Nat, port' = [port EXCEPT ![p] = n] \/ port' = port,
           seen' = [seen EXCEPT ![p] = k] \/ seen' = seen,
           UNCHANGED <<files, env, saves, wanted, raced>>
    PROVE  TypeInv' /\ WholeInv'
  <1>1. /\ value' = [value EXCEPT ![p] = new] /\ base' = [base EXCEPT ![p] = config]
        /\ after' = [after EXCEPT ![p] = next] /\ pc' = [pc EXCEPT ![p] = "opening"]
        /\ UNCHANGED <<config, temporary, writers, mixed, env, saves, wanted, raced>>
    BY DEF Prepare, Goto, files
  <1>2. TypeInv'
    BY <1>1 DEF TypeInv, Places, Writing
  <1>3. WholeInv'
    BY <1>1 DEF TypeInv, WholeInv, ConfigIsWhole, Writing
  <1> QED
    BY <1>2, <1>3

\* A step apart from any write.
LEMMA ApartWhole ==
    ASSUME TypeInv, WholeInv, NEW p \in Procs, Apart(p),
           NEW n \in Ports \cup {NoPort, BadPort}, NEW k \in Nat,
           port' = [port EXCEPT ![p] = n] \/ port' = port,
           seen' = [seen EXCEPT ![p] = k] \/ seen' = seen
    PROVE  TypeInv' /\ WholeInv'
  <1>1. PICK place \in Places \ Writing : pc' = [pc EXCEPT ![p] = place]
    BY DEF Apart
  <1>2. /\ UNCHANGED <<config, temporary, mixed, env, saves, wanted, raced>>
        /\ UNCHANGED <<value, base, after>> /\ writers' \subseteq writers
    BY DEF Apart
  <1>3. TypeInv'
    BY <1>1, <1>2 DEF TypeInv
  <1>4. \A q \in Procs : pc'[q] \in Writing => pc[q] = pc'[q]
    BY <1>1 DEF TypeInv
  <1>5. WholeInv'
    BY <1>2, <1>4 DEF WholeInv, ConfigIsWhole, Writing
  <1> QED
    BY <1>3, <1>5

\* Every step keeps the file whole.
LEMMA WholeStep == TypeInv /\ WholeInv /\ [StartupNext]_startupVars => TypeInv' /\ WholeInv'
  <1> SUFFICES ASSUME TypeInv, WholeInv, [StartupNext]_startupVars PROVE TypeInv' /\ WholeInv'
    OBVIOUS
  <1> DEFINE Port0 == Effective(Made(config))
  <1>1. CASE UNCHANGED startupVars
    BY <1>1 DEF startupVars, vars, files, local, TypeInv, WholeInv, ConfigIsWhole
  <1>2. ASSUME NEW p \in Procs, ConfigStep(p) PROVE TypeInv' /\ WholeInv'
    <2>0. NoPort \in Ports \cup {NoPort, BadPort} /\ 0 \in Nat /\ saves \in Nat
      BY DEF TypeInv
    <2>1. CASE Launch(p)
      <3>1. Apart(p) /\ UNCHANGED <<port, seen>>
        BY <2>1 DEF Launch, Goto, files, local, Apart, Places, Writing
      <3> QED
        BY <2>0, <3>1, ApartWhole
    <2>2. CASE Ensure(p)
      <3>1. UNCHANGED <<port, seen>>
        BY <2>2 DEF Ensure
      <3>2. CASE config # Missing
        <4>1. Apart(p)
          BY <2>2, <3>2 DEF Ensure, Goto, files, Apart, Places, Writing
        <4> QED
          BY <2>0, <3>1, <4>1, ApartWhole
      <3>3. CASE config = Missing
        <4>1. /\ Prepare(p, Defaults, "loading") /\ config # Half
              /\ UNCHANGED <<files, env, saves, wanted, raced>>
          BY <2>2, <3>3, ConfigFacts DEF Ensure
        <4> QED
          BY <2>0, <3>1, <4>1, PreparedWhole, ConfigFacts DEF Afters
      <3> QED
        BY <3>2, <3>3
    <2>3. CASE Load(p)
      <3>1. CASE config = Half /\ Goto(p, "down") /\ UNCHANGED <<value, base, after, port, seen>>
        <4>1. Apart(p)
          BY <2>3, <3>1 DEF Load, Goto, files, Apart, Places, Writing
        <4> QED
          BY <2>0, <3>1, <4>1, ApartWhole
      <3>2. CASE config # Half
        <4>1. Made(config) \in Configs /\ Port0 \in Ports \cup {NoPort, BadPort}
          BY <3>2, ConfigFacts, ConfigAssumption DEF TypeInv, Effective
        <4>2. port' = [port EXCEPT ![p] = Port0] /\ seen' = [seen EXCEPT ![p] = saves]
          <5>1. port' = [port EXCEPT ![p] = Effective(
                    IF config = Missing THEN Defaults ELSE Migrated(config))]
            BY <2>3, <3>2 DEF Load
          <5>2. (IF config = Missing THEN Defaults ELSE Migrated(config)) = Made(config)
            BY ConfigFacts DEF Made
          <5> QED
            BY <2>3, <3>2, <5>1, <5>2 DEF Load
        <4>3. CASE config # Missing /\ Migrated(config) # config
          <5>1. /\ Prepare(p, Made(config), IF Raises THEN "down" ELSE "loaded")
                /\ UNCHANGED <<files, env, saves, wanted, raced>>
            BY <2>3, <3>2, <4>3 DEF Load, Made
          <5>2. (IF Raises THEN "down" ELSE "loaded") \in Afters
            BY DEF Afters
          <5> HIDE DEF Port0
          <5> QED
            BY <2>0, <3>2, <4>1, <4>2, <5>1, <5>2, PreparedWhole
        <4>4. CASE ~(config # Missing /\ Migrated(config) # config)
          <5>1. Apart(p)
            BY <2>3, <3>2, <4>4 DEF Load, Goto, files, Apart, Places, Writing
          <5> HIDE DEF Port0
          <5> QED
            BY <2>0, <4>1, <4>2, <5>1, ApartWhole
        <4> QED
          BY <4>3, <4>4
      <3> QED
        BY <2>3, <3>1, <3>2 DEF Load
    <2>4. CASE LoadAgain(p)
      <3>1. UNCHANGED <<port, seen>> /\ UNCHANGED <<files, env, saves, wanted, raced>>
        BY <2>4 DEF LoadAgain
      <3>2. CASE \E place \in {"down", "serving"} :
                     Goto(p, place) /\ UNCHANGED <<value, base, after>>
        <4>1. Apart(p)
          BY <3>1, <3>2 DEF Goto, files, Apart, Places, Writing
        <4> QED
          BY <2>0, <3>1, <4>1, ApartWhole
      <3>3. CASE config = Missing /\ Prepare(p, Defaults, "loadingAgain")
        BY <2>0, <3>1, <3>3, PreparedWhole, ConfigFacts DEF Afters
      <3>4. CASE config \in Configs /\ Prepare(p, Migrated(config), "serving")
        BY <2>0, <3>1, <3>4, PreparedWhole, ConfigFacts DEF Afters
      <3> QED
        BY <2>4, <3>2, <3>3, <3>4 DEF LoadAgain
    <2>5. ASSUME NEW new \in Ports, Save(p, new) PROVE TypeInv' /\ WholeInv'
      <3>1. /\ Prepare(p, [version |-> 2, port |-> new], "saved") /\ config # Half
            /\ UNCHANGED <<port, seen>> /\ UNCHANGED <<files, env, saves, wanted, raced>>
        BY <2>5 DEF Save
      <3>2. [version |-> 2, port |-> new] \in Configs
        BY ConfigFacts
      <3> QED
        BY <2>0, <3>1, <3>2, PreparedWhole DEF Afters
    <2>6. CASE Open(p)
      <3>1. TypeInv'
        BY <2>6 DEF Open, Goto, local, TypeInv, Places, Writing
      <3>2. WholeInv'
        BY <2>6 DEF Open, Goto, local, TypeInv, WholeInv, ConfigIsWhole, Writing
      <3> QED
        BY <3>1, <3>2
    <2>7. CASE Write(p)
      <3>0. value[p] \in Configs
        BY <2>7 DEF Write, WholeInv, Writing
      <3>1. TypeInv'
        BY <2>7, <3>0 DEF Write, Goto, local, TypeInv, Places, Writing
      <3>2. WholeInv'
        BY <2>7 DEF Write, Goto, local, TypeInv, WholeInv, ConfigIsWhole, Writing
      <3> QED
        BY <3>1, <3>2
    <2>8. CASE Replace(p)
      <3>0. value[p] \in Configs /\ value[p].port \in Ports
        BY <2>8, ConfigFacts DEF Replace, WholeInv, Writing
      <3>1. \E place \in Places \ Writing : pc' = [pc EXCEPT ![p] = place]
        BY <2>8 DEF Replace, Goto, TypeInv, Places, Afters, Writing
      <3>2. saves' \in Nat /\ wanted' \in Ports \cup {NoPort} /\ raced' \in BOOLEAN
        BY <2>8, <3>0 DEF Replace, TypeInv
      <3>3. TypeInv'
        BY <2>8, <3>1, <3>2 DEF Replace, local, TypeInv
      <3>4. WholeInv'
        BY <2>8, <3>0, <3>1, ConfigFacts
        DEF Replace, local, TypeInv, WholeInv, ConfigIsWhole, Writing
      <3> QED
        BY <3>3, <3>4
    <2>9. CASE ReplaceFails(p)
      <3>1. Apart(p) /\ UNCHANGED <<port, seen>>
        BY <2>9 DEF ReplaceFails, Goto, files, local, Apart, Places, Writing
      <3> QED
        BY <2>0, <3>1, ApartWhole
    <2>10. CASE Crash(p)
      <3>1. Apart(p) /\ UNCHANGED <<port, seen>>
        BY <2>10 DEF Crash, Goto, local, Apart, Places, Writing
      <3> QED
        BY <2>0, <3>1, ApartWhole
    <2> QED
      BY <1>2, <2>1, <2>2, <2>3, <2>4, <2>5, <2>6, <2>7, <2>8, <2>9, <2>10 DEF ConfigStep
  <1>3. ASSUME NEW p \in Procs, Discover(p) PROVE TypeInv' /\ WholeInv'
    <2>0. NoPort \in Ports \cup {NoPort, BadPort} /\ 0 \in Nat
      OBVIOUS
    <2>1. Apart(p) /\ UNCHANGED <<port, seen>>
      BY <1>3 DEF Discover, Goto, files, local, Apart, Places, Writing
    <2> QED
      BY <2>0, <2>1, ApartWhole
  <1> QED
    BY <1>1, <1>2, <1>3 DEF StartupNext, Config

\* The configuration is whole unless two writers met or it was broken from the start.
THEOREM ConfigAlwaysWhole == StartupSpec => []ConfigIsWhole
  <1>1. WholeInv => ConfigIsWhole
    BY DEF WholeInv
  <1> QED
    BY <1>1, WholeInit, WholeStep, PTL DEF StartupSpec

----------------------------------------------------------------------------
(* The chosen port.                                                        *)

\* The file was never broken, and no two writers met.
Settled == ~mixed /\ ~raced /\ wanted # NoPort

\* p has read the file, and its values were good: it is beyond its first reading, or
\* writes something after which it will be.
Told(p) ==
    \/ pc[p] \in {"loaded", "loadingAgain", "serving"}
    \/ pc[p] \in Writing /\ after[p] \in {"loaded", "loadingAgain", "serving", "saved"}

\* The file has, or would have once it is migrated, the port the user has chosen.
FileHasIt == Settled => config # Half /\ Made(config).port = wanted

\* What a process writes is what it read, migrated, or what the user has saved.
WritesIt(p) ==
    pc[p] \in Writing =>
        IF after[p] = "saved" THEN value[p].version = 2 ELSE value[p] = Made(base[p])

\* A process that has read the file since the last save has the right port.
HasIt(p) ==
    /\ seen[p] <= saves
    /\ Told(p) =>
        /\ env # BadPort
        /\ Settled /\ seen[p] = saves => port[p] = IF env # NoPort THEN env ELSE wanted

ChoiceInv == FileHasIt /\ \A p \in Procs : WritesIt(p) /\ HasIt(p)

\* An old file has the port it will be migrated to.
LEMMA ChoiceInit == StartupInit => ChoiceInv
  <1> SUFFICES ASSUME StartupInit PROVE ChoiceInv
    OBVIOUS
  <1>1. Init
    BY DEF StartupInit
  <1>2. CASE config = Half
    <2>1. wanted = NoPort
      BY <1>1, <1>2, ConfigFacts DEF Init, Half
    <2> QED
      BY <1>1, <2>1 DEF Init, ChoiceInv, FileHasIt, WritesIt, HasIt, Told, Settled, Writing
  <1>3. CASE config # Half
    <2>1. Made(config).port = wanted
      <3>1. CASE config = Missing
        BY <1>1, <3>1, ConfigFacts DEF Init, Defaults
      <3>2. CASE config \in Configs /\ config.version = 1
        BY <1>1, <3>2, ConfigFacts DEF Init, Migrated
      <3>3. CASE config \in Configs /\ config.version # 1
        BY <1>1, <3>3, ConfigFacts DEF Init, Migrated
      <3> QED
        BY <1>1, <1>3, <3>1, <3>2, <3>3 DEF Init
    <2> QED
      BY <1>1, <1>3, <2>1 DEF Init, ChoiceInv, FileHasIt, WritesIt, HasIt, Told, Settled, Writing
  <1> QED
    BY <1>2, <1>3

\* A step of p that saves nothing and leaves the file as it is has to be right about p only.
LEMMA ChoiceKept ==
    ASSUME TypeInv, ChoiceInv, NEW p \in Procs,
           UNCHANGED <<config, env, saves, wanted, raced>>, mixed => mixed',
           \A q \in Procs \ {p} : /\ pc'[q] = pc[q] /\ after'[q] = after[q]
                                  /\ value'[q] = value[q] /\ base'[q] = base[q]
                                  /\ port'[q] = port[q] /\ seen'[q] = seen[q],
           WritesIt(p)', HasIt(p)'
    PROVE  ChoiceInv'
  <1>1. FileHasIt'
    BY DEF ChoiceInv, FileHasIt, Settled, Made
  <1>2. ASSUME NEW q \in Procs \ {p} PROVE WritesIt(q)' /\ HasIt(q)'
    <2>1. WritesIt(q) /\ HasIt(q)
      BY DEF ChoiceInv
    <2> QED
      BY <2>1 DEF WritesIt, HasIt, Told, Settled, Made
  <1> QED
    BY <1>1, <1>2 DEF ChoiceInv

\* So if p is apart from any write, and has been told what it was told before.
LEMMA ChoiceApart ==
    ASSUME TypeInv, ChoiceInv, NEW p \in Procs, Apart(p), UNCHANGED <<port, seen>>,
           Told(p)' => Told(p)
    PROVE  ChoiceInv'
  <1>1. PICK place \in Places \ Writing : pc' = [pc EXCEPT ![p] = place]
    BY DEF Apart
  <1>2. /\ UNCHANGED <<config, mixed, env, saves, wanted, raced>>
        /\ UNCHANGED <<value, base, after>>
    BY DEF Apart
  <1>3. pc'[p] \notin Writing /\ \A q \in Procs \ {p} : pc'[q] = pc[q]
    BY <1>1 DEF TypeInv
  <1>4. WritesIt(p)'
    BY <1>3 DEF WritesIt
  <1>5. HasIt(p)'
    BY <1>2 DEF ChoiceInv, HasIt, Settled
  <1> QED
    BY <1>2, <1>3, <1>4, <1>5, ChoiceKept

\* So too if p prepares a write of the right value.
LEMMA ChoicePrepared ==
    ASSUME TypeInv, ChoiceInv, NEW p \in Procs, NEW new, NEW next \in Afters,
           Prepare(p, new, next), UNCHANGED <<port, seen>>,
           UNCHANGED <<files, env, saves, wanted, raced>>,
           IF next = "saved" THEN new.version = 2 ELSE new = Made(config),
           next \in {"loaded", "loadingAgain", "serving", "saved"} => Told(p)
    PROVE  ChoiceInv'
  <1>1. /\ value' = [value EXCEPT ![p] = new] /\ base' = [base EXCEPT ![p] = config]
        /\ after' = [after EXCEPT ![p] = next] /\ pc' = [pc EXCEPT ![p] = "opening"]
        /\ UNCHANGED <<config, mixed, env, saves, wanted, raced>>
    BY DEF Prepare, Goto, files
  <1>2. /\ pc'[p] = "opening" /\ after'[p] = next /\ value'[p] = new /\ base'[p] = config
        /\ \A q \in Procs \ {p} : /\ pc'[q] = pc[q] /\ after'[q] = after[q]
                                  /\ value'[q] = value[q] /\ base'[q] = base[q]
    BY <1>1 DEF TypeInv
  <1>3. WritesIt(p)'
    BY <1>1, <1>2 DEF WritesIt, Made
  <1>4. Told(p)' => Told(p)
    BY <1>2 DEF Told
  <1>5. HasIt(p)'
    BY <1>1, <1>4 DEF ChoiceInv, HasIt, Settled
  <1> QED
    BY <1>1, <1>2, <1>3, <1>5, ChoiceKept

\* The first reading gives the process the port the user has chosen.
LEMMA ChoiceLoad ==
    ASSUME TypeInv, ChoiceInv, NEW p \in Procs, Load(p)
    PROVE  ChoiceInv'
  <1>1. CASE config = Half /\ Goto(p, "down") /\ UNCHANGED <<value, base, after, port, seen>>
    <2>1. Apart(p) /\ UNCHANGED <<port, seen>>
      BY <1>1 DEF Load, Goto, files, Apart, Places, Writing
    <2>2. ~Told(p)'
      BY <1>1 DEF Goto, Told, TypeInv, Writing
    <2> QED
      BY <2>1, <2>2, ChoiceApart
  <1>2. CASE config # Half
    <2>1. /\ port' = [port EXCEPT ![p] =
                Effective(IF config = Missing THEN Defaults ELSE Migrated(config))]
          /\ seen' = [seen EXCEPT ![p] = saves]
          /\ UNCHANGED <<files, env, saves, wanted, raced>>
      BY <1>2 DEF Load
    <2>2. (IF config = Missing THEN Defaults ELSE Migrated(config)) = Made(config)
      BY ConfigFacts DEF Made
    <2>3. /\ seen'[p] = saves /\ port'[p] = Effective(Made(config))
          /\ \A q \in Procs \ {p} : port'[q] = port[q] /\ seen'[q] = seen[q]
      BY <2>1, <2>2 DEF TypeInv
    <2>4. /\ \A q \in Procs \ {p} : /\ pc'[q] = pc[q] /\ after'[q] = after[q]
                                    /\ value'[q] = value[q] /\ base'[q] = base[q]
          /\ WritesIt(p)' /\ (Told(p)' => ~Raises)
      <3>1. CASE config # Missing /\ Migrated(config) # config
        <4>1. Prepare(p, Made(config), IF Raises THEN "down" ELSE "loaded")
          BY <1>2, <3>1 DEF Load, Made
        <4>2. /\ pc'[p] = "opening" /\ value'[p] = Made(config) /\ base'[p] = config
              /\ after'[p] = IF Raises THEN "down" ELSE "loaded"
              /\ \A q \in Procs \ {p} : /\ pc'[q] = pc[q] /\ after'[q] = after[q]
                                        /\ value'[q] = value[q] /\ base'[q] = base[q]
          BY <4>1 DEF Prepare, Goto, TypeInv
        <4> QED
          BY <4>2 DEF WritesIt, Told, Made
      <3>2. CASE ~(config # Missing /\ Migrated(config) # config)
        <4>1. /\ Goto(p, IF Raises THEN "down" ELSE "loaded")
              /\ UNCHANGED <<value, base, after>>
          BY <1>2, <3>2 DEF Load
        <4>2. /\ pc'[p] = IF Raises THEN "down" ELSE "loaded"
              /\ \A q \in Procs \ {p} : pc'[q] = pc[q]
          BY <4>1 DEF Goto, TypeInv
        <4> QED
          BY <4>1, <4>2 DEF WritesIt, Told, Writing
      <3> QED
        BY <3>1, <3>2
    <2>5. /\ UNCHANGED <<config, env, saves, wanted, raced, mixed>>
      BY <2>1 DEF files
    <2>6. HasIt(p)'
      BY <2>3, <2>4, <2>5 DEF ChoiceInv, FileHasIt, HasIt, Settled, Effective, Raises, TypeInv
    <2> QED
      BY <2>3, <2>4, <2>5, <2>6, ChoiceKept
  <1> QED
    BY <1>1, <1>2 DEF Load

\* A write that met no other puts in place what was read, migrated, or what was saved.
LEMMA ChoiceReplace ==
    ASSUME TypeInv, WholeInv, ChoiceInv, NEW p \in Procs, Replace(p)
    PROVE  ChoiceInv'
  <1>1. /\ config' = temporary /\ raced' = (raced \/ config # base[p] \/ temporary # value[p])
        /\ UNCHANGED <<mixed, env, after, value, base, port, seen>>
        /\ pc[p] \in Writing
    BY DEF Replace, local, Writing
  <1>2. value[p] \in Configs
    BY <1>1 DEF WholeInv
  <1>3. ~raced' => config' = value[p] /\ base[p] = config /\ ~raced
    BY <1>1
  <1>4. \A q \in Procs \ {p} : pc'[q] = pc[q]
    BY DEF Replace, Goto, TypeInv
  <1>5. ASSUME NEW q \in Procs PROVE WritesIt(q)'
    <2>1. pc'[q] \in Writing => pc[q] \in Writing
      BY <1>1, <1>4
    <2> QED
      BY <1>1, <2>1 DEF ChoiceInv, WritesIt, Made
  <1>6. CASE after[p] = "saved"
    <2>1. wanted' = value[p].port /\ saves' = saves + 1
      BY <1>6 DEF Replace
    <2>2. FileHasIt'
      <3>1. WritesIt(p)
        BY DEF ChoiceInv
      <3>2. Made(value[p]) = value[p] /\ value[p] # Half
        BY <1>1, <1>2, <1>6, <3>1, ConfigFacts DEF WritesIt
      <3> QED
        BY <1>3, <2>1, <3>2 DEF FileHasIt, Settled, Made
    <2>3. ASSUME NEW q \in Procs PROVE HasIt(q)'
      <3>1. seen[q] <= saves /\ seen[q] \in Nat /\ saves \in Nat
        BY DEF ChoiceInv, HasIt, TypeInv
      <3>2. seen'[q] <= saves' /\ seen'[q] # saves'
        BY <1>1, <2>1, <3>1
      <3>3. Told(q)' => Told(q)
        <4>1. CASE q = p
          BY <1>1, <1>6, <4>1 DEF Told
        <4>2. CASE q # p
          BY <1>1, <1>4, <4>2 DEF Told
        <4> QED
          BY <4>1, <4>2
      <3> QED
        BY <1>1, <3>2, <3>3 DEF ChoiceInv, HasIt
    <2> QED
      BY <1>5, <2>2, <2>3 DEF ChoiceInv
  <1>7. CASE after[p] # "saved"
    <2>1. wanted' = wanted /\ saves' = saves /\ Goto(p, after[p])
      BY <1>7 DEF Replace
    <2>2. FileHasIt'
      <3>1. WritesIt(p)
        BY DEF ChoiceInv
      <3>2. ~raced' => config' = Made(config) /\ base[p] = config
        BY <1>1, <1>3, <1>7, <3>1 DEF WritesIt
      <3>3. Settled' => Settled
        BY <1>1, <2>1 DEF Settled
      <3>4. ~raced' => config \in Configs \cup {Missing}
        BY <1>3 DEF TypeInv
      <3>5. ~raced' => Made(config') = Made(config) /\ config' # Half
        BY <3>2, <3>4, ConfigFacts
      <3> QED
        BY <2>1, <3>3, <3>5 DEF ChoiceInv, FileHasIt, Settled, Made
    <2>3. ASSUME NEW q \in Procs PROVE HasIt(q)'
      <3>1. Told(q)' => Told(q)
        <4>1. CASE q = p
          BY <1>1, <2>1, <4>1 DEF Told, Goto, TypeInv
        <4>2. CASE q # p
          BY <1>1, <1>4, <4>2 DEF Told
        <4> QED
          BY <4>1, <4>2
      <3>2. Settled' => Settled
        BY <1>1, <2>1 DEF Settled
      <3> QED
        BY <1>1, <2>1, <3>1, <3>2 DEF ChoiceInv, HasIt
    <2> QED
      BY <1>5, <2>2, <2>3 DEF ChoiceInv
  <1> QED
    BY <1>6, <1>7

\* Every step of every process.
LEMMA ChoiceStep ==
    TypeInv /\ WholeInv /\ ChoiceInv /\ [StartupNext]_startupVars => ChoiceInv'
  <1> SUFFICES ASSUME TypeInv, WholeInv, ChoiceInv, [StartupNext]_startupVars PROVE ChoiceInv'
    OBVIOUS
  <1>1. CASE UNCHANGED startupVars
    BY <1>1 DEF startupVars, vars, files, local, ChoiceInv, FileHasIt, WritesIt, HasIt,
                Settled, Told, Made
  <1>2. ASSUME NEW p \in Procs, ConfigStep(p) PROVE ChoiceInv'
    <2>1. CASE Launch(p) \/ ReplaceFails(p) \/ Crash(p)
      <3>1. Apart(p) /\ UNCHANGED <<port, seen>>
        BY <2>1 DEF Launch, ReplaceFails, Crash, Goto, files, local, Apart, Places, Writing
      <3>2. \/ pc'[p] \in {"ensuring", "down"}
            \/ /\ pc'[p] = "serving" /\ pc[p] \in Writing /\ after[p] = "saved"
        BY <2>1 DEF Launch, ReplaceFails, Crash, Goto, TypeInv, Writing
      <3>3. Told(p)' => Told(p)
        BY <3>2 DEF Told, Writing
      <3> QED
        BY <3>1, <3>3, ChoiceApart
    <2>2. CASE Ensure(p)
      <3>1. UNCHANGED <<port, seen>> /\ UNCHANGED <<files, env, saves, wanted, raced>>
        BY <2>2 DEF Ensure
      <3>2. CASE config # Missing
        <4>1. Apart(p)
          BY <2>2, <3>2 DEF Ensure, Goto, files, Apart, Places, Writing
        <4>2. ~Told(p)'
          BY <2>2, <3>2 DEF Ensure, Goto, Told, TypeInv, Writing
        <4> QED
          BY <3>1, <4>1, <4>2, ChoiceApart
      <3>3. CASE config = Missing
        <4>1. Prepare(p, Defaults, "loading") /\ Defaults = Made(config)
          BY <2>2, <3>3, ConfigFacts DEF Ensure
        <4> QED
          BY <3>1, <4>1, ChoicePrepared DEF Afters
      <3> QED
        BY <3>2, <3>3
    <2>3. CASE Load(p)
      BY <2>3, ChoiceLoad
    <2>4. CASE LoadAgain(p)
      <3>1. UNCHANGED <<port, seen>> /\ UNCHANGED <<files, env, saves, wanted, raced>>
        BY <2>4 DEF LoadAgain
      <3>2. Told(p)
        BY <2>4 DEF LoadAgain, Told
      <3>3. CASE \E place \in {"down", "serving"} :
                     Goto(p, place) /\ UNCHANGED <<value, base, after>>
        <4>1. Apart(p)
          BY <3>1, <3>3 DEF Goto, files, Apart, Places, Writing
        <4> QED
          BY <3>1, <3>2, <4>1, ChoiceApart
      <3>4. CASE config = Missing /\ Prepare(p, Defaults, "loadingAgain")
        <4>1. Defaults = Made(config)
          BY <3>4, ConfigFacts
        <4> QED
          BY <3>1, <3>2, <3>4, <4>1, ChoicePrepared DEF Afters
      <3>5. CASE config \in Configs /\ Prepare(p, Migrated(config), "serving")
        <4>1. Migrated(config) = Made(config)
          BY <3>5, ConfigFacts
        <4> QED
          BY <3>1, <3>2, <3>5, <4>1, ChoicePrepared DEF Afters
      <3> QED
        BY <2>4, <3>3, <3>4, <3>5 DEF LoadAgain
    <2>5. ASSUME NEW new \in Ports, Save(p, new) PROVE ChoiceInv'
      <3>1. /\ Prepare(p, [version |-> 2, port |-> new], "saved") /\ Told(p)
            /\ UNCHANGED <<port, seen>> /\ UNCHANGED <<files, env, saves, wanted, raced>>
        BY <2>5 DEF Save, Told
      <3>2. [version |-> 2, port |-> new].version = 2
        OBVIOUS
      <3> QED
        BY <3>1, <3>2, ChoicePrepared DEF Afters
    <2>6. CASE Open(p) \/ Write(p)
      <3>0. mixed => mixed'
        <4>1. CASE mixed' = (mixed \/ \E q \in Procs \ {p} : pc[q] \in {"writing", "replacing"})
          BY <4>1, Zenon
        <4>2. CASE mixed' = mixed
          BY <4>2
        <4> QED
          BY <2>6, <4>1, <4>2 DEF Open, Write
      <3>1. /\ UNCHANGED <<config, env, saves, wanted, raced, after, value, base, port, seen>>
            /\ mixed => mixed'
        BY <2>6, <3>0 DEF Open, Write, local
      <3>2. /\ pc[p] \in Writing /\ pc'[p] \in Writing
            /\ \A q \in Procs \ {p} : pc'[q] = pc[q]
        BY <2>6 DEF Open, Write, Goto, TypeInv, Writing
      <3>3. WritesIt(p)'
        BY <3>1, <3>2 DEF ChoiceInv, WritesIt, Made
      <3>4. HasIt(p)'
        <4>1. Told(p)' => Told(p)
          BY <3>1, <3>2 DEF Told, Writing
        <4>2. Settled' => Settled
          BY <3>1 DEF Settled
        <4> QED
          BY <3>1, <4>1, <4>2 DEF ChoiceInv, HasIt
      <3> QED
        BY <3>1, <3>2, <3>3, <3>4, ChoiceKept
    <2>7. CASE Replace(p)
      BY <2>7, ChoiceReplace
    <2> QED
      BY <1>2, <2>1, <2>2, <2>3, <2>4, <2>5, <2>6, <2>7 DEF ConfigStep
  <1>3. ASSUME NEW p \in Procs, Discover(p) PROVE ChoiceInv'
    <2>1. Apart(p) /\ UNCHANGED <<port, seen>> /\ Told(p)
      BY <1>3 DEF Discover, Goto, files, local, Apart, Told, Places, Writing
    <2> QED
      BY <2>1, ChoiceApart
  <1> QED
    BY <1>1, <1>2, <1>3 DEF StartupNext, Config

\* A process that serves, and has read the file since the last save, serves on the port
\* the user has chosen, or on the one of the environment.
THEOREM ChosenPortAlwaysServed == StartupSpec => []ServesChosenPort
  <1>1. TypeInv /\ ChoiceInv => ServesChosenPort
    <2> SUFFICES ASSUME TypeInv, ChoiceInv, NEW p \in Procs, pc[p] = "serving",
                        seen[p] = saves, Settled
                 PROVE  /\ port[p] = (IF env # NoPort THEN env ELSE wanted)
                        /\ port[p] \in Ports
      BY DEF ServesChosenPort, Settled
    <2>1. env # BadPort /\ port[p] = IF env # NoPort THEN env ELSE wanted
      BY DEF ChoiceInv, HasIt, Told
    <2>2. port[p] \in Ports
      BY <2>1, ConfigAssumption DEF TypeInv, Settled
    <2> QED
      BY <2>1, <2>2
  <1> QED
    BY <1>1, WholeInit, WholeStep, ChoiceInit, ChoiceStep, PTL DEF StartupSpec

----------------------------------------------------------------------------
(* Sorting.                                                                *)

\* order is a strict total order of the places in set.
StrictOrder(set, order) ==
    /\ \A i \in set : <<i, i>> \notin order
    /\ \A i, j, k \in set : <<i, j>> \in order /\ <<j, k>> \in order => <<i, k>> \in order
    /\ \A i, j \in set : i = j \/ <<i, j>> \in order \/ <<j, i>> \in order

Below(set, order, i) == {j \in set : <<j, i>> \in order}

\* How many places come before one grows along the order, and is below the size of the set.
LEMMA CountBelow ==
    ASSUME NEW set, IsFiniteSet(set), NEW order, StrictOrder(set, order)
    PROVE  /\ Cardinality(set) \in Nat
           /\ \A i \in set : /\ Cardinality(Below(set, order, i)) \in Nat
                             /\ Cardinality(Below(set, order, i)) < Cardinality(set)
           /\ \A i, j \in set : <<i, j>> \in order =>
                  Cardinality(Below(set, order, i)) < Cardinality(Below(set, order, j))
  <1>1. Cardinality(set) \in Nat
    BY FS_CardinalityType
  <1>2. ASSUME NEW i \in set PROVE IsFiniteSet(Below(set, order, i)) /\ i \notin Below(set, order, i)
    <2>1. Below(set, order, i) \in SUBSET set
      BY DEF Below
    <2>2. i \notin Below(set, order, i)
      BY DEF Below, StrictOrder
    <2> QED
      BY <2>1, <2>2, FS_Subset
  <1>3. ASSUME NEW i \in set, NEW above, above \subseteq set, i \in above,
               Below(set, order, i) \subseteq above
        PROVE  /\ Cardinality(Below(set, order, i)) \in Nat
               /\ Cardinality(Below(set, order, i)) < Cardinality(above)
    <2> DEFINE below == Below(set, order, i)
    <2>1. IsFiniteSet(below) /\ i \notin below
      BY <1>2
    <2>2. IsFiniteSet(above) /\ Cardinality(above) \in Nat /\ Cardinality(below) \in Nat
      BY <1>3, <2>1, FS_Subset, FS_CardinalityType
    <2>3. below \in SUBSET (above \ {i})
      BY <1>3, <2>1
    <2>4. IsFiniteSet(above \ {i}) /\ Cardinality(above \ {i}) = Cardinality(above) - 1
      BY <1>3, <2>2, FS_RemoveElement
    <2>5. Cardinality(below) <= Cardinality(above \ {i})
      BY <2>3, <2>4, FS_Subset
    <2> QED
      BY <2>2, <2>4, <2>5
  <1>4. ASSUME NEW i \in set
        PROVE  /\ Cardinality(Below(set, order, i)) \in Nat
               /\ Cardinality(Below(set, order, i)) < Cardinality(set)
    <2>1. Below(set, order, i) \subseteq set
      BY DEF Below
    <2> QED
      BY <1>3, <2>1
  <1>5. ASSUME NEW i \in set, NEW j \in set, <<i, j>> \in order
        PROVE  Cardinality(Below(set, order, i)) < Cardinality(Below(set, order, j))
    <2>1. /\ Below(set, order, j) \subseteq set /\ i \in Below(set, order, j)
          /\ Below(set, order, i) \subseteq Below(set, order, j)
      BY <1>5 DEF Below, StrictOrder
    <2> QED
      BY <1>3, <2>1
  <1> QED
    BY <1>1, <1>4, <1>5

\* So every place is the nth for one n, and the nth are in order.
LEMMA NthPlace ==
    ASSUME NEW set, IsFiniteSet(set), NEW order, StrictOrder(set, order)
    PROVE  /\ \A n \in 1..Cardinality(set) : Nth(set, order, n) \in set
           /\ \A i \in set : \E n \in 1..Cardinality(set) : Nth(set, order, n) = i
           /\ \A m, n \in 1..Cardinality(set) :
                  m < n => <<Nth(set, order, m), Nth(set, order, n)>> \in order
  <1> DEFINE size == Cardinality(set)
             count(i) == Cardinality(Below(set, order, i))
             f == [i \in set |-> count(i) + 1]
  <1>1. /\ size \in Nat
        /\ \A i \in set : count(i) \in Nat /\ count(i) < size
        /\ \A i, j \in set : <<i, j>> \in order => count(i) < count(j)
    BY CountBelow
  <1>2. \A n : Nth(set, order, n) = CHOOSE i \in set : count(i) = n - 1
    BY DEF Nth, Below
  <1> HIDE DEF count
  <1>3. \A i, j \in set : count(i) = count(j) => i = j
    <2> SUFFICES ASSUME NEW i \in set, NEW j \in set, count(i) = count(j) PROVE i = j
      OBVIOUS
    <2>1. i = j \/ <<i, j>> \in order \/ <<j, i>> \in order
      BY DEF StrictOrder
    <2>2. <<i, j>> \notin order /\ <<j, i>> \notin order
      BY <1>1
    <2> QED
      BY <2>1, <2>2
  <1>4. f \in [set -> 1..size]
    BY <1>1
  <1>5. f \in Injection(set, 1..size)
    BY <1>1, <1>3, <1>4 DEF Injection, IsInjective
  <1>6. IsFiniteSet(1..size) /\ Cardinality(1..size) = size
    BY <1>1, FS_Interval
  <1>7. f \in Surjection(set, 1..size)
    BY <1>5, <1>6, FS_Injection
  <1>8. ASSUME NEW n \in 1..size
        PROVE  Nth(set, order, n) \in set /\ count(Nth(set, order, n)) = n - 1
    <2>1. PICK i \in set : f[i] = n
      BY <1>7 DEF Surjection
    <2>2. count(i) = n - 1
      BY <1>1, <2>1
    <2> QED
      BY <1>2, <2>2
  <1>9. ASSUME NEW i \in set PROVE \E n \in 1..size : Nth(set, order, n) = i
    <2>1. count(i) + 1 \in 1..size /\ (count(i) + 1) - 1 = count(i)
      BY <1>1
    <2>2. Nth(set, order, count(i) + 1) = i
      BY <1>3, <1>8, <2>1
    <2> QED
      BY <2>1, <2>2
  <1>10. ASSUME NEW m \in 1..size, NEW n \in 1..size, m < n
         PROVE  <<Nth(set, order, m), Nth(set, order, n)>> \in order
    <2> DEFINE a == Nth(set, order, m)
               b == Nth(set, order, n)
    <2>1. a \in set /\ b \in set /\ count(a) < count(b)
      BY <1>1, <1>8, <1>10
    <2>2. a # b /\ <<b, a>> \notin order
      BY <1>1, <2>1
    <2> QED
      BY <2>1, <2>2 DEF StrictOrder
  <1> QED
    BY <1>8, <1>9, <1>10

\* The order of a list is strict, on any of its places.
LEMMA ListedStrict ==
    ASSUME NEW s \in Seq(Rows), NEW set, set \subseteq DOMAIN s
    PROVE  /\ IsFiniteSet(set) /\ StrictOrder(set, AsListed(s))
           /\ \A i, j \in set : <<i, j>> \in AsListed(s) <=> i < j
  <1>1. Len(s) \in Nat /\ DOMAIN s = 1..Len(s)
    BY LenProperties
  <1>2. IsFiniteSet(DOMAIN s)
    BY <1>1, FS_Interval
  <1>3. IsFiniteSet(set)
    BY <1>2, FS_Subset
  <1>4. \A i, j \in DOMAIN s : <<i, j>> \in AsListed(s) <=> i < j
    BY DEF AsListed, Pairs
  <1>5. StrictOrder(set, AsListed(s))
    BY <1>1, <1>4 DEF StrictOrder
  <1> QED
    BY <1>3, <1>4, <1>5

\* A rank is a tuple of three numbers, and a list is compared from the left.
LEMMA RankLess ==
    ASSUME NEW a \in Rows, NEW b \in Rows
    PROVE  /\ Rank(a)[1] \in Int /\ Rank(a)[2] \in Int /\ Rank(a)[3] \in Int
           /\ Rank(a) = Rank(b) <=> \A i \in 1..3 : Rank(a)[i] = Rank(b)[i]
           /\ Less(Rank(a), Rank(b)) <=>
                 \/ Rank(a)[1] < Rank(b)[1]
                 \/ Rank(a)[1] = Rank(b)[1] /\ Rank(a)[2] < Rank(b)[2]
                 \/ /\ Rank(a)[1] = Rank(b)[1] /\ Rank(a)[2] = Rank(b)[2]
                    /\ Rank(a)[3] < Rank(b)[3]
  <1>1. a.metric \in Int /\ b.metric \in Int
    BY DEF Rows
  <1>2. 1..3 = {1, 2, 3} /\ 1..1 - 1 = {} /\ 1..2 - 1 = {1} /\ 1..3 - 1 = {1, 2}
    OBVIOUS
  <1> DEFINE s == Rank(a)
             t == Rank(b)
  <1>3. /\ s[1] \in Int /\ s[2] \in Int /\ s[3] \in Int
        /\ t[1] \in Int /\ t[2] \in Int /\ t[3] \in Int
    BY <1>1 DEF Rank
  <1>4. s = t <=> \A i \in 1..3 : s[i] = t[i]
    BY <1>2 DEF Rank
  <1> HIDE DEF s, t
  <1>5. Less(s, t) <=>
           \/ s[1] < t[1] /\ \A j \in 1..1 - 1 : s[j] = t[j]
           \/ s[2] < t[2] /\ \A j \in 1..2 - 1 : s[j] = t[j]
           \/ s[3] < t[3] /\ \A j \in 1..3 - 1 : s[j] = t[j]
    BY <1>2 DEF Less
  <1>6. Less(s, t) <=> \/ s[1] < t[1]
                       \/ s[1] = t[1] /\ s[2] < t[2]
                       \/ s[1] = t[1] /\ s[2] = t[2] /\ s[3] < t[3]
    BY <1>2, <1>5
  <1> QED
    BY <1>3, <1>4, <1>6 DEF s, t

\* So the order by rank is strict on a list.
LEMMA RankedStrict ==
    ASSUME NEW s \in Seq(Rows)
    PROVE  /\ StrictOrder(DOMAIN s, ByRank(s))
           /\ \A i, j \in DOMAIN s :
                  <<i, j>> \in ByRank(s) => ~Less(Rank(s[j]), Rank(s[i]))
  <1>1. Len(s) \in Nat /\ DOMAIN s = 1..Len(s)
    BY LenProperties
  <1>2. \A i \in DOMAIN s : s[i] \in Rows
    BY <1>1, ElementOfSeq
  <1> DEFINE R(i) == Rank(s[i])
             Lower(i, j) == \/ R(i)[1] < R(j)[1]
                            \/ R(i)[1] = R(j)[1] /\ R(i)[2] < R(j)[2]
                            \/ R(i)[1] = R(j)[1] /\ R(i)[2] = R(j)[2] /\ R(i)[3] < R(j)[3]
             Same(i, j) == R(i)[1] = R(j)[1] /\ R(i)[2] = R(j)[2] /\ R(i)[3] = R(j)[3]
  <1>3. \A i \in DOMAIN s : R(i)[1] \in Int /\ R(i)[2] \in Int /\ R(i)[3] \in Int
    BY <1>2, RankLess
  <1>4. ASSUME NEW i \in DOMAIN s, NEW j \in DOMAIN s
        PROVE  /\ Less(R(i), R(j)) <=> Lower(i, j)
               /\ R(i) = R(j) <=> Same(i, j)
    <2>1. s[i] \in Rows /\ s[j] \in Rows
      BY <1>2
    <2>2. Less(R(i), R(j)) <=> Lower(i, j)
      BY <2>1, RankLess
    <2>3. R(i) = R(j) <=> \A k \in 1..3 : R(i)[k] = R(j)[k]
      BY <2>1, RankLess
    <2>4. 1..3 = {1, 2, 3}
      OBVIOUS
    <2> HIDE DEF R
    <2>5. R(i) = R(j) <=> Same(i, j)
      BY <2>3, <2>4
    <2> QED
      BY <2>2, <2>5
  <1>5. \A i, j \in DOMAIN s :
            <<i, j>> \in ByRank(s) <=> Less(R(i), R(j)) \/ (R(i) = R(j) /\ i < j)
    BY DEF ByRank, Pairs
  <1>6. \A i, j \in DOMAIN s :
            <<i, j>> \in ByRank(s) <=> Lower(i, j) \/ (Same(i, j) /\ i < j)
    <2> HIDE DEF R, Lower, Same
    <2> QED
      BY <1>4, <1>5, Zenon
  <1> HIDE DEF R
  <1>7. \A i \in DOMAIN s : <<i, i>> \notin ByRank(s)
    BY <1>1, <1>3, <1>6
  <1>8. ASSUME NEW i \in DOMAIN s, NEW j \in DOMAIN s, NEW k \in DOMAIN s,
               <<i, j>> \in ByRank(s), <<j, k>> \in ByRank(s)
        PROVE  <<i, k>> \in ByRank(s)
    <2>1. Lower(i, j) \/ (Same(i, j) /\ i < j)
      BY <1>6, <1>8
    <2>2. Lower(j, k) \/ (Same(j, k) /\ j < k)
      BY <1>6, <1>8
    <2>3. Lower(i, k) \/ (Same(i, k) /\ i < k)
      BY <1>1, <1>3, <2>1, <2>2, SMTT(30)
    <2> QED
      BY <1>6, <2>3
  <1>9. ASSUME NEW i \in DOMAIN s, NEW j \in DOMAIN s
        PROVE  i = j \/ <<i, j>> \in ByRank(s) \/ <<j, i>> \in ByRank(s)
    <2>1. \/ i = j \/ Lower(i, j) \/ (Same(i, j) /\ i < j)
          \/ Lower(j, i) \/ (Same(j, i) /\ j < i)
      BY <1>1, <1>3
    <2> QED
      BY <1>6, <2>1
  <1>10. ASSUME NEW i \in DOMAIN s, NEW j \in DOMAIN s, <<i, j>> \in ByRank(s)
         PROVE  ~Less(R(j), R(i))
    <2>1. Lower(i, j) \/ (Same(i, j) /\ i < j)
      BY <1>6, <1>10
    <2>2. ~Lower(j, i)
      BY <1>3, <2>1
    <2> QED
      BY <1>4, <2>2
  <1> QED
    BY <1>7, <1>8, <1>9, <1>10 DEF StrictOrder, R

\* Preferable is what the rank says.
LEMMA PreferableIsLess ==
    ASSUME NEW a \in Rows, NEW b \in Rows
    PROVE  Preferable(a, b) <=> Less(Rank(a), Rank(b))
  <1>1. /\ a.virtual \in BOOLEAN /\ b.virtual \in BOOLEAN
        /\ a.metric \in Int /\ b.metric \in Int
    BY DEF Rows
  <1>2. /\ Rank(a)[1] = IF a.virtual THEN 1 ELSE 0
        /\ Rank(a)[2] = IF a.ip \in PrivateIPs THEN 0 ELSE 1
        /\ Rank(a)[3] = a.metric
        /\ Rank(b)[1] = IF b.virtual THEN 1 ELSE 0
        /\ Rank(b)[2] = IF b.ip \in PrivateIPs THEN 0 ELSE 1
        /\ Rank(b)[3] = b.metric
    BY DEF Rank
  <1>3. Less(Rank(a), Rank(b)) <=>
            \/ Rank(a)[1] < Rank(b)[1]
            \/ Rank(a)[1] = Rank(b)[1] /\ Rank(a)[2] < Rank(b)[2]
            \/ /\ Rank(a)[1] = Rank(b)[1] /\ Rank(a)[2] = Rank(b)[2]
               /\ Rank(a)[3] < Rank(b)[3]
    BY RankLess
  <1>4. CASE a.virtual = b.virtual
    <2>1. Rank(a)[1] = Rank(b)[1] /\ Rank(a)[1] \in Int
      BY <1>2, <1>4
    <2>2. Preferable(a, b) <=>
              IF (a.ip \in PrivateIPs) # (b.ip \in PrivateIPs) THEN a.ip \in PrivateIPs
              ELSE a.metric < b.metric
      BY <1>4, Zenon DEF Preferable
    <2>3. CASE a.ip \in PrivateIPs /\ b.ip \notin PrivateIPs
      BY <1>2, <1>3, <2>1, <2>2, <2>3
    <2>4. CASE a.ip \notin PrivateIPs /\ b.ip \in PrivateIPs
      BY <1>2, <1>3, <2>1, <2>2, <2>4
    <2>5. CASE (a.ip \in PrivateIPs) = (b.ip \in PrivateIPs)
      BY <1>1, <1>2, <1>3, <2>1, <2>2, <2>5
    <2> QED
      BY <2>3, <2>4, <2>5
  <1>5. CASE a.virtual # b.virtual
    <2>1. Preferable(a, b) <=> b.virtual
      BY <1>5, Zenon DEF Preferable
    <2>2. \/ a.virtual = TRUE /\ b.virtual = FALSE
          \/ a.virtual = FALSE /\ b.virtual = TRUE
      BY <1>1, <1>5, Zenon
    <2>3. \/ ~b.virtual /\ Rank(a)[1] = 1 /\ Rank(b)[1] = 0
          \/ b.virtual /\ Rank(a)[1] = 0 /\ Rank(b)[1] = 1
      BY <1>2, <2>2, Zenon
    <2> QED
      BY <1>3, <2>1, <2>3
  <1> QED
    BY <1>4, <1>5

\* t has the rows of s at the places of the set, in the order.
Picked(t, s, set, order) ==
    /\ t \in Seq(Rows) /\ (t = <<>> <=> set = {})
    /\ \A n \in DOMAIN t : Nth(set, order, n) \in set /\ t[n] = s[Nth(set, order, n)]
    /\ \A i \in set : \E n \in DOMAIN t : Nth(set, order, n) = i
    /\ \A m, n \in DOMAIN t :
           m < n => <<Nth(set, order, m), Nth(set, order, n)>> \in order

\* So has what Pick returns.
LEMMA PickFacts ==
    ASSUME NEW s \in Seq(Rows), NEW set, set \subseteq DOMAIN s, NEW order,
           StrictOrder(set, order)
    PROVE  Picked(Pick(s, set, order), s, set, order)
  <1> DEFINE size == Cardinality(set)
             t == Pick(s, set, order)
  <1>1. IsFiniteSet(set)
    BY ListedStrict
  <1>2. size \in Nat /\ (size = 0 <=> set = {})
    BY <1>1, FS_CardinalityType, FS_EmptySet
  <1>3. /\ \A n \in 1..size : Nth(set, order, n) \in set
        /\ \A i \in set : \E n \in 1..size : Nth(set, order, n) = i
        /\ \A m, n \in 1..size :
               m < n => <<Nth(set, order, m), Nth(set, order, n)>> \in order
    BY <1>1, NthPlace
  <1>4. \A i \in DOMAIN s : s[i] \in Rows
    BY ElementOfSeq, LenProperties
  <1>5. t \in [1..size -> Rows] /\ DOMAIN t = 1..size
        /\ \A n \in 1..size : t[n] = s[Nth(set, order, n)]
    BY <1>3, <1>4 DEF Pick
  <1> HIDE DEF t, size
  <1>6. t \in Seq(Rows) /\ Len(t) = size
    BY <1>2, <1>5, IsASeq, LenProperties
  <1>7. t = <<>> <=> set = {}
    BY <1>2, <1>6, EmptySeq
  <1> QED
    BY <1>3, <1>5, <1>6, <1>7 DEF t, size, Picked

\* The rows that count in a list: usable, and none with their address before them.
Counting(rows) == {i \in DOMAIN rows : /\ Usable(rows[i].ip)
                                       /\ \A j \in 1..i - 1 : rows[j].ip # rows[i].ip}

\* The lists a and b have the same rows at the places x and y.
SameRows(a, x, b, y) ==
    /\ \A i \in x : \E j \in y : a[i] = b[j]
    /\ \A j \in y : \E i \in x : a[i] = b[j]

\* The candidates of a source are its usable rows, and the first ones are those that count.
LEMMA CandidatesFacts ==
    ASSUME NEW result, result.rows \in Seq(Rows), Candidates(result) # <<>>
    PROVE  /\ Candidates(result) \in Seq(Rows)
           /\ SameRows(Candidates(result), Firsts(Candidates(result)),
                       result.rows, Counting(result.rows))
           /\ \A n \in DOMAIN Candidates(result) : Usable(Candidates(result)[n].ip)
  <1> DEFINE rows == result.rows
             usable == {i \in DOMAIN rows : Usable(rows[i].ip)}
             t == Candidates(result)
             at(n) == Nth(usable, AsListed(rows), n)
  <1>1. t = Pick(rows, usable, AsListed(rows))
    BY DEF Candidates
  <1>2. /\ usable \subseteq DOMAIN rows /\ StrictOrder(usable, AsListed(rows))
        /\ \A i, j \in usable : <<i, j>> \in AsListed(rows) <=> i < j
    BY ListedStrict
  <1>3. /\ t \in Seq(Rows)
        /\ \A n \in DOMAIN t : at(n) \in usable /\ t[n] = rows[at(n)]
        /\ \A i \in usable : \E n \in DOMAIN t : at(n) = i
        /\ \A m, n \in DOMAIN t : m < n => at(m) < at(n)
    <2>1. Picked(t, rows, usable, AsListed(rows))
      BY <1>1, <1>2, PickFacts
    <2> HIDE DEF t, rows, usable
    <2> QED
      BY <1>2, <2>1 DEF Picked
  <1>4. /\ Len(t) \in Nat /\ DOMAIN t = 1..Len(t)
        /\ Len(rows) \in Nat /\ DOMAIN rows = 1..Len(rows)
    BY <1>3, LenProperties
  <1> HIDE DEF t, at
  <1>5. ASSUME NEW n \in Firsts(t) PROVE at(n) \in Counting(rows)
    <2>1. n \in DOMAIN t /\ \A j \in 1..n - 1 : t[j].ip # t[n].ip
      BY DEF Firsts
    <2>2. at(n) \in usable /\ t[n] = rows[at(n)]
      BY <1>3, <2>1
    <2>3. ASSUME NEW j \in 1..at(n) - 1, rows[j].ip = rows[at(n)].ip PROVE FALSE
      <3>1. j \in usable /\ j < at(n)
        BY <1>4, <2>2, <2>3
      <3>2. PICK m \in DOMAIN t : at(m) = j
        BY <1>3, <3>1
      <3>3. ~(n < m) /\ m # n
        BY <1>3, <1>4, <2>1, <2>2, <3>1, <3>2
      <3>4. m \in 1..n - 1
        BY <1>4, <2>1, <3>3
      <3> QED
        BY <1>3, <2>1, <2>2, <2>3, <3>2, <3>4
    <2> QED
      BY <2>2, <2>3 DEF Counting
  <1>6. ASSUME NEW i \in Counting(rows) PROVE \E n \in Firsts(t) : at(n) = i
    <2>1. i \in usable /\ \A j \in 1..i - 1 : rows[j].ip # rows[i].ip
      BY DEF Counting
    <2>2. PICK n \in DOMAIN t : at(n) = i
      BY <1>3, <2>1
    <2>3. ASSUME NEW m \in 1..n - 1 PROVE t[m].ip # t[n].ip
      <3>1. m \in DOMAIN t /\ m < n /\ n \in DOMAIN t
        BY <1>4, <2>2
      <3>2. at(m) < i /\ at(m) \in usable
        BY <1>3, <2>2, <3>1
      <3>3. at(m) \in 1..i - 1
        BY <1>4, <2>1, <3>2
      <3> QED
        BY <1>3, <2>1, <2>2, <3>1, <3>3
    <2>4. n \in Firsts(t)
      BY <2>2, <2>3 DEF Firsts
    <2> QED
      BY <2>2, <2>4
  <1>7. \A n \in Firsts(t) : n \in DOMAIN t
    BY DEF Firsts
  <1>8. SameRows(t, Firsts(t), rows, Counting(rows))
    BY <1>3, <1>5, <1>6, <1>7 DEF SameRows
  <1> QED
    BY <1>3, <1>8 DEF t

\* The first of the sorted list is a row that counts, and no other that counts is preferable.
LEMMA SortedFirst ==
    ASSUME NEW s \in Seq(Rows)
    PROVE  LET e == Sorted(Deduplicate(s)) IN
           /\ s = <<>> => e = <<>>
           /\ s # <<>> =>
                 e # <<>> /\ \E i \in Firsts(s) :
                    e[1] = s[i] /\ \A j \in Firsts(s) : ~Preferable(s[j], s[i])
  <1> DEFINE d == Deduplicate(s)
             e == Sorted(d)
             atD(n) == Nth(Firsts(s), AsListed(s), n)
             atE(n) == Nth(DOMAIN d, ByRank(d), n)
  <1>0. Len(s) \in Nat /\ DOMAIN s = 1..Len(s) /\ (s = <<>> <=> Len(s) = 0)
    BY LenProperties, EmptySeq
  <1>1. Firsts(s) \subseteq DOMAIN s /\ StrictOrder(Firsts(s), AsListed(s))
    <2>1. Firsts(s) \subseteq DOMAIN s
      BY DEF Firsts
    <2> QED
      BY <2>1, ListedStrict
  <1>2. /\ d \in Seq(Rows) /\ (d = <<>> <=> Firsts(s) = {})
        /\ \A n \in DOMAIN d : atD(n) \in Firsts(s) /\ d[n] = s[atD(n)]
        /\ \A i \in Firsts(s) : \E n \in DOMAIN d : atD(n) = i
    <2>1. Picked(d, s, Firsts(s), AsListed(s))
      BY <1>1, PickFacts DEF Deduplicate
    <2> HIDE DEF d
    <2> QED
      BY <2>1 DEF Picked
  <1> HIDE DEF d, atD
  <1>3. /\ StrictOrder(DOMAIN d, ByRank(d))
        /\ \A i, j \in DOMAIN d : <<i, j>> \in ByRank(d) => ~Less(Rank(d[j]), Rank(d[i]))
    BY <1>2, RankedStrict
  <1>4. /\ e \in Seq(Rows) /\ (e = <<>> <=> DOMAIN d = {})
        /\ \A n \in DOMAIN e : atE(n) \in DOMAIN d /\ e[n] = d[atE(n)]
        /\ \A i \in DOMAIN d : \E n \in DOMAIN e : atE(n) = i
        /\ \A m, n \in DOMAIN e : m < n => <<atE(m), atE(n)>> \in ByRank(d)
    <2>1. Picked(e, d, DOMAIN d, ByRank(d))
      BY <1>2, <1>3, PickFacts DEF Sorted
    <2> HIDE DEF e
    <2> QED
      BY <2>1 DEF Picked
  <1> HIDE DEF e, atE
  <1>5. /\ Len(d) \in Nat /\ DOMAIN d = 1..Len(d) /\ (d = <<>> <=> Len(d) = 0)
        /\ Len(e) \in Nat /\ DOMAIN e = 1..Len(e) /\ (e = <<>> <=> Len(e) = 0)
    BY <1>2, <1>4, LenProperties, EmptySeq
  <1>6. s = <<>> => Firsts(s) = {}
    BY <1>0, <1>1
  <1>7. s # <<>> => 1 \in Firsts(s)
    BY <1>0 DEF Firsts
  <1>8. s = <<>> => e = <<>>
    BY <1>2, <1>4, <1>5, <1>6
  <1>9. ASSUME s # <<>>
        PROVE  e # <<>> /\ \E i \in Firsts(s) :
                    e[1] = s[i] /\ \A j \in Firsts(s) : ~Preferable(s[j], s[i])
    <2>1. d # <<>> /\ e # <<>> /\ 1 \in DOMAIN e
      BY <1>2, <1>4, <1>5, <1>7, <1>9
    <2> DEFINE k == atE(1)
    <2>2. k \in DOMAIN d /\ e[1] = d[k]
      BY <1>4, <2>1
    <2>3. atD(k) \in Firsts(s) /\ e[1] = s[atD(k)]
      BY <1>2, <2>2
    <2>4. ASSUME NEW j \in Firsts(s) PROVE ~Preferable(s[j], s[atD(k)])
      <3>1. PICK n \in DOMAIN d : atD(n) = j
        BY <1>2
      <3>2. PICK m \in DOMAIN e : atE(m) = n
        BY <1>4, <3>1
      <3>3. m = 1 \/ 1 < m
        BY <1>5, <3>2
      <3>4. n = k \/ <<k, n>> \in ByRank(d)
        BY <1>4, <2>1, <3>2, <3>3
      <3>5. d[n] = s[j] /\ d[k] = s[atD(k)] /\ s[j] \in Rows /\ s[atD(k)] \in Rows
        BY <1>0, <1>1, <1>2, <2>2, <2>3, <3>1, ElementOfSeq
      <3>6. n = k => ~Less(Rank(d[n]), Rank(d[k]))
        <4>1. ~Less(Rank(s[j]), Rank(s[j]))
          <5>1. /\ Rank(s[j])[1] \in Int /\ Rank(s[j])[2] \in Int /\ Rank(s[j])[3] \in Int
                /\ Less(Rank(s[j]), Rank(s[j])) <=>
                     \/ Rank(s[j])[1] < Rank(s[j])[1]
                     \/ Rank(s[j])[1] = Rank(s[j])[1] /\ Rank(s[j])[2] < Rank(s[j])[2]
                     \/ /\ Rank(s[j])[1] = Rank(s[j])[1] /\ Rank(s[j])[2] = Rank(s[j])[2]
                        /\ Rank(s[j])[3] < Rank(s[j])[3]
            BY <3>5, RankLess
          <5> QED
            BY <5>1
        <4> QED
          BY <3>5, <4>1
      <3>7. ~Less(Rank(d[n]), Rank(d[k]))
        BY <1>3, <2>2, <3>1, <3>4, <3>6
      <3> QED
        BY <3>5, <3>7, PreferableIsLess
    <2> QED
      BY <2>1, <2>3, <2>4
  <1> QED
    BY <1>8, <1>9 DEF e, d

----------------------------------------------------------------------------
(* The addresses shown.                                                    *)

\* The rows of the source that is used, as BestAdapterShown has them.
SourceRows(m) ==
    IF Candidates(m.windows) # <<>> THEN m.windows.rows
    ELSE IF Candidates(m.route) # <<>> THEN m.route.rows
    ELSE SocketCandidates(m.sock)

\* The candidates found are usable, and the first of each address are the rows that count.
LEMMA SourceFacts ==
    ASSUME NEW m \in Machines, NEW found, found = Found(m.windows, m.route, m.sock)
    PROVE  /\ found \in Seq(Rows)
           /\ SameRows(found, Firsts(found), SourceRows(m), Counting(SourceRows(m)))
           /\ \A n \in DOMAIN found : Usable(found[n].ip)
  <1>0. m.windows.rows \in Seq(Rows) /\ m.route.rows \in Seq(Rows)
    BY StartupAssumption
  <1>1. CASE Candidates(m.windows) # <<>>
    <2>1. found = Candidates(m.windows) /\ SourceRows(m) = m.windows.rows
      BY <1>1 DEF Found, SourceRows
    <2> QED
      BY <1>0, <1>1, <2>1, CandidatesFacts
  <1>2. CASE Candidates(m.windows) = <<>> /\ Candidates(m.route) # <<>>
    <2>1. found = Candidates(m.route) /\ SourceRows(m) = m.route.rows
      BY <1>2 DEF Found, SourceRows
    <2> QED
      BY <1>0, <1>2, <2>1, CandidatesFacts
  <1>3. CASE Candidates(m.windows) = <<>> /\ Candidates(m.route) = <<>>
    <2>1. found = SocketCandidates(m.sock) /\ SourceRows(m) = found
      BY <1>3 DEF Found, SourceRows
    <2>2. found \in Seq(Rows) /\ \A n \in DOMAIN found : Usable(found[n].ip)
      <3>1. CASE Usable(m.sock)
        <4> DEFINE row == [ip |-> m.sock, virtual |-> FALSE, metric |-> 0]
        <4>1. row \in Rows /\ row.ip = m.sock
          BY <3>1 DEF Rows, Addresses, Usable
        <4>2. found = <<row>>
          BY <2>1, <3>1 DEF SocketCandidates
        <4> HIDE DEF row
        <4>3. found \in Seq(Rows) /\ DOMAIN found = {1} /\ found[1] = row
          BY <4>1, <4>2
        <4> QED
          BY <3>1, <4>1, <4>3
      <3>2. CASE ~Usable(m.sock)
        <4>1. found = <<>>
          BY <2>1, <3>2 DEF SocketCandidates
        <4> QED
          BY <4>1
      <3> QED
        BY <3>1, <3>2
    <2>3. Firsts(found) = Counting(found)
      BY <2>2 DEF Firsts, Counting
    <2> QED
      BY <2>1, <2>2, <2>3 DEF SameRows
  <1> QED
    BY <1>1, <1>2, <1>3

\* What the discovery of a machine chooses, and what it says of it.
Chosen(m) == Discovered(m.override, m.windows, m.route, m.sock)
Primary(m) == IF Chosen(m) = <<>> THEN NoAddress ELSE Chosen(m)[1].ip

\* The address chosen: the override, or that of a row that counts and to which none is
\* preferable.
LEMMA PrimaryFacts ==
    ASSUME NEW m \in Machines, m.override = NoAddress \/ Usable(m.override)
    PROVE  /\ Primary(m) = NoAddress \/ Usable(Primary(m))
           /\ m.override # NoAddress => Primary(m) = m.override
           /\ m.override = NoAddress =>
                 IF Counting(SourceRows(m)) = {} THEN Primary(m) = NoAddress
                 ELSE \E i \in Counting(SourceRows(m)) :
                        /\ SourceRows(m)[i].ip = Primary(m)
                        /\ \A j \in Counting(SourceRows(m)) :
                               ~Preferable(SourceRows(m)[j], SourceRows(m)[i])
  <1>1. CASE m.override # NoAddress
    <2> DEFINE row == [ip |-> m.override, virtual |-> FALSE, metric |-> 0]
    <2>1. Chosen(m) = <<row>> /\ row.ip = m.override
      BY <1>1 DEF Chosen, Discovered
    <2> HIDE DEF row
    <2>2. Chosen(m) # <<>> /\ Chosen(m)[1] = row
      BY <2>1
    <2> QED
      BY <1>1, <2>1, <2>2 DEF Primary
  <1>2. CASE m.override = NoAddress
    <2> DEFINE found == Found(m.windows, m.route, m.sock)
               rows == SourceRows(m)
    <2>1. Chosen(m) = Sorted(Deduplicate(found))
      BY <1>2 DEF Chosen, Discovered
    <2>2. /\ found \in Seq(Rows)
          /\ SameRows(found, Firsts(found), rows, Counting(rows))
          /\ \A n \in DOMAIN found : Usable(found[n].ip)
      BY SourceFacts
    <2> HIDE DEF found, rows
    <2>3. CASE found = <<>>
      <3>1. Firsts(found) = {}
        BY <2>3 DEF Firsts
      <3>2. Counting(rows) = {}
        BY <2>2, <3>1 DEF SameRows
      <3>3. Chosen(m) = <<>>
        BY <2>1, <2>2, <2>3, SortedFirst
      <3> QED
        BY <1>2, <3>2, <3>3 DEF Primary, rows
    <2>4. CASE found # <<>>
      <3>1. Chosen(m) # <<>> /\ \E i \in Firsts(found) :
                /\ Chosen(m)[1] = found[i]
                /\ \A j \in Firsts(found) : ~Preferable(found[j], found[i])
        BY <2>1, <2>2, <2>4, SortedFirst
      <3>2. PICK n \in Firsts(found) :
                /\ Chosen(m)[1] = found[n]
                /\ \A j \in Firsts(found) : ~Preferable(found[j], found[n])
        BY <3>1
      <3>3. Primary(m) = found[n].ip
        BY <3>1, <3>2 DEF Primary
      <3>4. Usable(Primary(m))
        BY <2>2, <3>3 DEF Firsts
      <3>5. PICK i \in Counting(rows) : found[n] = rows[i]
        BY <2>2 DEF SameRows
      <3>6. \A j \in Counting(rows) : ~Preferable(rows[j], rows[i])
        <4> SUFFICES ASSUME NEW j \in Counting(rows) PROVE ~Preferable(rows[j], rows[i])
          OBVIOUS
        <4>1. PICK k \in Firsts(found) : found[k] = rows[j]
          BY <2>2 DEF SameRows
        <4> QED
          BY <3>2, <3>5, <4>1
      <3>7. Counting(rows) # {} /\ rows[i].ip = Primary(m)
        BY <3>3, <3>5
      <3>8. \E x \in Counting(rows) :
                /\ rows[x].ip = Primary(m)
                /\ \A j \in Counting(rows) : ~Preferable(rows[j], rows[x])
        BY <3>6, <3>7
      <3> QED
        BY <1>2, <3>4, <3>7, <3>8 DEF rows
    <2> QED
      BY <2>3, <2>4
  <1> QED
    BY <1>1, <1>2

\* Nothing shown yet, or what this machine makes of a usable override or of none.
NetInv ==
    /\ machine \in Machines
    /\ network # NotYet =>
        /\ machine.override = NoAddress \/ Usable(machine.override)
        /\ network = EndpointStatus(machine.httpHost, machine.udpHost, Chosen(machine),
                         DiscoveryWarnings(machine.override, machine.windows,
                                           machine.route, machine.sock))

\* Only the discovery changes what is shown.
LEMMA NetAlways == StartupSpec => []NetInv
  <1>1. StartupInit => NetInv
    BY DEF StartupInit, NetInv
  <1>2. NetInv /\ [StartupNext]_startupVars => NetInv'
    <2> SUFFICES ASSUME NetInv, [StartupNext]_startupVars PROVE NetInv'
      OBVIOUS
    <2>1. CASE UNCHANGED <<machine, network>>
      BY <2>1 DEF NetInv, NotYet
    <2>2. ASSUME NEW p \in Procs, Discover(p) PROVE NetInv'
      <3>1. CASE machine.override # NoAddress /\ ~Usable(machine.override)
        BY <2>1, <2>2, <3>1 DEF Discover
      <3>2. CASE ~(machine.override # NoAddress /\ ~Usable(machine.override))
        <4>1. /\ machine' = machine
              /\ network' = EndpointStatus(machine.httpHost, machine.udpHost, Chosen(machine),
                               DiscoveryWarnings(machine.override, machine.windows,
                                                 machine.route, machine.sock))
          BY <2>2, <3>2 DEF Discover, Chosen
        <4> QED
          BY <3>2, <4>1 DEF NetInv
      <3> QED
        BY <3>1, <3>2
    <2> QED
      BY <2>1, <2>2 DEF StartupNext, Config, startupVars
  <1> QED
    BY <1>1, <1>2, PTL DEF StartupSpec

\* The address announced is that of the preferable row, of the source that is used.
THEOREM BestAlwaysShown == StartupSpec => []BestAdapterShown
  <1>1. NetInv => BestAdapterShown
    <2> SUFFICES ASSUME NetInv, network # NotYet PROVE BestAdapterShown
      BY DEF BestAdapterShown
    <2> DEFINE rows == SourceRows(machine)
    <2>1. network.primary = Primary(machine)
      BY DEF NetInv, EndpointStatus, Primary
    <2>2. /\ machine.override # NoAddress => network.primary = machine.override
          /\ machine.override = NoAddress =>
                IF Counting(rows) = {} THEN network.primary = NoAddress
                ELSE \E i \in Counting(rows) :
                       /\ rows[i].ip = network.primary
                       /\ \A j \in Counting(rows) : ~Preferable(rows[j], rows[i])
      BY <2>1, PrimaryFacts DEF NetInv
    <2> QED
      BY <2>2 DEF BestAdapterShown, SourceRows, Counting
  <1> QED
    BY <1>1, NetAlways, PTL

\* A source that can be used and has a usable row has candidates.
LEMMA UsableIsCandidate ==
    ASSUME NEW result, result.rows \in Seq(Rows), result.ok,
           NEW i \in DOMAIN result.rows, Usable(result.rows[i].ip)
    PROVE  Candidates(result) # <<>>
  <1> DEFINE rows == result.rows
             usable == {j \in DOMAIN rows : Usable(rows[j].ip)}
             t == Candidates(result)
  <1>1. t = Pick(rows, usable, AsListed(rows))
    BY DEF Candidates
  <1>2. Picked(t, rows, usable, AsListed(rows))
    <2>1. usable \subseteq DOMAIN rows /\ StrictOrder(usable, AsListed(rows))
      BY ListedStrict
    <2> QED
      BY <1>1, <2>1, PickFacts
  <1>3. i \in usable
    OBVIOUS
  <1> HIDE DEF t, rows, usable
  <1>4. \E n \in DOMAIN t : TRUE
    BY <1>2, <1>3 DEF Picked
  <1> QED
    BY <1>4 DEF t

\* A source whose candidates are found has a row that counts.
LEMMA CandidateCounts ==
    ASSUME NEW result, result.rows \in Seq(Rows), Candidates(result) # <<>>
    PROVE  result.ok /\ Counting(result.rows) # {}
  <1> DEFINE t == Candidates(result)
  <1>1. result.ok
    BY DEF Candidates
  <1>2. t \in Seq(Rows) /\ SameRows(t, Firsts(t), result.rows, Counting(result.rows))
    BY CandidatesFacts
  <1> HIDE DEF t
  <1>3. Len(t) \in Nat /\ DOMAIN t = 1..Len(t) /\ t # <<>>
    BY <1>2, LenProperties DEF t
  <1>4. 1 \in Firsts(t)
    BY <1>2, <1>3 DEF Firsts
  <1> QED
    BY <1>1, <1>2, <1>4 DEF SameRows

\* The address chosen is a known one, and there is one as soon as a known one is usable.
LEMMA PrimaryIsKnown ==
    ASSUME NEW m \in Machines, m.override = NoAddress \/ Usable(m.override)
    PROVE  /\ Primary(m) # NoAddress => Primary(m) \in Known(m) /\ Usable(Primary(m))
           /\ Primary(m) = NoAddress => \A a \in Known(m) : ~Usable(a)
  <1> USE AddressAssumption
  <1>0. /\ m.windows.rows \in Seq(Rows) /\ m.route.rows \in Seq(Rows)
        /\ ~Usable(NoAddress)
    BY StartupAssumption DEF Usable
  <1>1. CASE m.override # NoAddress
    BY <1>1, PrimaryFacts DEF Known
  <1>2. CASE m.override = NoAddress
    <2> DEFINE rows == SourceRows(m)
    <2>1. Known(m) = {m.sock} \cup
              {row.ip : row \in UNION {Range(r.rows) : r \in {r \in {m.windows, m.route} : r.ok}}}
      BY <1>2 DEF Known
    <2>2. ASSUME NEW r \in {m.windows, m.route}, r.ok, NEW i \in DOMAIN r.rows
          PROVE  r.rows[i].ip \in Known(m)
      BY <2>1, <2>2 DEF Range
    <2>3. Primary(m) # NoAddress => \E i \in Counting(rows) : rows[i].ip = Primary(m)
      BY <1>2, PrimaryFacts
    <2>4. Counting(rows) # {} => Primary(m) # NoAddress
      <3>1. \A i \in Counting(rows) : Usable(rows[i].ip)
        BY DEF Counting
      <3> QED
        BY <1>0, <1>2, <3>1, PrimaryFacts
    <2>5. Usable(Primary(m)) \/ Primary(m) = NoAddress
      BY PrimaryFacts
    <2>6. CASE Candidates(m.windows) # <<>>
      <3>1. rows = m.windows.rows /\ m.windows.ok /\ Counting(rows) # {}
        BY <1>0, <2>6, CandidateCounts DEF SourceRows
      <3> HIDE DEF rows
      <3> QED
        BY <2>2, <2>3, <2>4, <2>5, <3>1 DEF Counting
    <2>7. CASE Candidates(m.windows) = <<>> /\ Candidates(m.route) # <<>>
      <3>1. rows = m.route.rows /\ m.route.ok /\ Counting(rows) # {}
        BY <1>0, <2>7, CandidateCounts DEF SourceRows
      <3> HIDE DEF rows
      <3> QED
        BY <2>2, <2>3, <2>4, <2>5, <3>1 DEF Counting
    <2>8. CASE Candidates(m.windows) = <<>> /\ Candidates(m.route) = <<>>
      <3>1. \A r \in {m.windows, m.route} : r.ok => \A i \in DOMAIN r.rows : ~Usable(r.rows[i].ip)
        BY <1>0, <2>8, UsableIsCandidate
      <3>2. \A a \in Known(m) : Usable(a) => a = m.sock
        BY <2>1, <3>1 DEF Range
      <3>3. rows = SocketCandidates(m.sock)
        BY <2>8 DEF SourceRows
      <3>4. CASE Usable(m.sock)
        <4> DEFINE row == [ip |-> m.sock, virtual |-> FALSE, metric |-> 0]
        <4>1. rows = <<row>> /\ row.ip = m.sock
          BY <3>3, <3>4 DEF SocketCandidates
        <4> HIDE DEF row, rows
        <4>2. DOMAIN rows = {1} /\ rows[1].ip = m.sock
          BY <4>1
        <4>3. 1 \in Counting(rows)
          BY <3>4, <4>2 DEF Counting
        <4>4. \A i \in Counting(rows) : rows[i].ip = m.sock
          BY <4>2 DEF Counting
        <4> QED
          BY <2>1, <2>3, <2>4, <2>5, <4>3, <4>4
      <3>5. CASE ~Usable(m.sock)
        <4>1. rows = <<>>
          BY <3>3, <3>5 DEF SocketCandidates
        <4>2. Counting(rows) = {}
          BY <4>1 DEF Counting
        <4> QED
          BY <2>3, <3>2, <3>5, <4>2
      <3> QED
        BY <3>4, <3>5
    <2> QED
      BY <2>6, <2>7, <2>8
  <1> QED
    BY <1>1, <1>2

\* Whatever the hosts, the names among them included, and whatever the sources yield:
\* an address that reaches the socket is announced as soon as one is known, and none
\* otherwise; where none is, a warning says why, but for a host of OtherHosts.
THEOREM AddressesAlwaysReach == StartupSpec => []AddressesReach
  <1> USE AddressAssumption
  <1>1. NetInv => AddressesReach
    <2> SUFFICES ASSUME NetInv, network # NotYet PROVE AddressesReach
      BY DEF AddressesReach
    <2> DEFINE primary == Primary(machine)
               known == Known(machine)
    <2>1. /\ primary # NoAddress => primary \in known /\ Usable(primary)
          /\ primary = NoAddress => \A a \in known : ~Usable(a)
      BY PrimaryIsKnown DEF NetInv
    <2>2. machine.httpHost \in Addresses /\ machine.udpHost \in Addresses
      BY StartupAssumption DEF NetInv
    <2> DEFINE w == DiscoveryWarnings(machine.override, machine.windows,
                                      machine.route, machine.sock)
    <2>3. network = EndpointStatus(machine.httpHost, machine.udpHost, Chosen(machine), w)
      BY DEF NetInv
    <2>4. /\ network.network = Shown(machine.httpHost, primary)
          /\ network.target = Shown(machine.udpHost, primary)
          /\ machine.httpHost = Localhost => "HTTP loopback" \in network.warnings
          /\ machine.udpHost = Localhost => "UDP loopback" \in network.warnings
          /\ "no address" \in network.warnings <=> primary = NoAddress
      <3>1. "no address" \notin w
        BY DEF DiscoveryWarnings
      <3> HIDE DEF w
      <3> DEFINE http == {"HTTP loopback" : h \in {machine.httpHost} \cap {Localhost}}
                 udp == {"UDP loopback" : h \in {machine.udpHost} \cap {Localhost}}
                 none == {"no address" : a \in {primary} \cap {NoAddress}}
      <3>2. /\ network.network = Shown(machine.httpHost, primary)
            /\ network.target = Shown(machine.udpHost, primary)
            /\ network.warnings = w \cup http \cup udp \cup none
        BY <2>3 DEF EndpointStatus, Primary
      <3>3. machine.httpHost = Localhost => "HTTP loopback" \in http
        OBVIOUS
      <3>4. machine.udpHost = Localhost => "UDP loopback" \in udp
        OBVIOUS
      <3>5. /\ "no address" \notin http \cup udp
            /\ "no address" \in none <=> primary = NoAddress
        OBVIOUS
      <3> QED
        BY <3>1, <3>2, <3>3, <3>4, <3>5
    <2> HIDE DEF w
    <2> HIDE DEF primary, known
    <2>5. ASSUME NEW host \in Addresses
          PROVE  LET reaching == {a \in known \cup {host} : Reaches(host, a)} IN
                 IF reaching # {} THEN Shown(host, primary) \in reaching
                 ELSE /\ Shown(host, primary) = NoAddress
                      /\ host \in OtherHosts \/ host = Localhost \/ primary = NoAddress
      <3>1. CASE host = AnyHost
        BY <2>1, <3>1 DEF Shown, Reaches, Usable
      <3>2. CASE Usable(host)
        BY <3>2 DEF Shown, Reaches, Usable
      <3>3. CASE host # AnyHost /\ ~Usable(host)
        BY <3>3 DEF Shown, Reaches, Usable, Addresses
      <3> QED
        BY <3>1, <3>2, <3>3
    <2>6. "no address" \in network.warnings <=> \A a \in known : ~Usable(a)
      BY <2>1, <2>4
    <2>7. ASSUME NEW host, NEW shown, NEW why,
                 host \in Addresses, shown = Shown(host, primary),
                 host = Localhost => why \in network.warnings
          PROVE  LET reaching == {a \in known \cup {host} : Reaches(host, a)} IN
                 IF reaching # {} THEN shown \in reaching
                 ELSE /\ shown = NoAddress
                      /\ host \in OtherHosts \/ network.warnings \cap {why, "no address"} # {}
      <3>1. primary = NoAddress => "no address" \in network.warnings
        BY <2>4
      <3> QED
        BY <2>5, <2>7, <3>1
    <2> DEFINE http == [host |-> machine.httpHost, shown |-> network.network,
                        why |-> "HTTP loopback"]
               udp == [host |-> machine.udpHost, shown |-> network.target,
                       why |-> "UDP loopback"]
               Right(s) ==
                   LET reaching == {a \in known \cup {s.host} : Reaches(s.host, a)} IN
                   IF reaching # {} THEN s.shown \in reaching
                   ELSE /\ s.shown = NoAddress
                        /\ s.host \in OtherHosts \/ network.warnings \cap {s.why, "no address"} # {}
    <2>8. Right(http)
      BY <2>2, <2>4, <2>7
    <2>9. Right(udp)
      BY <2>2, <2>4, <2>7
    <2>10. \A s \in {http, udp} : Right(s)
      <3> HIDE DEF http, udp, Right
      <3> QED
        BY <2>8, <2>9
    <2> QED
      BY <2>6, <2>10 DEF AddressesReach, known
  <1> QED
    BY <1>1, NetAlways, PTL
=============================================================================
