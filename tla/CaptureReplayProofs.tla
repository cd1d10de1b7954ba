------------------------- MODULE CaptureReplayProofs -------------------------
(***************************************************************************)
(* Theorems about CaptureReplay for every set of payloads and all bounds:  *)
(* what the file keeps of what the probe received, what a replay that      *)
(* reports success has sent, and when it sent it.                          *)
(***************************************************************************)
EXTENDS CaptureReplay, SequenceTheorems, TLAPS

Lines == Packets \cup {Header, Half}
SentPackets == [ns : 0..MaxTime, payload : Payloads, at : Nat]

\* Every variable has its type, and a packet is in hand where the code uses one.
TypeInv ==
    /\ file \in Seq(Lines)
    /\ received \in Seq(Packets)
    /\ probe \in {"off", "running", "writing", "half"}
    /\ probe # "off" => file # <<>>
    /\ probe \in {"writing", "half"} => received # <<>>
    /\ now \in Nat /\ start \in Nat /\ offset \in Nat
    /\ position \in Nat
    /\ checked \in Seq(Packets)
    /\ current \in Packets \cup {NoPacket}
    /\ sent \in Seq(SentPackets)
    /\ wake \in Int
    /\ tool = "due" => current \in Packets
    /\ current \in Packets => tool \in {"due", "stopped"}

\* What the file has of what was received: all of it but perhaps the last packet, each
\* in its place.  A half line is what is being written, or what a probe has left.
WriteInv ==
    /\ Len(received) <= Len(file) /\ Len(file) <= Len(received) + 1
    /\ file # <<>> => \/ file[1] = Header
                      \/ file[1] = Half /\ Len(file) = 1 /\ probe = "off"
    /\ \A i \in 2..Len(file) :
           \/ file[i] = received[i - 1]
           \/ file[i] = Half /\ i = Len(received) + 1 /\ probe \in {"half", "off"}
    /\ probe = "running" => Len(file) = Len(received) + 1
    /\ probe = "writing" => Len(file) = Len(received)
    /\ probe = "half" => Len(file) = Len(received) + 1 /\ file[Len(file)] = Half

\* What was read of the file is still in it, at the same places.
SameLine(p, line) == line \in Packets /\ p.ns = line.ns /\ p.payload = line.payload
InFile(seq) == \A i \in DOMAIN seq : i + 1 \in DOMAIN file /\ SameLine(seq[i], file[i + 1])

ReadInv ==
    /\ tool \in {"idle", "inspecting"} => sent = <<>>
    /\ tool = "idle" => checked = <<>> /\ position = 0
    /\ tool = "inspecting" => Len(checked) = IF position = 0 THEN 0 ELSE position - 1
    /\ tool = "reading" => Len(sent) = IF position = 0 THEN 0 ELSE position - 1
    /\ tool = "due" => position >= 2 /\ Len(sent) = position - 2
    /\ tool = "done" => Len(sent) = Len(checked)
    /\ changed # "replaced" =>
           /\ InFile(checked) /\ InFile(sent)
           /\ tool = "due" => position \in DOMAIN file /\ SameLine(current, file[position])

\* The offset of the last packet that was read is the latest so far, those that were
\* sent went at theirs, and a sleep does not pass the next one.
Latest(m, times) ==
    /\ m \in {t - times[1] : t \in Range(times)}
    /\ \A d \in {t - times[1] : t \in Range(times)} : m >= d

SentInTime(i) == \E m \in Int : /\ Latest(m, Times(SubSeq(sent, 1, i)))
                                /\ sent[i].at >= start + m

SpaceInv ==
    /\ sent = <<>> => offset = 0
    /\ current = NoPacket /\ sent # <<>> => Latest(offset, Times(sent))
    /\ current # NoPacket => Latest(offset, Append(Times(sent), current.ns))
    /\ wake # Awake => current # NoPacket /\ wake <= Deadline
    /\ timed => \A i \in DOMAIN sent : SentInTime(i)

\* Every step of the module, one name per action.
LEMMA NextCases ==
    ASSUME Next
    PROVE  \/ Tick
           \/ \E overwrite \in BOOLEAN : Start(overwrite)
           \/ Receive \/ WriteHalf \/ WriteRest \/ StopProbe
           \/ StartReplay \/ Inspect \/ Inspected \/ Fails
           \/ Read \/ Sleep \/ Wake \/ Send \/ End \/ Stop
  BY DEF Next

\* The larger of two numbers.
LEMMA LargerOfTwo ==
    ASSUME NEW a \in Int, NEW b \in Int
    PROVE  Clamp(a, b) \in {a, b} /\ Clamp(a, b) >= a /\ Clamp(a, b) >= b
  <1> DEFINE S == {a, b}
  <1>1. \E x \in S : \A y \in S : x >= y
    <2>1. CASE a >= b
      BY <2>1
    <2>2. CASE b >= a
      BY <2>2
    <2> QED
      BY <2>1, <2>2
  <1>2. Max(S) \in S /\ \A y \in S : Max(S) >= y
    BY <1>1 DEF Max
  <1> QED
    BY <1>2 DEF Clamp

\* The smaller of two numbers.
LEMMA SmallerOfTwo ==
    ASSUME NEW a \in Int, NEW b \in Int
    PROVE  Min({a, b}) \in {a, b} /\ Min({a, b}) <= a /\ Min({a, b}) <= b
  <1> DEFINE S == {a, b}
  <1>1. \E x \in S : \A y \in S : x <= y
    <2>1. CASE a <= b
      BY <2>1
    <2>2. CASE b <= a
      BY <2>2
    <2> QED
      BY <2>1, <2>2
  <1>2. Min(S) \in S /\ \A y \in S : Min(S) <= y
    BY <1>1 DEF Min
  <1> QED
    BY <1>2

\* The kinds of line are told apart by their types.
LEMMA LineKinds ==
    /\ \A l \in Lines : /\ l \in Packets <=> l.type = "packet"
                        /\ l = Header <=> l.type = "header"
                        /\ l = Half <=> l.type = "half"
    /\ NoPacket \notin Packets /\ Header # Half
    /\ Header \notin Packets /\ Half \notin Packets
  BY DEF Lines, Packets, Header, Half, NoPacket

\* A line that is accepted after the header is a packet, with a time stamp.
LEMMA AcceptedPacket ==
    ASSUME TypeInv, Accepted, position # 0, position < Len(file)
    PROVE  Line \in Packets /\ Line.ns \in 0..MaxTime /\ Line.payload \in Payloads
  <1>1. position + 1 \in DOMAIN file /\ file[position + 1] \in Lines
    BY DEF TypeInv
  <1>2. Line \in Packets
    BY <1>1, LineKinds DEF Accepted, Line
  <1> QED
    BY <1>2 DEF Packets

\* The bound on the clocks is a number.
LEMMA Bounds == MaxTime \in Nat /\ Chunk \in Nat /\ Chunk > 0
  BY CaptureAssumption

----------------------------------------------------------------------------
(* Types.                                                                  *)

\* The types hold initially.
LEMMA TypeInit == Init => TypeInv
  BY LineKinds DEF Init, TypeInv, Awake

\* The offset and the packet in hand after Read.
LEMMA ReadType ==
    ASSUME TypeInv, Read
    PROVE  offset' \in Nat /\ current' \in Packets \cup {NoPacket} /\ position' \in Nat
           /\ (tool' = "due" => current' \in Packets)
           /\ (current' \in Packets => tool' \in {"due", "stopped"})
  <1>1. CASE position = 0
    BY <1>1 DEF Read, TypeInv
  <1>2. CASE position # 0
    <2>1. Line \in Packets /\ Line.ns \in Int
      BY <1>2, AcceptedPacket, Bounds DEF Read
    <2>2. First \in Int
      <3>1. CASE sent = <<>>
        BY <2>1, <3>1 DEF First
      <3>2. CASE sent # <<>>
        <4>1. sent[1] \in SentPackets
          BY <3>2 DEF TypeInv
        <4> QED
          BY <4>1, <3>2, Bounds DEF First, SentPackets
      <3> QED
        BY <3>1, <3>2
    <2>3. Line.ns - First \in Int /\ offset \in Nat
      BY <2>1, <2>2 DEF TypeInv
    <2>4. Clamp(offset, Line.ns - First) \in Nat
      <3> DEFINE d == Line.ns - First
      <3>1. d \in Int /\ offset \in Int
        BY <2>3
      <3>2. Clamp(offset, d) \in {offset, d} /\ Clamp(offset, d) >= offset
        BY <3>1, LargerOfTwo
      <3> QED
        BY <3>1, <3>2, <2>3
    <2> QED
      BY <1>2, <2>1, <2>4 DEF Read, TypeInv
  <1> QED
    BY <1>1, <1>2

\* The record of a packet that is sent.
LEMMA SentType ==
    ASSUME TypeInv, Send
    PROVE  /\ [ns |-> current.ns, payload |-> current.payload, at |-> now] \in SentPackets
           /\ current.ns \in 0..MaxTime
  <1>1. current \in Packets /\ now \in Nat
    BY DEF TypeInv, Send
  <1> QED
    BY <1>1 DEF Packets, SentPackets

\* Every step preserves the types.
LEMMA TypeStep == TypeInv /\ [Next]_vars => TypeInv'
  <1> SUFFICES ASSUME TypeInv, [Next]_vars PROVE TypeInv'
    OBVIOUS
  <1>1. CASE Tick
    BY <1>1 DEF Tick, TypeInv, probeVars, replayVars
  <1>2. CASE \E overwrite \in BOOLEAN : Start(overwrite)
    <2>1. \/ file' = <<Header>> /\ probe' = "running"
          \/ file' = <<Half>> /\ probe' = "off"
          \/ file' = <<>> /\ probe' = "off"
      BY <1>2 DEF Start
    <2>2. Header \in Lines /\ Half \in Lines
      BY DEF Lines
    <2>3. /\ <<Header>> \in Seq(Lines) /\ <<Half>> \in Seq(Lines) /\ <<>> \in Seq(Lines)
          /\ <<Header>> # <<>>
      BY <2>2
    <2>4. received' = <<>> /\ UNCHANGED <<now, replayVars>>
      BY <1>2 DEF Start
    <2>5. /\ file' \in Seq(Lines) /\ probe' \in {"off", "running"}
          /\ probe' # "off" => file' # <<>>
      <3>1. CASE file' = <<Header>> /\ probe' = "running"
        BY <2>3, <3>1
      <3>2. CASE (file' = <<Half>> \/ file' = <<>>) /\ probe' = "off"
        BY <2>3, <3>2
      <3> QED
        BY <2>1, <3>1, <3>2
    <2> QED
      BY <2>4, <2>5 DEF TypeInv, replayVars
  <1>3. CASE Receive
    <2>1. PICK p \in Packets : received' = Append(received, p)
      BY <1>3 DEF Receive
    <2>2. received' \in Seq(Packets) /\ received' # <<>>
      BY <2>1 DEF TypeInv
    <2> QED
      BY <1>3, <2>2 DEF Receive, TypeInv, replayVars
  <1>4. CASE WriteHalf
    BY <1>4 DEF WriteHalf, TypeInv, Lines, replayVars
  <1>5. CASE WriteRest
    <2>1. Last(received) \in Packets
      BY <1>5 DEF WriteRest, TypeInv, Last
    <2>2. file \in Seq(Lines) /\ Last(received) \in Lines /\ Len(file) \in 1..Len(file)
      BY <1>5, <2>1 DEF WriteRest, TypeInv, Lines
    <2>3. file' \in Seq(Lines) /\ Len(file') = Len(file)
      BY <1>5, <2>2, ExceptSeq DEF WriteRest
    <2>4. file' # <<>>
      BY <2>2, <2>3
    <2> QED
      BY <1>5, <2>3, <2>4 DEF WriteRest, TypeInv, replayVars
  <1>6. CASE StopProbe
    BY <1>6 DEF StopProbe, TypeInv, replayVars
  <1>7. CASE StartReplay
    BY <1>7 DEF StartReplay, TypeInv, probeVars
  <1>8. CASE Inspect
    <2>1. checked' \in Seq(Packets)
      BY <1>8, AcceptedPacket DEF Inspect, TypeInv
    <2> QED
      BY <1>8, <2>1 DEF Inspect, TypeInv, probeVars
  <1>9. CASE Inspected
    BY <1>9 DEF Inspected, TypeInv, probeVars
  <1>10. CASE Fails
    BY <1>10 DEF Fails, Refuse, TypeInv, probeVars
  <1>11. CASE Read
    BY <1>11, ReadType DEF Read, TypeInv, probeVars
  <1>12. CASE Sleep
    <2>1. Deadline - now \in Int /\ Chunk \in Int
      BY Bounds DEF TypeInv, Deadline
    <2>2. wake' \in Int
      BY <1>12, <2>1, SmallerOfTwo DEF Sleep, TypeInv
    <2> QED
      BY <1>12, <2>2 DEF Sleep, TypeInv, probeVars
  <1>13. CASE Wake
    BY <1>13 DEF Wake, TypeInv, probeVars, Awake
  <1>14. CASE Send
    BY <1>14, SentType, LineKinds DEF Send, TypeInv, probeVars
  <1>15. CASE End
    BY <1>15 DEF End, TypeInv, probeVars
  <1>16. CASE Stop
    BY <1>16 DEF Stop, TypeInv, probeVars
  <1>17. CASE UNCHANGED vars
    BY <1>17 DEF vars, TypeInv, probeVars, replayVars
  <1> QED
    BY <1>1, <1>2, <1>3, <1>4, <1>5, <1>6, <1>7, <1>8, <1>9, <1>10, <1>11, <1>12, <1>13, <1>14, <1>15, <1>16, <1>17, NextCases

----------------------------------------------------------------------------
(* What the file keeps.                                                    *)

\* The steps that touch the file or the probe.
LEMMA ProbeCases ==
    ASSUME [Next]_vars
    PROVE  \/ UNCHANGED probeVars
           \/ \E overwrite \in BOOLEAN : Start(overwrite)
           \/ Receive \/ WriteHalf \/ WriteRest \/ StopProbe
  <1>1. CASE Tick \/ StartReplay \/ Inspect \/ Inspected \/ Fails \/ UNCHANGED vars
    BY <1>1 DEF Tick, StartReplay, Inspect, Inspected, Fails, vars
  <1>2. CASE Read \/ Sleep \/ Wake \/ Send \/ End \/ Stop
    BY <1>2 DEF Read, Sleep, Wake, Send, End, Stop
  <1> QED
    BY <1>1, <1>2, NextCases

\* There is no file initially.
LEMMA WriteInit == Init => WriteInv
  BY DEF Init, WriteInv

\* A packet that was received is to be written.
LEMMA WriteReceive == TypeInv /\ WriteInv /\ Receive => WriteInv'
  <1> SUFFICES ASSUME TypeInv, WriteInv, Receive PROVE WriteInv'
    OBVIOUS
  <1>1. PICK p \in Packets : received' = Append(received, p)
    BY DEF Receive
  <1>2. received \in Seq(Packets) /\ Len(received) \in Nat /\ Len(file) \in Nat
    BY DEF TypeInv
  <1>3. /\ Len(received') = Len(received) + 1
        /\ \A i \in 1..Len(received) : received'[i] = received[i]
    BY <1>1, <1>2, AppendProperties
  <1>4. /\ probe = "running" /\ probe' = "writing" /\ file' = file
        /\ Len(file) = Len(received) + 1
    BY DEF Receive, WriteInv
  <1>5. \A i \in 2..Len(file) : file[i] = received[i - 1] /\ i - 1 \in 1..Len(received)
    BY <1>2, <1>4 DEF WriteInv
  <1>6. \A i \in 2..Len(file) : file[i] = received'[i - 1]
    BY <1>3, <1>5
  <1>7. file # <<>> => file[1] = Header
    BY <1>4 DEF WriteInv
  <1> QED
    BY <1>2, <1>3, <1>4, <1>6, <1>7 DEF WriteInv

\* The half line comes after all others.
LEMMA WriteHalfLine == TypeInv /\ WriteInv /\ WriteHalf => WriteInv'
  <1> SUFFICES ASSUME TypeInv, WriteInv, WriteHalf PROVE WriteInv'
    OBVIOUS
  <1>1. /\ file \in Seq(Lines) /\ Half \in Lines /\ file # <<>>
        /\ Len(received) \in Nat /\ Len(file) \in Nat
    BY DEF TypeInv, WriteHalf, Lines
  <1>2. /\ Len(file') = Len(file) + 1
        /\ \A i \in 1..Len(file) : file'[i] = file[i]
        /\ file'[Len(file) + 1] = Half
    BY <1>1, AppendProperties DEF WriteHalf
  <1>3. /\ probe = "writing" /\ probe' = "half" /\ received' = received
        /\ Len(file) = Len(received)
    BY DEF WriteHalf, WriteInv
  <1>4. /\ Len(file) >= 1 /\ file[1] = Header
        /\ \A i \in 2..Len(file) : file[i] = received[i - 1]
    BY <1>1, <1>3 DEF WriteInv
  <1>5. file'[1] = Header /\ file' # <<>>
    BY <1>1, <1>2, <1>4
  <1>6. \A i \in 2..Len(file') : file'[i] = received[i - 1] \/ (file'[i] = Half /\ i = Len(received) + 1)
    BY <1>1, <1>2, <1>3, <1>4
  <1> QED
    BY <1>1, <1>2, <1>3, <1>5, <1>6 DEF WriteInv

\* The rest makes the half line the packet that was received last.
LEMMA WriteWholeLine == TypeInv /\ WriteInv /\ WriteRest => WriteInv'
  <1> SUFFICES ASSUME TypeInv, WriteInv, WriteRest PROVE WriteInv'
    OBVIOUS
  <1>1. /\ file \in Seq(Lines) /\ received \in Seq(Packets) /\ received # <<>>
        /\ Len(received) \in Nat /\ Len(file) \in Nat
    BY DEF TypeInv, WriteRest
  <1>2. /\ probe = "half" /\ probe' = "running" /\ received' = received
        /\ Len(file) = Len(received) + 1 /\ Len(received) >= 1
    BY <1>1 DEF WriteRest, WriteInv
  <1>3. Last(received) = received[Len(received)] /\ Last(received) \in Lines
    BY <1>1, <1>2 DEF Last, Lines
  <1>4. /\ Len(file') = Len(file)
        /\ \A i \in 1..Len(file) :
               file'[i] = IF i = Len(file) THEN Last(received) ELSE file[i]
    BY <1>1, <1>2, <1>3, ExceptSeq DEF WriteRest
  <1>5. file'[1] = Header
    BY <1>1, <1>2, <1>4 DEF WriteInv
  <1>6. \A i \in 2..Len(file') : file'[i] = received[i - 1]
    BY <1>1, <1>2, <1>3, <1>4 DEF WriteInv
  <1> QED
    BY <1>1, <1>2, <1>4, <1>5, <1>6 DEF WriteInv

\* Every step keeps it: a probe that ends leaves what there is, a new one starts again.
LEMMA WriteStep == TypeInv /\ WriteInv /\ [Next]_vars => WriteInv'
  <1> SUFFICES ASSUME TypeInv, WriteInv, [Next]_vars PROVE WriteInv'
    OBVIOUS
  <1>1. CASE UNCHANGED probeVars
    BY <1>1 DEF probeVars, WriteInv
  <1>2. CASE \E overwrite \in BOOLEAN : Start(overwrite)
    <2>1. /\ received' = <<>>
          /\ \/ file' = <<Header>> /\ probe' = "running"
             \/ file' = <<Half>> /\ probe' = "off"
             \/ file' = <<>> /\ probe' = "off"
      BY <1>2 DEF Start
    <2>2. CASE file' = <<Header>> /\ probe' = "running"
      BY <2>1, <2>2 DEF WriteInv
    <2>3. CASE file' = <<Half>> /\ probe' = "off"
      BY <2>1, <2>3 DEF WriteInv
    <2>4. CASE file' = <<>> /\ probe' = "off"
      BY <2>1, <2>4 DEF WriteInv
    <2> QED
      BY <2>1, <2>2, <2>3, <2>4
  <1>3. CASE StopProbe
    BY <1>3 DEF StopProbe, WriteInv
  <1> QED
    BY <1>1, <1>2, <1>3, WriteReceive, WriteHalfLine, WriteWholeLine, ProbeCases

\* The invariant says what the property asks.
LEMMA KeptLines == ASSUME TypeInv, WriteInv PROVE LosesAtMostOne
  <1>1. /\ file \in Seq(Lines) /\ received \in Seq(Packets)
        /\ Len(received) \in Nat /\ Len(file) \in Nat
    BY DEF TypeInv
  <1>2. \A i \in DOMAIN file : i # 1 =>
            \/ i - 1 \in DOMAIN received /\ file[i] = received[i - 1] /\ file[i] \in Packets
            \/ file[i] = Half /\ i = Len(received) + 1
    BY <1>1 DEF WriteInv
  <1>3. \A i \in DOMAIN file : i = 1 =>
            file[i] = Header \/ (file[i] = Half /\ Len(file) = 1)
    BY <1>1 DEF WriteInv
  <1>4. \A i \in DOMAIN file : file[i].type = "packet" =>
            i - 1 \in DOMAIN received /\ file[i] = received[i - 1]
    BY <1>1, <1>2, <1>3, LineKinds DEF Header, Half
  <1>5. \A j \in 1..(Len(received) - 1) : j + 1 \in DOMAIN file /\ file[j + 1] = received[j]
    <2> SUFFICES ASSUME NEW j \in 1..(Len(received) - 1)
                 PROVE  j + 1 \in DOMAIN file /\ file[j + 1] = received[j]
      OBVIOUS
    <2>1. j + 1 \in DOMAIN file /\ j + 1 # 1 /\ j + 1 # Len(received) + 1
      BY <1>1 DEF WriteInv
    <2> QED
      BY <1>1, <1>2, <2>1
  <1>6. \A i \in DOMAIN file : file[i] = Header => i = 1
    BY <1>2, LineKinds
  <1>7. \A i \in DOMAIN file : file[i] = Half => i = Len(file)
    <2> SUFFICES ASSUME NEW i \in DOMAIN file, file[i] = Half PROVE i = Len(file)
      OBVIOUS
    <2>1. CASE i = 1
      BY <1>3, <2>1, LineKinds
    <2>2. CASE i # 1
      <3>1. i = Len(received) + 1
        BY <1>2, <2>2, LineKinds
      <3> QED
        BY <1>1, <3>1 DEF WriteInv
    <2> QED
      BY <2>1, <2>2
  <1> QED
    BY <1>4, <1>5, <1>6, <1>7 DEF LosesAtMostOne

\* Wherever the probe ends, its capture lacks at most the last packet, and starting it
\* again leaves nothing of the capture before.
THEOREM AtMostOneLost == Spec => []LosesAtMostOne
  <1>1. Init => TypeInv /\ WriteInv
    BY TypeInit, WriteInit
  <1>2. TypeInv /\ WriteInv /\ [Next]_vars => (TypeInv /\ WriteInv)'
    BY TypeStep, WriteStep
  <1>3. TypeInv /\ WriteInv => LosesAtMostOne
    BY KeptLines
  <1> QED
    BY <1>1, <1>2, <1>3, PTL DEF Spec

----------------------------------------------------------------------------
(* What success means.                                                     *)

\* A file that is not started again keeps its packets where they are.
Grows == \A i \in DOMAIN file : file[i] \in Packets => i \in DOMAIN file' /\ file'[i] = file[i]

\* No step but the start of a capture takes away or moves what is in the file.
LEMMA FileGrows ==
    ASSUME TypeInv, WriteInv, [Next]_vars
    PROVE  Grows \/ \E overwrite \in BOOLEAN : Start(overwrite)
  <1>1. file \in Seq(Lines) /\ Len(file) \in Nat /\ DOMAIN file = 1..Len(file)
    BY DEF TypeInv
  <1>2. CASE UNCHANGED file
    BY <1>2 DEF Grows
  <1>3. CASE WriteHalf
    <2>1. Half \in Lines
      BY DEF Lines
    <2>2. file' \in Seq(Lines) /\ Len(file') = Len(file) + 1
          /\ \A i \in 1..Len(file) : file'[i] = file[i]
      BY <1>1, <1>3, <2>1, AppendProperties DEF WriteHalf
    <2>3. DOMAIN file' = 1..Len(file')
      BY <2>2
    <2> QED
      BY <1>1, <2>2, <2>3 DEF Grows
  <1>4. CASE WriteRest
    <2>1. file[Len(file)] \notin Packets
      BY <1>4, LineKinds DEF WriteRest, WriteInv
    <2>2. /\ DOMAIN file' = DOMAIN file
          /\ \A i \in DOMAIN file : i # Len(file) => file'[i] = file[i]
      BY <1>1, <1>4 DEF WriteRest
    <2> QED
      BY <2>1, <2>2 DEF Grows
  <1>5. CASE Receive \/ StopProbe \/ UNCHANGED probeVars
    BY <1>2, <1>5 DEF Receive, StopProbe, probeVars
  <1> QED
    BY <1>3, <1>4, <1>5, ProbeCases

\* What is in the file stays in it.
LEMMA StillInFile ==
    ASSUME NEW seq, InFile(seq), Grows
    PROVE  \A i \in DOMAIN seq : i + 1 \in DOMAIN file' /\ SameLine(seq[i], file'[i + 1])
  BY DEF InFile, SameLine, Grows

\* One more packet of the file after those that are in it already.
LEMMA OneMoreInFile ==
    ASSUME NEW S, NEW seq \in Seq(S), NEW p \in S, InFile(seq),
           Len(seq) + 2 \in DOMAIN file, SameLine(p, file[Len(seq) + 2])
    PROVE  InFile(Append(seq, p)) /\ Len(Append(seq, p)) = Len(seq) + 1
  <1>1. Len(seq) \in Nat /\ DOMAIN seq = 1..Len(seq)
    OBVIOUS
  <1>2. /\ Append(seq, p) \in Seq(S) /\ Len(Append(seq, p)) = Len(seq) + 1
        /\ \A i \in 1..Len(seq) : Append(seq, p)[i] = seq[i]
        /\ Append(seq, p)[Len(seq) + 1] = p
    BY AppendProperties
  <1>3. DOMAIN Append(seq, p) = 1..(Len(seq) + 1)
    BY <1>2
  <1>4. \A i \in DOMAIN Append(seq, p) : i \in DOMAIN seq \/ i = Len(seq) + 1
    BY <1>1, <1>3
  <1>5. \A i \in DOMAIN seq : i + 1 \in DOMAIN file /\ SameLine(Append(seq, p)[i], file[i + 1])
    BY <1>1, <1>2 DEF InFile
  <1>6. (Len(seq) + 1) + 1 = Len(seq) + 2
    BY <1>1
  <1> QED
    BY <1>2, <1>4, <1>5, <1>6 DEF InFile

\* Nothing has been read initially.
LEMMA ReadInit == Init => ReadInv
  BY DEF Init, ReadInv, InFile

\* The steps of the probe and of the clock.
LEMMA ReadKeeps ==
    ASSUME TypeInv, WriteInv, ReadInv, [Next]_vars, UNCHANGED replayVars,
           changed' = changed \/ changed # "replaced", Grows
    PROVE  ReadInv'
  <1>1. UNCHANGED <<tool, position, checked, sent, current>>
    BY DEF replayVars
  <1>2. CASE changed' # "replaced"
    <2>1. /\ InFile(checked) /\ InFile(sent)
          /\ tool = "due" => position \in DOMAIN file /\ SameLine(current, file[position])
      BY <1>2 DEF ReadInv
    <2>2. InFile(checked)' /\ InFile(sent)'
      BY <1>1, <2>1, StillInFile DEF InFile
    <2>3. tool = "due" => position \in DOMAIN file' /\ SameLine(current, file'[position])
      BY <2>1 DEF SameLine, Grows
    <2> QED
      BY <1>1, <2>2, <2>3 DEF ReadInv, SameLine
  <1>3. CASE changed' = "replaced"
    BY <1>1, <1>3 DEF ReadInv
  <1> QED
    BY <1>2, <1>3

\* The pass that validates.
LEMMA ReadInspect == TypeInv /\ ReadInv /\ Inspect => ReadInv'
  <1> SUFFICES ASSUME TypeInv, ReadInv, Inspect PROVE ReadInv'
    OBVIOUS
  <1>1. /\ UNCHANGED <<file, changed, sent, current, tool>> /\ tool = "inspecting"
        /\ position' = position + 1 /\ position \in Nat /\ sent = <<>>
        /\ position < Len(file) /\ Accepted
        /\ checked' = IF position = 0 THEN checked ELSE Append(checked, Line)
        /\ checked \in Seq(Packets)
    BY DEF Inspect, ReadInv, TypeInv, probeVars
  <1>2. CASE position = 0
    BY <1>1, <1>2 DEF ReadInv, InFile
  <1>3. CASE position # 0
    <2>1. /\ Line \in Packets /\ Line = file[position + 1] /\ SameLine(Line, Line)
          /\ Len(checked) = position - 1 /\ position + 1 \in DOMAIN file
      BY <1>1, <1>3, AcceptedPacket DEF Line, SameLine, ReadInv, TypeInv
    <2>2. Len(checked) + 2 = position + 1
      BY <1>1, <2>1
    <2>3. Len(checked') = Len(checked) + 1
      BY <1>1, <1>3, <2>1, AppendProperties
    <2>4. changed # "replaced" => InFile(checked')
      BY <1>1, <1>3, <2>1, <2>2, OneMoreInFile DEF ReadInv
    <2>5. Len(checked') = position' - 1 /\ position' # 0
      BY <1>1, <2>1, <2>3
    <2> QED
      BY <1>1, <2>4, <2>5 DEF ReadInv, InFile
  <1> QED
    BY <1>2, <1>3

\* The pass that sends: the next packet.
LEMMA ReadRead == TypeInv /\ ReadInv /\ Read => ReadInv'
  <1> SUFFICES ASSUME TypeInv, ReadInv, Read PROVE ReadInv'
    OBVIOUS
  <1>1. /\ UNCHANGED <<file, changed, sent, checked>> /\ tool = "reading"
        /\ position' = position + 1 /\ position \in Nat
        /\ position < Len(file) /\ Accepted
        /\ IF position = 0 THEN UNCHANGED <<tool, current>>
           ELSE tool' = "due" /\ current' = Line
    BY DEF Read, TypeInv, probeVars
  <1>2. CASE position = 0
    BY <1>1, <1>2 DEF ReadInv, InFile
  <1>3. CASE position # 0
    <2>1. /\ Line \in Packets /\ Line = file[position + 1] /\ SameLine(Line, Line)
          /\ Len(sent) = position - 1 /\ position + 1 \in DOMAIN file
      BY <1>1, <1>3, AcceptedPacket DEF Line, SameLine, ReadInv, TypeInv
    <2>2. /\ tool' = "due" /\ position' \in DOMAIN file /\ SameLine(current', file[position'])
          /\ position' >= 2 /\ Len(sent) = position' - 2
      BY <1>1, <1>3, <2>1
    <2> QED
      BY <1>1, <2>2 DEF ReadInv, InFile, SameLine
  <1> QED
    BY <1>2, <1>3

\* What is sent is the packet that was read.
LEMMA ReadSend == TypeInv /\ ReadInv /\ Send => ReadInv'
  <1> SUFFICES ASSUME TypeInv, ReadInv, Send PROVE ReadInv'
    OBVIOUS
  <1> DEFINE p == [ns |-> current.ns, payload |-> current.payload, at |-> now]
  <1>1. /\ UNCHANGED <<file, changed, position, checked>>
        /\ tool = "due" /\ tool' = "reading" /\ position \in Nat
        /\ sent' = Append(sent, p) /\ p \in SentPackets /\ sent \in Seq(SentPackets)
    BY SentType DEF Send, TypeInv, probeVars
  <1>2. position >= 2 /\ Len(sent) = position - 2
    BY <1>1 DEF ReadInv
  <1>3. Len(sent') = position' - 1 /\ position' # 0
    BY <1>1, <1>2, AppendProperties
  <1>4. changed # "replaced" => InFile(sent')
    <2> SUFFICES ASSUME changed # "replaced" PROVE InFile(sent')
      OBVIOUS
    <2>1. InFile(sent) /\ position \in DOMAIN file /\ SameLine(current, file[position])
      BY <1>1 DEF ReadInv
    <2>2. SameLine(p, file[position])
      BY <2>1 DEF SameLine
    <2>3. Len(sent) + 2 = position
      BY <1>1, <1>2
    <2> HIDE DEF p
    <2> QED
      BY <1>1, <2>1, <2>2, <2>3, OneMoreInFile
  <1> HIDE DEF p
  <1> QED
    BY <1>1, <1>3, <1>4 DEF ReadInv, InFile

\* Every step keeps it; a capture that is started again makes no promise.
LEMMA ReadStep == TypeInv /\ WriteInv /\ ReadInv /\ [Next]_vars => ReadInv'
  <1> SUFFICES ASSUME TypeInv, WriteInv, ReadInv, [Next]_vars PROVE ReadInv'
    OBVIOUS
  <1>1. CASE \E overwrite \in BOOLEAN : Start(overwrite)
    BY <1>1 DEF Start, ReadInv, replayVars
  <1>2. CASE Tick \/ Receive \/ WriteHalf \/ WriteRest \/ StopProbe \/ UNCHANGED vars
    <2>1. UNCHANGED replayVars
      BY <1>2 DEF Tick, Receive, WriteHalf, WriteRest, StopProbe, vars
    <2>2. changed' = changed \/ changed # "replaced"
      BY <1>2 DEF Tick, Receive, WriteHalf, WriteRest, StopProbe, vars, Grown
    <2> QED
      BY <1>1, <2>1, <2>2, FileGrows, ReadKeeps
  <1>3. CASE StartReplay
    <2>1. /\ UNCHANGED <<position, checked, sent>> /\ tool' = "inspecting"
          /\ position = 0 /\ checked = <<>> /\ sent = <<>>
      BY <1>3 DEF StartReplay, ReadInv
    <2>2. Len(<<>>) = 0 /\ DOMAIN <<>> = {}
      OBVIOUS
    <2> QED
      BY <2>1, <2>2 DEF ReadInv, InFile
  <1>4. CASE Inspected
    <2>1. /\ UNCHANGED <<file, changed, checked, sent>> /\ tool = "inspecting"
          /\ tool' = "reading" /\ position' = 0 /\ sent = <<>>
      BY <1>4 DEF Inspected, probeVars, ReadInv
    <2> QED
      BY <2>1 DEF ReadInv, InFile
  <1>5. CASE End
    <2>1. /\ UNCHANGED <<file, changed, checked, sent>>
          /\ \/ tool' = "changed"
             \/ tool' = "done" /\ Len(sent) = Len(checked)
      BY <1>5 DEF End, probeVars, SameAsChecked
    <2> QED
      BY <2>1 DEF ReadInv, InFile
  <1>6. CASE Fails \/ Stop
    <2>1. UNCHANGED <<file, changed, checked, sent>> /\ tool' \in {"refused", "stopped"}
      BY <1>6 DEF Fails, Refuse, Stop, probeVars
    <2> QED
      BY <2>1 DEF ReadInv, InFile
  <1>7. CASE Sleep \/ Wake
    <2>1. UNCHANGED <<file, changed, tool, position, checked, sent, current>>
      BY <1>7 DEF Sleep, Wake, probeVars
    <2> QED
      BY <2>1 DEF ReadInv, InFile, SameLine
  <1> QED
    BY <1>1, <1>2, <1>3, <1>4, <1>5, <1>6, <1>7, ReadInspect, ReadRead, ReadSend, NextCases

\* Two sequences of one length whose packets are in the file at the same places agree.
LEMMA SameInFile ==
    ASSUME TypeInv, ReadInv PROVE DoneIsTheCapture
  <1> SUFFICES ASSUME tool = "done", changed # "replaced"
               PROVE  [i \in DOMAIN sent |-> <<sent[i].ns, sent[i].payload>>] =
                      [i \in DOMAIN checked |-> <<checked[i].ns, checked[i].payload>>]
    BY DEF DoneIsTheCapture
  <1>1. DOMAIN sent = DOMAIN checked
    BY DEF TypeInv, ReadInv
  <1>2. \A i \in DOMAIN sent : sent[i].ns = checked[i].ns /\ sent[i].payload = checked[i].payload
    BY <1>1 DEF ReadInv, InFile, SameLine
  <1> QED
    BY <1>1, <1>2

\* A replay that reports success has sent what it validated, also when the probe was
\* still writing to the file: it has read the same lines twice.
THEOREM SuccessIsTheCapture == Spec => []DoneIsTheCapture
  <1>1. Init => TypeInv /\ WriteInv /\ ReadInv
    BY TypeInit, WriteInit, ReadInit
  <1>2. TypeInv /\ WriteInv /\ ReadInv /\ [Next]_vars => (TypeInv /\ WriteInv /\ ReadInv)'
    BY TypeStep, WriteStep, ReadStep
  <1>3. TypeInv /\ ReadInv => DoneIsTheCapture
    BY SameInFile
  <1> QED
    BY <1>1, <1>2, <1>3, PTL DEF Spec

----------------------------------------------------------------------------
(* The spacing.                                                            *)

\* The times of packets, one more packet included.
LEMMA TimesOfMore ==
    ASSUME NEW seq \in Seq(SentPackets), NEW p \in SentPackets
    PROVE  /\ Times(seq) \in Seq(Int) /\ Len(Times(seq)) = Len(seq)
           /\ Times(Append(seq, p)) = Append(Times(seq), p.ns)
           /\ p.ns \in Int
  <1>1. \A q \in SentPackets : q.ns \in Int
    BY Bounds DEF SentPackets
  <1>2. DOMAIN seq = 1..Len(seq) /\ Len(seq) \in Nat /\ \A i \in 1..Len(seq) : seq[i] \in SentPackets
    OBVIOUS
  <1>3. Times(seq) \in Seq(Int) /\ Len(Times(seq)) = Len(seq)
    BY <1>1, <1>2 DEF Times
  <1>4. Times(Append(seq, p)) = Append(Times(seq), p.ns)
    <2> DEFINE long == Append(seq, p)
    <2>1. /\ long \in Seq(SentPackets) /\ Len(long) = Len(seq) + 1
          /\ \A i \in 1..Len(seq) : long[i] = seq[i]
          /\ long[Len(seq) + 1] = p
      BY AppendProperties
    <2>2. DOMAIN long = 1..(Len(seq) + 1)
      BY <2>1
    <2> HIDE DEF long
    <2>3. Times(long) \in Seq(Int) /\ Len(Times(long)) = Len(seq) + 1
      BY <1>1, <1>2, <2>1, <2>2 DEF Times
    <2>4. /\ Append(Times(seq), p.ns) \in Seq(Int)
          /\ Len(Append(Times(seq), p.ns)) = Len(seq) + 1
          /\ \A i \in 1..Len(seq) : Append(Times(seq), p.ns)[i] = Times(seq)[i]
          /\ Append(Times(seq), p.ns)[Len(seq) + 1] = p.ns
      BY <1>1, <1>3, AppendProperties
    <2>5. \A i \in 1..(Len(seq) + 1) : Times(long)[i] = Append(Times(seq), p.ns)[i]
      <3> SUFFICES ASSUME NEW i \in 1..(Len(seq) + 1)
                   PROVE  Times(long)[i] = Append(Times(seq), p.ns)[i]
        OBVIOUS
      <3>1. Times(long)[i] = long[i].ns
        BY <2>2 DEF Times
      <3>2. CASE i \in 1..Len(seq)
        <4>1. long[i] = seq[i] /\ Times(seq)[i] = seq[i].ns
          BY <1>2, <2>1, <3>2 DEF Times
        <4> QED
          BY <2>4, <3>1, <3>2, <4>1
      <3>3. CASE i = Len(seq) + 1
        BY <2>1, <2>4, <3>1, <3>3
      <3>4. i \in 1..Len(seq) \/ i = Len(seq) + 1
        BY <1>2
      <3> QED
        BY <3>2, <3>3, <3>4
    <2> QED
      BY <2>3, <2>4, <2>5, SeqEqual DEF long
  <1> QED
    BY <1>1, <1>3, <1>4

\* The first packet is due at once.
LEMMA LatestFirst == ASSUME NEW t \in Int PROVE Latest(0, Append(Times(<<>>), t))
  <1> DEFINE one == Append(Times(<<>>), t)
  <1>1. Times(<<>>) \in Seq(Int) /\ Len(Times(<<>>)) = 0
    BY DEF Times
  <1>2. one \in Seq(Int) /\ Len(one) = 1 /\ one[1] = t
    BY <1>1, AppendProperties
  <1>3. DOMAIN one = {1}
    BY <1>2
  <1> HIDE DEF one
  <1>4. Range(one) = {t}
    BY <1>2, <1>3 DEF Range
  <1>5. {u - one[1] : u \in Range(one)} = {0}
    BY <1>2, <1>4
  <1> QED
    BY <1>5 DEF Latest, one

\* A packet is due no earlier than the one ahead of it, nor than its own time.
LEMMA LatestNext ==
    ASSUME NEW times \in Seq(Int), times # <<>>, NEW m \in Int, Latest(m, times), NEW t \in Int
    PROVE  Latest(Clamp(m, t - times[1]), Append(times, t))
  <1> DEFINE long == Append(times, t)
             d == t - times[1]
             before == {u - times[1] : u \in Range(times)}
             after == {u - long[1] : u \in Range(long)}
  <1>1. /\ Len(times) \in Nat /\ Len(times) >= 1 /\ DOMAIN times = 1..Len(times)
        /\ times[1] \in Int /\ \A i \in DOMAIN times : times[i] \in Int
    OBVIOUS
  <1>2. /\ long \in Seq(Int) /\ Len(long) = Len(times) + 1
        /\ \A i \in 1..Len(times) : long[i] = times[i]
        /\ long[Len(times) + 1] = t
    BY AppendProperties
  <1>3. DOMAIN long = 1..(Len(times) + 1)
    BY <1>2
  <1> HIDE DEF long
  <1>4. long[1] = times[1]
    BY <1>1, <1>2
  <1>5. Range(long) = Range(times) \cup {t}
    <2>1. Range(long) \subseteq Range(times) \cup {t}
      <3> SUFFICES ASSUME NEW i \in DOMAIN long PROVE long[i] \in Range(times) \cup {t}
        BY DEF Range
      <3>1. i \in DOMAIN times \/ i = Len(times) + 1
        BY <1>1, <1>3
      <3> QED
        BY <1>1, <1>2, <3>1 DEF Range
    <2>2. Range(times) \subseteq Range(long)
      <3> SUFFICES ASSUME NEW i \in DOMAIN times PROVE times[i] \in Range(long)
        BY DEF Range
      <3>1. i \in DOMAIN long /\ long[i] = times[i]
        BY <1>1, <1>2, <1>3
      <3> QED
        BY <3>1 DEF Range
    <2>3. t \in Range(long)
      <3>1. Len(times) + 1 \in DOMAIN long
        BY <1>1, <1>3
      <3> QED
        BY <1>2, <3>1 DEF Range
    <2>4. \A x : x \in Range(long) <=> x \in Range(times) \cup {t}
      BY ONLY <2>1, <2>2, <2>3
    <2> QED
      BY ONLY <2>4
  <1>6. after = before \cup {d}
    BY <1>4, <1>5
  <1>7. d \in Int /\ before \subseteq Int
    BY <1>1 DEF Range
  <1>8. m \in before /\ \A x \in before : m >= x
    BY DEF Latest
  <1> HIDE DEF d, before, after
  <1>9. Clamp(m, d) \in {m, d} /\ Clamp(m, d) >= m /\ Clamp(m, d) >= d
    BY <1>7, LargerOfTwo
  <1>10. Clamp(m, d) \in after /\ \A x \in after : Clamp(m, d) >= x
    BY <1>6, <1>7, <1>8, <1>9
  <1> QED
    BY <1>10 DEF Latest, after, long, d

\* The latest offset is the one the property means.
LEMMA LatestIsDue ==
    ASSUME NEW times \in Seq(Int), NEW m \in Int, Latest(m, times)
    PROVE  DueOffset(times) = m
  <1> DEFINE S == {t - times[1] : t \in Range(times)}
  <1>1. m \in S /\ \A d \in S : m >= d
    BY DEF Latest
  <1>2. S \subseteq Int
    <2>1. \A t \in Range(times) : t \in Int /\ times # <<>>
      BY DEF Range
    <2>2. times # <<>> => times[1] \in Int
      OBVIOUS
    <2> QED
      BY <2>1, <2>2
  <1> HIDE DEF S
  <1>3. Max(S) \in S /\ \A d \in S : Max(S) >= d
    BY <1>1 DEF Max
  <1>4. Max(S) \in Int /\ Max(S) >= m /\ m >= Max(S)
    BY <1>1, <1>2, <1>3
  <1>5. Max(S) = m
    BY <1>4
  <1> QED
    BY <1>5 DEF DueOffset, S

\* One packet more leaves the beginnings of a sequence alone.
LEMMA BeginningOfMore ==
    ASSUME NEW S, NEW seq \in Seq(S), NEW p \in S
    PROVE  /\ \A i \in 1..Len(seq) : SubSeq(Append(seq, p), 1, i) = SubSeq(seq, 1, i)
           /\ SubSeq(Append(seq, p), 1, Len(seq) + 1) = Append(seq, p)
  <1> DEFINE long == Append(seq, p)
  <1>1. /\ long \in Seq(S) /\ Len(long) = Len(seq) + 1 /\ Len(seq) \in Nat
        /\ \A i \in 1..Len(seq) : long[i] = seq[i]
    BY AppendProperties
  <1> HIDE DEF long
  <1>2. \A i \in 1..Len(seq) : SubSeq(long, 1, i) = SubSeq(seq, 1, i)
    <2> SUFFICES ASSUME NEW i \in 1..Len(seq) PROVE SubSeq(long, 1, i) = SubSeq(seq, 1, i)
      OBVIOUS
    <2>1. \A k \in 1..i : long[k] = seq[k]
      BY <1>1
    <2>2. /\ SubSeq(long, 1, i) \in Seq(S) /\ Len(SubSeq(long, 1, i)) = i
          /\ \A k \in 1..i : SubSeq(long, 1, i)[k] = long[k]
      BY <1>1
    <2>3. /\ SubSeq(seq, 1, i) \in Seq(S) /\ Len(SubSeq(seq, 1, i)) = i
          /\ \A k \in 1..i : SubSeq(seq, 1, i)[k] = seq[k]
      BY <1>1
    <2> QED
      BY <2>1, <2>2, <2>3, SeqEqual
  <1>3. SubSeq(long, 1, Len(seq) + 1) = long
    BY <1>1, SubSeqFull
  <1> QED
    BY <1>2, <1>3 DEF long

\* Nothing has been sent initially.
LEMMA SpaceInit == Init => SpaceInv
  BY LineKinds DEF Init, SpaceInv, Awake

\* What was sent in time was sent in time.
LEMMA SentSame ==
    ASSUME sent' = sent, start' = start
    PROVE  \A i : SentInTime(i)' <=> SentInTime(i)
  BY Zenon DEF SentInTime, Latest, Times

\* The steps that leave alone what it is about, but perhaps end a sleep.
LEMMA SpaceSame ==
    ASSUME SpaceInv, UNCHANGED <<sent, offset, current, start, timed>>, wake' \in {wake, Awake}
    PROVE  SpaceInv'
  <1>1. sent = <<>> => offset = 0
    BY DEF SpaceInv
  <1>2. current = NoPacket /\ sent # <<>> => Latest(offset, Times(sent))'
    BY DEF SpaceInv, Latest, Times
  <1>3. current # NoPacket => Latest(offset, Append(Times(sent), current.ns))'
    BY DEF SpaceInv, Latest, Times
  <1>4. wake' # Awake => current # NoPacket /\ wake' <= Deadline'
    BY DEF SpaceInv, Deadline, Awake
  <1>5. timed => \A i \in DOMAIN sent : SentInTime(i)'
    BY SentSame DEF SpaceInv
  <1> QED
    BY <1>1, <1>2, <1>3, <1>4, <1>5 DEF SpaceInv

\* The offset of the next packet.
LEMMA SpaceRead == TypeInv /\ SpaceInv /\ Read => SpaceInv'
  <1> SUFFICES ASSUME TypeInv, SpaceInv, Read PROVE SpaceInv'
    OBVIOUS
  <1>1. /\ UNCHANGED <<sent, wake, start, timed>> /\ tool = "reading"
        /\ position < Len(file) /\ Accepted
        /\ IF position = 0 THEN UNCHANGED <<current, offset>>
           ELSE current' = Line /\ offset' = Clamp(offset, Line.ns - First)
    BY DEF Read
  <1>2. CASE position = 0
    BY <1>1, <1>2, SpaceSame
  <1>3. CASE position # 0
    <2>1. Line \in Packets /\ Line.ns \in Int /\ Line # NoPacket
      BY <1>1, <1>3, AcceptedPacket, LineKinds, Bounds
    <2>2. current = NoPacket /\ wake = Awake
      BY <1>1 DEF TypeInv, SpaceInv
    <2>3. current' = Line /\ offset' = Clamp(offset, Line.ns - First)
      BY <1>1, <1>3
    <2>4. Latest(offset', Append(Times(sent), Line.ns)) /\ (sent = <<>> => offset' = 0)
      <3>1. CASE sent = <<>>
        <4>1. offset = 0 /\ Line.ns - First = 0
          BY <2>1, <3>1 DEF SpaceInv, First
        <4>2. offset' = 0
          BY <2>3, <4>1, LargerOfTwo
        <4> QED
          BY <2>1, <3>1, <4>2, LatestFirst
      <3>2. CASE sent # <<>>
        <4> DEFINE times == Times(sent)
                   t == Line.ns
        <4>1. sent \in Seq(SentPackets) /\ sent[1] \in SentPackets /\ 1 \in DOMAIN sent
          BY <3>2 DEF TypeInv
        <4>2. times \in Seq(Int) /\ Len(times) = Len(sent) /\ offset \in Int
          BY <4>1, TimesOfMore DEF TypeInv
        <4>3. times # <<>> /\ times[1] = sent[1].ns
          BY <3>2, <4>1, <4>2 DEF Times
        <4>4. First = times[1] /\ Latest(offset, times) /\ t \in Int
          BY <2>1, <2>2, <3>2, <4>3 DEF First, SpaceInv
        <4> HIDE DEF times, t
        <4>5. Latest(Clamp(offset, t - times[1]), Append(times, t))
          BY <4>2, <4>3, <4>4, LatestNext
        <4> QED
          BY <2>3, <3>2, <4>4, <4>5 DEF times, t
      <3> QED
        BY <3>1, <3>2
    <2>5. timed => \A i \in DOMAIN sent : SentInTime(i)
      BY DEF SpaceInv
    <2>6. timed' => \A i \in DOMAIN sent' : SentInTime(i)'
      BY <1>1, <2>5, SentSame
    <2>7. current' # NoPacket /\ wake' = Awake /\ sent' = sent
      BY <1>1, <2>1, <2>2, <2>3 DEF Awake
    <2>8. Latest(offset, Append(Times(sent), current.ns))'
      BY <2>3, <2>4, <2>7 DEF Latest, Times
    <2> QED
      BY <2>4, <2>6, <2>7, <2>8 DEF SpaceInv, Awake
  <1> QED
    BY <1>2, <1>3

\* A sleep ends at the deadline or before.
LEMMA SpaceSleep == TypeInv /\ SpaceInv /\ Sleep => SpaceInv'
  <1> SUFFICES ASSUME TypeInv, SpaceInv, Sleep PROVE SpaceInv'
    OBVIOUS
  <1>1. /\ UNCHANGED <<sent, offset, current, start, timed>> /\ tool = "due"
        /\ now < Deadline /\ wake' = now + Min({Deadline - now, Chunk})
    BY DEF Sleep
  <1>2. now \in Int /\ Deadline \in Int /\ Chunk \in Int
    BY Bounds DEF TypeInv, Deadline
  <1>3. /\ Min({Deadline - now, Chunk}) \in {Deadline - now, Chunk}
        /\ Min({Deadline - now, Chunk}) <= Deadline - now
    BY <1>2, SmallerOfTwo
  <1>4. wake' <= Deadline
    BY <1>1, <1>2, <1>3
  <1>5. current # NoPacket
    BY <1>1, LineKinds DEF TypeInv
  <1>6. timed' => \A i \in DOMAIN sent' : SentInTime(i)'
    BY <1>1, SentSame DEF SpaceInv
  <1>7. Latest(offset, Append(Times(sent), current.ns))'
    BY <1>1, <1>5 DEF SpaceInv, Latest, Times
  <1>8. Deadline' = Deadline
    BY <1>1 DEF Deadline
  <1> QED
    BY <1>1, <1>4, <1>5, <1>6, <1>7, <1>8 DEF SpaceInv

\* A packet goes out at its deadline or later.
LEMMA SpaceSend == TypeInv /\ SpaceInv /\ Send => SpaceInv'
  <1> SUFFICES ASSUME TypeInv, SpaceInv, Send PROVE SpaceInv'
    OBVIOUS
  <1> DEFINE p == [ns |-> current.ns, payload |-> current.payload, at |-> now]
  <1>1. /\ UNCHANGED <<start, timed, offset, wake>> /\ current' = NoPacket
        /\ tool = "due" /\ wake = Awake /\ sent' = Append(sent, p)
        /\ p \in SentPackets /\ p.ns = current.ns /\ p.at = now
        /\ sent \in Seq(SentPackets) /\ current # NoPacket /\ offset \in Int
        /\ timed => now >= start + offset
    BY SentType, LineKinds DEF Send, TypeInv, Deadline
  <1> HIDE DEF p
  <1>2. /\ sent' # <<>> /\ Len(sent') = Len(sent) + 1 /\ Len(sent) \in Nat
        /\ \A i \in 1..Len(sent) : sent'[i] = sent[i]
        /\ sent'[Len(sent) + 1] = p
        /\ DOMAIN sent = 1..Len(sent)
    BY <1>1, AppendProperties
  <1>3. DOMAIN sent' = 1..(Len(sent) + 1)
    BY <1>1, <1>2
  <1>4. Latest(offset, Times(sent'))
    BY <1>1, TimesOfMore DEF SpaceInv
  <1>5. timed => \A i \in DOMAIN sent' : SentInTime(i)'
    <2> SUFFICES ASSUME timed, NEW i \in DOMAIN sent' PROVE SentInTime(i)'
      OBVIOUS
    <2>1. CASE i \in 1..Len(sent)
      <3>1. PICK m \in Int : Latest(m, Times(SubSeq(sent, 1, i))) /\ sent[i].at >= start + m
        BY <1>2, <2>1 DEF SpaceInv, SentInTime
      <3>2. SubSeq(sent', 1, i) = SubSeq(sent, 1, i) /\ sent'[i] = sent[i]
        BY <1>1, <1>2, <2>1, BeginningOfMore
      <3> QED
        BY <1>1, <3>1, <3>2 DEF SentInTime, Latest, Times
    <2>2. CASE i = Len(sent) + 1
      <3>1. SubSeq(sent', 1, i) = sent' /\ sent'[i] = p
        BY <1>1, <1>2, <2>2, BeginningOfMore
      <3> QED
        BY <1>1, <1>4, <3>1 DEF SentInTime, Latest, Times
    <2>3. i \in 1..Len(sent) \/ i = Len(sent) + 1
      BY <1>2, <1>3
    <2> QED
      BY <2>1, <2>2, <2>3
  <1>6. Latest(offset, Times(sent))'
    BY <1>1, <1>4 DEF Latest, Times
  <1> QED
    BY <1>1, <1>2, <1>5, <1>6 DEF SpaceInv

\* Every step keeps it.
LEMMA SpaceStep == TypeInv /\ ReadInv /\ SpaceInv /\ [Next]_vars => SpaceInv'
  <1> SUFFICES ASSUME TypeInv, ReadInv, SpaceInv, [Next]_vars PROVE SpaceInv'
    OBVIOUS
  <1>1. CASE \/ Tick \/ Receive \/ WriteHalf \/ WriteRest \/ StopProbe \/ UNCHANGED vars
             \/ \E overwrite \in BOOLEAN : Start(overwrite)
    <2>1. UNCHANGED replayVars
      BY <1>1 DEF Tick, Start, Receive, WriteHalf, WriteRest, StopProbe, vars
    <2> QED
      BY <2>1, SpaceSame DEF replayVars
  <1>2. CASE Inspect \/ Fails \/ End \/ Stop
    <2>1. UNCHANGED <<sent, offset, current, wake, start, timed>>
      BY <1>2 DEF Inspect, Fails, Refuse, End, Stop
    <2> QED
      BY <2>1, SpaceSame
  <1>3. CASE StartReplay \/ Inspected
    <2>1. UNCHANGED <<sent, offset, current, wake>> /\ tool \in {"idle", "inspecting"}
      BY <1>3 DEF StartReplay, Inspected
    <2>2. sent = <<>> /\ current = NoPacket /\ DOMAIN <<>> = {}
      BY <2>1 DEF ReadInv, TypeInv
    <2>3. wake = Awake
      BY <2>2 DEF SpaceInv
    <2> QED
      BY <2>1, <2>2, <2>3 DEF SpaceInv
  <1>4. CASE Wake
    <2>1. UNCHANGED <<sent, offset, current, start, timed>> /\ wake' = Awake
      BY <1>4 DEF Wake
    <2> QED
      BY <2>1, SpaceSame
  <1> QED
    BY <1>1, <1>2, <1>3, <1>4, SpaceRead, SpaceSleep, SpaceSend, NextCases

\* The invariant says what the property asks.
LEMMA SpacedOut == ASSUME TypeInv, SpaceInv PROVE SpacingKept
  <1>1. sent \in Seq(SentPackets) /\ offset \in Int
    BY DEF TypeInv
  <1>2. ASSUME timed, NEW i \in DOMAIN sent
        PROVE  sent[i].at >= start + DueOffset(Times(SubSeq(sent, 1, i)))
    <2>1. PICK m \in Int : Latest(m, Times(SubSeq(sent, 1, i))) /\ sent[i].at >= start + m
      BY <1>2 DEF SpaceInv, SentInTime
    <2>2. SubSeq(sent, 1, i) \in Seq(SentPackets) /\ sent[i] \in SentPackets
      BY <1>1
    <2>3. Times(SubSeq(sent, 1, i)) \in Seq(Int)
      BY <2>2, TimesOfMore
    <2>4. DueOffset(Times(SubSeq(sent, 1, i))) = m
      BY <2>1, <2>3, LatestIsDue
    <2> QED
      BY <2>1, <2>4
  <1>3. ASSUME wake # Awake
        PROVE  wake <= start + DueOffset(Append(Times(sent), current.ns))
    <2>1. /\ current # NoPacket /\ wake <= start + offset
          /\ Latest(offset, Append(Times(sent), current.ns))
      BY <1>3 DEF SpaceInv, Deadline
    <2>2. Times(sent) \in Seq(Int) /\ current.ns \in Int
      <3>1. current \in Packets
        BY <2>1 DEF TypeInv
      <3>2. current.ns \in Int
        BY <3>1, Bounds DEF Packets
      <3>3. Times(sent) \in Seq(Int)
        <4>1. \A q \in SentPackets : q.ns \in Int
          BY Bounds DEF SentPackets
        <4> QED
          BY <1>1, <4>1 DEF Times
      <3> QED
        BY <3>2, <3>3
    <2>3. Append(Times(sent), current.ns) \in Seq(Int)
      BY <2>2, AppendProperties
    <2>4. DueOffset(Append(Times(sent), current.ns)) = offset
      BY <1>1, <2>1, <2>3, LatestIsDue
    <2> QED
      BY <2>1, <2>4
  <1> QED
    BY <1>2, <1>3 DEF SpacingKept

\* A timed replay sends no packet early, whatever the clock of the capture did, and
\* sleeps past no deadline, whatever its own sleeps did.
THEOREM SpacingAlwaysKept == Spec => []SpacingKept
  <1>1. Init => TypeInv /\ WriteInv /\ ReadInv /\ SpaceInv
    BY TypeInit, WriteInit, ReadInit, SpaceInit
  <1>2. TypeInv /\ WriteInv /\ ReadInv /\ SpaceInv /\ [Next]_vars
            => (TypeInv /\ WriteInv /\ ReadInv /\ SpaceInv)'
    BY TypeStep, WriteStep, ReadStep, SpaceStep
  <1>3. TypeInv /\ SpaceInv => SpacingKept
    BY SpacedOut
  <1> QED
    BY <1>1, <1>2, <1>3, PTL DEF Spec

=============================================================================
