---------------------------- MODULE CaptureReplay ----------------------------
(***************************************************************************)
(* A capture file and its two users: the probe that writes it              *)
(* (tools/udp_probe.py) and the tool that validates and replays it         *)
(* (tools/replay_capture.py), two processes that know nothing of each      *)
(* other.  The file may grow, be torn by the end of the probe, or be       *)
(* started again with --overwrite while the other tool is reading it.      *)
(*                                                                         *)
(* A line is a record of one type; "half" is a line without its end, which *)
(* is no JSON.  A payload is a sequence of bytes, because the digest runs  *)
(* over the bytes and not over the packets.  The time stamps of the file   *)
(* come from the wall clock, which may be set back; the replay runs on the *)
(* monotonic clock "now".                                                  *)
(***************************************************************************)
EXTENDS Integers, SequencesExt, FiniteSetsExt

CONSTANTS
    Payloads,       \* the payloads of datagrams
    MaxTime,        \* bound: both clocks
    MaxPackets,     \* bound: datagrams received, over all starts of the probe
    MaxStarts,      \* bound: starts of the probe
    Chunk           \* MAX_SLEEP_CHUNK_SECONDS

ASSUME CaptureAssumption ==
    /\ Payloads \subseteq Seq(Nat)
    /\ MaxTime \in Nat /\ MaxPackets \in Nat /\ MaxStarts \in Nat
    /\ Chunk \in Nat \ {0}

VARIABLES
    file,           \* the lines of the capture file
    generation,     \* history: starts of the probe; 0 while there is no file
    probe,          \* "off", "running", "writing" a record or "half" through it
    received,       \* history: the packets the probe has received for this file
    packets,        \* history: packets received by all starts
    now,            \* the replay's clock
    tool,           \* where the replay is
    timed,          \* False at --speed max
    opened,         \* the generation of the file it reads
    position,       \* lines it has read
    checked,        \* the packets inspect_capture has seen
    changed,        \* history: what has happened to the file since the replay began
    start,          \* replay_start
    current,        \* the packet to be sent
    offset,         \* previous_offset_ns
    wake,           \* when the present sleep was to end
    sent            \* history: the packets sent, and when

probeVars == <<file, generation, probe, received, packets>>
replayVars == <<tool, timed, opened, position, checked, start, current, offset, wake, sent>>
vars == <<probeVars, replayVars, changed, now>>

Header == [type |-> "header"]
Half == [type |-> "half"]
Packets == [type : {"packet"}, ns : 0..MaxTime, payload : Payloads]
NoPacket == [type |-> "none"]
Awake == -1

Init ==
    /\ file = <<>>
    /\ generation = 0
    /\ probe = "off"
    /\ received = <<>>
    /\ packets = 0
    /\ now = 0
    /\ tool = "idle"
    /\ timed = TRUE
    /\ opened = 0
    /\ position = 0
    /\ checked = <<>>
    /\ changed = "no"
    /\ start = 0
    /\ current = NoPacket
    /\ offset = 0
    /\ wake = Awake
    /\ sent = <<>>

Tick == now < MaxTime /\ now' = now + 1 /\ UNCHANGED <<probeVars, replayVars, changed>>

----------------------------------------------------------------------------
(* The probe.                                                              *)

\* Mutant: the file is opened for appending.
StartAppending(overwrite) ==
    /\ probe = "off"
    /\ generation < MaxStarts
    /\ generation = 0 \/ overwrite
    /\ file' = Append(file, Header)
    /\ generation' = generation + 1
    /\ probe' = "running"
    /\ received' = <<>>
    /\ changed' = "replaced"
    /\ UNCHANGED <<packets, now, replayVars>>

\* Mode "x" raises FileExistsError, mode "w" empties the file.  The header follows; a
\* probe that ends within it leaves a half line.
Start(overwrite) ==
    /\ probe = "off"
    /\ generation < MaxStarts
    /\ generation = 0 \/ overwrite
    /\ \/ file' = <<Header>> /\ probe' = "running"
       \/ file' = <<Half>> /\ probe' = "off"
       \/ file' = <<>> /\ probe' = "off"
    /\ generation' = generation + 1
    /\ received' = <<>>
    /\ changed' = "replaced"
    /\ UNCHANGED <<packets, now, replayVars>>

\* recvfrom and the time of day.
Receive ==
    /\ probe = "running"
    /\ packets < MaxPackets
    /\ \E p \in Packets : received' = Append(received, p)
    /\ packets' = packets + 1
    /\ probe' = "writing"
    /\ UNCHANGED <<file, generation, changed, now, replayVars>>

Grown == changed' = IF changed = "no" THEN "grown" ELSE changed

\* The record is written and flushed; a reader may come in between.
WriteHalf ==
    /\ probe = "writing"
    /\ file' = Append(file, Half)
    /\ probe' = "half"
    /\ Grown
    /\ UNCHANGED <<generation, received, packets, now, replayVars>>

WriteRest ==
    /\ probe = "half"
    /\ file' = [file EXCEPT ![Len(file)] = Last(received)]
    /\ probe' = "running"
    /\ Grown
    /\ UNCHANGED <<generation, received, packets, now, replayVars>>

\* Ctrl+C, or the end of the process at any point.
StopProbe ==
    /\ probe # "off"
    /\ probe' = "off"
    /\ UNCHANGED <<file, generation, received, packets, changed, now, replayVars>>

----------------------------------------------------------------------------
(* The replay.                                                             *)

StartReplay ==
    /\ tool = "idle"
    /\ generation > 0
    /\ timed' \in BOOLEAN
    /\ tool' = "inspecting"
    /\ opened' = generation
    /\ changed' = "no"
    /\ UNCHANGED <<probeVars, now, position, checked, start, current, offset, wake, sent>>

AtEnd == position = Len(file)

\* CaptureReader accepts a line: one header, then packets.  A reader whose file was
\* started again may also find itself in the middle of a line.
Line == file[position + 1]
Accepted == Line.type = IF position = 0 THEN "header" ELSE "packet"
Garbled == ~AtEnd /\ opened # generation

Refuse == tool' = "refused" /\ UNCHANGED <<timed, opened, position, checked, start, current,
                                           offset, wake, sent>>

\* inspect_capture: the whole file is read, then there must be a packet.
Inspect ==
    /\ tool = "inspecting"
    /\ position < Len(file)
    /\ Accepted
    /\ position' = position + 1
    /\ checked' = IF position = 0 THEN checked ELSE Append(checked, Line)
    /\ UNCHANGED <<probeVars, changed, now, tool, timed, opened, start, current, offset,
                   wake, sent>>

\* The file is opened again to be sent, and the clock of the replay starts.
Inspected ==
    /\ tool = "inspecting"
    /\ position >= Len(file)
    /\ checked # <<>>
    /\ tool' = "reading"
    /\ opened' = generation
    /\ position' = 0
    /\ start' = now
    /\ UNCHANGED <<probeVars, changed, now, timed, checked, current, offset, wake, sent>>

\* CaptureError, before or in the middle of sending.
Fails ==
    /\ \/ tool \in {"inspecting", "reading"} /\ position < Len(file) /\ ~Accepted
       \/ tool \in {"inspecting", "reading"} /\ position < Len(file) /\ Garbled
       \/ tool \in {"inspecting", "reading"} /\ position = 0 /\ file = <<>>
       \/ tool = "inspecting" /\ position >= Len(file) /\ checked = <<>>
    /\ Refuse
    /\ UNCHANGED <<probeVars, changed, now>>

First == IF sent = <<>> THEN Line.ns ELSE sent[1].ns

\* "Never schedule a packet before the one ahead of it."
Clamp(before, new) == Max({before, new})

\* The next packet and its offset.
Read ==
    /\ tool = "reading"
    /\ position < Len(file)
    /\ Accepted
    /\ position' = position + 1
    /\ IF position = 0
       THEN UNCHANGED <<tool, current, offset>>
       ELSE /\ tool' = "due"
            /\ current' = Line
            /\ offset' = Clamp(offset, Line.ns - First)
    /\ UNCHANGED <<probeVars, changed, now, timed, opened, checked, start, wake, sent>>

\* Mutant: the deadline counts from the packet before.
DeadlineFromLast ==
    IF sent = <<>> THEN start
    ELSE Last(sent).at + Max({0, current.ns - Last(sent).ns})

Deadline == start + offset

\* _sleep_until sleeps in chunks.
Sleep ==
    /\ tool = "due" /\ timed
    /\ wake = Awake
    /\ now < Deadline
    /\ wake' = now + Min({Deadline - now, Chunk})
    /\ UNCHANGED <<probeVars, changed, now, tool, timed, opened, position, checked, start,
                   current, offset, sent>>

\* The sleep ends, in time or late; the clock is read again.
Wake ==
    /\ wake # Awake
    /\ now >= wake
    /\ wake' = Awake
    /\ UNCHANGED <<probeVars, changed, now, tool, timed, opened, position, checked, start,
                   current, offset, sent>>

Send ==
    /\ tool = "due"
    /\ wake = Awake
    /\ timed => now >= Deadline
    /\ sent' = Append(sent, [ns |-> current.ns, payload |-> current.payload, at |-> now])
    /\ current' = NoPacket
    /\ tool' = "reading"
    /\ UNCHANGED <<probeVars, changed, now, timed, opened, position, checked, start, offset,
                   wake>>

Bytes(seq) == FlattenSeq([i \in DOMAIN seq |-> seq[i].payload])

\* The packets, the bytes and the digest of the bytes.
SameAsChecked == Len(sent) = Len(checked) /\ Bytes(sent) = Bytes(checked)

\* Mutant: the end of the file is not compared with what was validated.
EndUnchecked ==
    /\ tool = "reading"
    /\ position > 0 /\ position >= Len(file)
    /\ tool' = "done"
    /\ UNCHANGED <<probeVars, changed, now, timed, opened, position, checked, start, current,
                   offset, wake, sent>>

End ==
    /\ tool = "reading"
    /\ position > 0 /\ position >= Len(file)
    /\ tool' = IF SameAsChecked THEN "done" ELSE "changed"
    /\ UNCHANGED <<probeVars, changed, now, timed, opened, position, checked, start, current,
                   offset, wake, sent>>

\* OSError of sendto, or Ctrl+C.
Stop ==
    /\ tool \in {"inspecting", "reading", "due"}
    /\ tool' = "stopped"
    /\ UNCHANGED <<probeVars, changed, now, timed, opened, position, checked, start, current,
                   offset, wake, sent>>

Next ==
    \/ Tick
    \/ \E overwrite \in BOOLEAN : Start(overwrite)
    \/ Receive \/ WriteHalf \/ WriteRest \/ StopProbe
    \/ StartReplay \/ Inspect \/ Inspected \/ Fails
    \/ Read \/ Sleep \/ Wake \/ Send \/ End \/ Stop

Spec == Init /\ [][Next]_vars

----------------------------------------------------------------------------
(* Properties.                                                             *)

\* Whenever the probe ends, its file holds what it has received, in order and whole,
\* but for the last packet: "flush each packet so Ctrl+C or a crash loses as little as
\* possible" (udp_probe.py), and starting the probe again never mixes two captures.
LosesAtMostOne ==
    /\ \A i \in DOMAIN file : file[i].type = "packet" =>
           i - 1 \in DOMAIN received /\ file[i] = received[i - 1]
    /\ \A j \in 1..(Len(received) - 1) : j + 1 \in DOMAIN file /\ file[j + 1] = received[j]
    /\ \A i \in DOMAIN file : file[i] = Header => i = 1
    /\ \A i \in DOMAIN file : file[i] = Half => i = Len(file)

\* The offset a packet is due at: the latest of the time stamps so far, counted from
\* the first; a wall clock that was set back must not bring a packet forward.
DueOffset(times) == Max({t - times[1] : t \in Range(times)})
Times(seq) == [i \in DOMAIN seq |-> seq[i].ns]

\* However its sleeps are cut short or overslept, a timed replay sends no packet before
\* the spacing of the capture allows it (_sleep_until, replay_capture), and it never
\* sleeps beyond that time, however late the packets before it were: "Deadlines are
\* absolute, so socket and loop overhead do not accumulate as drift"
\* (docs/capture-format.md).
SpacingKept ==
    /\ timed => \A i \in DOMAIN sent :
           sent[i].at >= start + DueOffset(Times(SubSeq(sent, 1, i)))
    /\ wake # Awake => wake <= start + DueOffset(Append(Times(sent), current.ns))

\* A replay that reports success has sent the capture it validated, packet by packet
\* and with its time stamps, although the probe may have gone on writing to the file
\* (the comparison at the end of replay_capture).  A capture that was started again
\* meanwhile is told apart by its bytes alone, so nothing is said of that case.
DoneIsTheCapture ==
    tool = "done" /\ changed # "replaced" =>
        [i \in DOMAIN sent |-> <<sent[i].ns, sent[i].payload>>] =
        [i \in DOMAIN checked |-> <<checked[i].ns, checked[i].payload>>]

=============================================================================
