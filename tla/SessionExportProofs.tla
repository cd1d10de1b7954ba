------------------------ MODULE SessionExportProofs ------------------------
(***************************************************************************)
(* Theorems about SessionExport for any number of downloads, of other      *)
(* users of the thread pool, of sessions and of samples: what a download   *)
(* delivers while the history is written.                                  *)
(***************************************************************************)
EXTENDS SessionExport, SequenceTheorems, FiniteSetTheorems, TLAPS

----------------------------------------------------------------------------
(* Types.                                                                  *)

Sample == [rev : Nat, at : Nat]
Row == [car : {0}, startedAt : Nat, endedAt : Nat, duration : Int,
        reason : {"none", "telemetry_timeout"}, samples : Seq(Sample), count : Nat]
SummaryType == [count : Nat, ended : BOOLEAN]
Steps == {"none", "listed", "missing", "open", "select", "rows", "tail", "done", "broken"}
Thread == Nat \cup {NoThread}
Download == [step : Steps, kind : {"csv", "json"}, id : Nat, told : SummaryType,
             head : SummaryType, opener : Thread, rows : Seq(Sample), sent : Seq(Sample)]

\* Every variable has its type, the live session is a row, and the count of a row is
\* the number of its samples: they are one commit.
TypeInv ==
    /\ log \in Seq(Row)
    /\ live \in 0..Len(log)
    /\ \A i \in 1..Len(log) : log[i].count = Len(log[i].samples)
    /\ export \in [Exports -> Download]
    /\ idle \in Seq(Nat)
    /\ worker \in [Users -> Thread]

\* A row of the history and what the session list says of it.
LEMMA RowFields ==
    ASSUME TypeInv, NEW i \in 1..Len(log)
    PROVE  /\ log[i] \in Row /\ log[i].samples \in Seq(Sample) /\ Len(log[i].samples) \in Nat
           /\ Summary(i) \in SummaryType
           /\ Summary(i).count = Len(log[i].samples)
           /\ Summary(i).ended = (log[i].endedAt # NotEnded)
  <1>1. log[i] \in Row
    BY ElementOfSeq DEF TypeInv
  <1>2. log[i].samples \in Seq(Sample) /\ log[i].count \in Nat
    BY <1>1 DEF Row
  <1> QED
    BY <1>1, <1>2, LenProperties DEF TypeInv, Summary, SummaryType, Unfinished

\* An empty download is a download.
LEMMA NoExportType == NoExport \in Download /\ NoSummary \in SummaryType
  <1>1. <<>> \in Seq(Sample)
    OBVIOUS
  <1> QED
    BY <1>1 DEF NoExport, NoSummary, Download, SummaryType, Steps, Thread

----------------------------------------------------------------------------
(* The history only grows.                                                 *)

\* b begins with a.
Begins(a, b) == Len(a) <= Len(b) /\ \A k \in 1..Len(a) : a[k] = b[k]

\* What a commit of the writer may do to the history: rows stay, samples are only
\* added, and none to a session that has ended.
Grows ==
    /\ Len(log') >= Len(log)
    /\ \A i \in 1..Len(log) :
           /\ Begins(log[i].samples, log'[i].samples)
           /\ log[i].endedAt # NotEnded =>
                  log'[i].endedAt # NotEnded /\ log'[i].samples = log[i].samples

\* A commit that rewrites the live row only.
LEMMA RowCommit ==
    ASSUME TypeInv, live # 0, NEW row \in Row, row.count = Len(row.samples),
           log' = [log EXCEPT ![live] = row], live' \in {0, live}
    PROVE  /\ live \in 1..Len(log) /\ Len(log') = Len(log) /\ Len(log) \in Nat
           /\ \A i \in 1..Len(log) : log'[i] = IF i = live THEN row ELSE log[i]
           /\ log' \in Seq(Row) /\ live' \in 0..Len(log')
           /\ \A i \in 1..Len(log') : log'[i].count = Len(log'[i].samples)
  <1>1. Len(log) \in Nat /\ live \in 1..Len(log)
    BY LenProperties DEF TypeInv
  <1>2. /\ log' \in Seq(Row) /\ Len(log') = Len(log)
        /\ \A i \in 1..Len(log) : log'[i] = IF i = live THEN row ELSE log[i]
    BY <1>1, ExceptSeq DEF TypeInv
  <1> QED
    BY <1>1, <1>2 DEF TypeInv

\* Every commit of the writer keeps the types and makes the history grow.
LEMMA WriterGrows ==
    ASSUME TypeInv, Writer
    PROVE  TypeInv' /\ Grows
  <1> USE ExportAssumption
  <1>1. UNCHANGED <<export, idle, worker>>
    BY DEF Writer
  <1>2. Len(log) \in Nat /\ \A i \in 1..Len(log) : Len(log[i].samples) \in Nat
    BY LenProperties, RowFields DEF TypeInv
  <1>3. CASE StartSession
    <2> DEFINE row == [car |-> 0, startedAt |-> Len(log) + 1, endedAt |-> NotEnded,
                       duration |-> 0, reason |-> "none", samples |-> <<>>, count |-> 0]
    <2>1. row \in Row /\ row.count = Len(row.samples)
      BY <1>2 DEF Row, NotEnded
    <2>2. log' = Append(log, row) /\ live' = Len(log) + 1
      BY <1>3 DEF StartSession, OpenSession
    <2> HIDE DEF row
    <2>3. /\ log' \in Seq(Row) /\ Len(log') = Len(log) + 1 /\ log'[Len(log) + 1] = row
          /\ \A i \in 1..Len(log) : log'[i] = log[i]
      BY <2>1, <2>2, AppendProperties DEF TypeInv
    <2>4. ASSUME NEW i \in 1..Len(log') PROVE log'[i].count = Len(log'[i].samples)
      <3>1. i = Len(log) + 1 \/ i \in 1..Len(log)
        BY <1>2, <2>3
      <3> QED
        BY <2>1, <2>3, <3>1 DEF TypeInv
    <2>5. live' \in 0..Len(log')
      BY <1>2, <2>2, <2>3
    <2>6. Grows
      BY <1>2, <2>3 DEF Grows, Begins
    <2> QED
      BY <1>1, <2>3, <2>4, <2>5, <2>6 DEF TypeInv
  <1>4. CASE AddSample
    <2>1. live \in 1..Len(log) /\ live # 0 /\ live' = live
      BY <1>2, <1>4 DEF AddSample, AppendSample, TypeInv
    <2> DEFINE n == Len(log[live].samples) + 1
               sample == [rev |-> n, at |-> n]
               row == SampledRow(log[live], n)
    <2>2. log[live] \in Row /\ log[live].samples \in Seq(Sample) /\ sample \in Sample
          /\ log[live].count = Len(log[live].samples)
      BY <1>2, <2>1, RowFields DEF Sample, TypeInv
    <2>3. /\ Append(log[live].samples, sample) \in Seq(Sample)
          /\ Len(Append(log[live].samples, sample)) = n
          /\ Begins(log[live].samples, Append(log[live].samples, sample))
      BY <1>2, <2>1, <2>2, AppendProperties DEF Begins
    <2>4. /\ row \in Row /\ row.samples = Append(log[live].samples, sample)
          /\ row.count = n /\ row.endedAt = log[live].endedAt
      <3>1. log[live].count + 1 \in Nat /\ log[live].count + 1 = n
        BY <1>2, <2>1, <2>2
      <3>2. /\ row \in Row /\ row.samples = Append(log[live].samples, sample)
            /\ row.count = log[live].count + 1 /\ row.endedAt = log[live].endedAt
        BY ONLY <2>2, <2>3, <3>1, ZenonT(30) DEF Row, SampledRow
      <3> QED
        BY <3>1, <3>2
    <2>5. log' = [log EXCEPT ![live] = row]
      BY <1>4 DEF AddSample
    <2> HIDE DEF row, sample
    <2>a. /\ live # 0 /\ live' \in {0, live} /\ row \in Row /\ row.count = Len(row.samples)
          /\ log' = [log EXCEPT ![live] = row]
      BY <2>1, <2>3, <2>4, <2>5
    <2>b. /\ Len(log') = Len(log) /\ log' \in Seq(Row) /\ live' \in 0..Len(log')
          /\ \A i \in 1..Len(log) : log'[i] = IF i = live THEN row ELSE log[i]
          /\ \A i \in 1..Len(log') : log'[i].count = Len(log'[i].samples)
      BY <2>a, RowCommit
    <2>6. log[live].endedAt = NotEnded
      BY <1>4, <2>1, <2>4, <2>b DEF AddSample, AppendSample, Unfinished
    <2>7. TypeInv'
      BY <1>1, <2>b DEF TypeInv
    <2>8. ASSUME NEW i \in 1..Len(log)
          PROVE  /\ Begins(log[i].samples, log'[i].samples)
                 /\ log[i].endedAt # NotEnded =>
                        log'[i].endedAt # NotEnded /\ log'[i].samples = log[i].samples
      <3>1. CASE i = live
        BY <2>1, <2>3, <2>4, <2>6, <2>b, <3>1
      <3>2. CASE i # live
        BY <1>2, <2>b, <3>2 DEF Begins
      <3> QED
        BY <3>1, <3>2
    <2> QED
      BY <1>2, <2>7, <2>8, <2>b DEF Grows
  <1>5. CASE EndSession
    <2>1. live \in 1..Len(log) /\ live # 0 /\ live' = 0
      BY <1>2, <1>5 DEF EndSession, CloseSession, TypeInv
    <2> DEFINE at == MaxSessions + MaxSamples
               row == [log[live] EXCEPT !.endedAt = at, !.duration = at - log[live].startedAt,
                                        !.reason = "telemetry_timeout"]
    <2>2. log[live] \in Row /\ log[live].count = Len(log[live].samples) /\ at \in Nat
      BY <2>1, RowFields DEF TypeInv
    <2>3. row \in Row /\ row.samples = log[live].samples /\ row.count = log[live].count
      <3>1. at - log[live].startedAt \in Int
        BY <2>2 DEF Row
      <3> HIDE DEF at
      <3> QED
        BY ONLY <2>2, <3>1, ZenonT(30) DEF Row
    <2>4. log' = [log EXCEPT ![live] = row]
      BY <1>5 DEF EndSession
    <2> HIDE DEF row
    <2>a. /\ live # 0 /\ live' \in {0, live} /\ row \in Row /\ row.count = Len(row.samples)
          /\ log' = [log EXCEPT ![live] = row]
      BY <2>1, <2>2, <2>3, <2>4
    <2>b. /\ Len(log') = Len(log) /\ log' \in Seq(Row) /\ live' \in 0..Len(log')
          /\ \A i \in 1..Len(log) : log'[i] = IF i = live THEN row ELSE log[i]
          /\ \A i \in 1..Len(log') : log'[i].count = Len(log'[i].samples)
      BY <2>a, RowCommit
    <2>5. row.endedAt # NotEnded
      BY <1>5, <2>1, <2>b DEF EndSession, CloseSession, Unfinished
    <2>6. TypeInv'
      BY <1>1, <2>b DEF TypeInv
    <2>7. Grows
      BY <1>2, <2>1, <2>3, <2>5, <2>b DEF Grows, Begins
    <2> QED
      BY <2>6, <2>7
  <1>6. CASE LoseSession
    BY <1>1, <1>2, <1>6 DEF LoseSession, Abandon, TypeInv, Grows, Begins
  <1> QED
    BY <1>3, <1>4, <1>5, <1>6 DEF Writer

----------------------------------------------------------------------------
(* The types of the downloads and of the thread pool.                      *)

\* A worker that starts has a number: the threads that exist are counted.
LEMMA StartedType == TypeInv => Started \in Nat
  <1> SUFFICES ASSUME TypeInv PROVE Started \in Nat
    OBVIOUS
  <1>1. {u \in Users : worker[u] # NoThread} \in SUBSET Users /\ IsFiniteSet(Users)
    BY ExportAssumption DEF Users
  <1>2. Cardinality({u \in Users : worker[u] # NoThread}) \in Nat
    BY <1>1, FS_Subset, FS_CardinalityType
  <1>3. Len(idle) \in Nat
    BY LenProperties DEF TypeInv
  <1> QED
    BY <1>2, <1>3 DEF Started

\* What Onward makes of a download.
LEMMA OnwardType ==
    ASSUME NEW x \in Download
    PROVE  /\ Onward(x) \in Download
           /\ Onward(x).id = x.id /\ Onward(x).rows = x.rows
           /\ Onward(x).told = x.told /\ Onward(x).head = x.head
           /\ \/ /\ Len(x.sent) < Len(x.rows) /\ Onward(x).step = "rows"
                 /\ Onward(x).sent = Append(x.sent, x.rows[Len(x.sent) + 1])
              \/ /\ Len(x.sent) >= Len(x.rows) /\ Onward(x).step \in {"tail", "done"}
                 /\ Onward(x).sent = x.sent
  <1>1. x.rows \in Seq(Sample) /\ x.sent \in Seq(Sample)
    BY DEF Download
  <1>2. Len(x.rows) \in Nat /\ Len(x.sent) \in Nat
    BY <1>1, LenProperties
  <1>3. CASE Len(x.sent) < Len(x.rows)
    <2>1. x.rows[Len(x.sent) + 1] \in Sample
      BY <1>1, <1>2, <1>3, ElementOfSeq
    <2>2. Append(x.sent, x.rows[Len(x.sent) + 1]) \in Seq(Sample)
      BY <1>1, <2>1
    <2>3. Onward(x) = [x EXCEPT !.step = "rows", !.sent = Append(x.sent, x.rows[Len(x.sent) + 1])]
      BY <1>3 DEF Onward
    <2> QED
      BY <1>3, <2>2, <2>3 DEF Download, Steps
  <1>4. CASE ~(Len(x.sent) < Len(x.rows))
    <2>1. PICK t \in {"tail", "done"} : Onward(x) = [x EXCEPT !.step = t]
      BY <1>4 DEF Onward
    <2> QED
      BY <1>2, <1>4, <2>1 DEF Download, Steps
  <1> QED
    BY <1>3, <1>4

\* The pool's own steps keep the types of the pool.
LEMMA PoolType ==
    ASSUME TypeInv, NEW u \in Users, Submit(u) \/ Release(u)
    PROVE  idle' \in Seq(Nat) /\ worker' \in [Users -> Thread] /\ UNCHANGED storeVars
  <1>1. CASE Submit(u)
    <2>1. CASE idle = <<>>
      BY <1>1, <2>1, StartedType DEF Submit, TypeInv, Thread
    <2>2. CASE idle # <<>>
      <3>1. Len(idle) \in Nat /\ Len(idle) > 0 /\ idle \in Seq(Nat)
        BY <2>2, EmptySeq, LenProperties DEF TypeInv
      <3>2. Last(idle) \in Nat
        BY <3>1, ElementOfSeq DEF Last
      <3>3. \A i \in 1..(Len(idle) - 1) : idle[i] \in Nat
        BY <3>1, ElementOfSeq
      <3>4. Front(idle) \in Seq(Nat)
        BY <3>1, <3>3, SubSeqProperties DEF Front
      <3> QED
        BY <1>1, <2>2, <3>2, <3>4 DEF Submit, TypeInv, Thread
    <2> QED
      BY <2>1, <2>2
  <1>2. CASE Release(u)
    <2>1. worker[u] \in Nat
      BY <1>2 DEF Release, TypeInv, Thread
    <2> QED
      BY <1>2, <2>1 DEF Release, TypeInv, Thread
  <1> QED
    BY <1>1, <1>2

----------------------------------------------------------------------------
(* What a download may hold.                                               *)

\* A summary s of session id that was true and is not ahead: the session still has
\* the samples it counts, and exactly those when it says that the session ended.
Covers(s, id) ==
    /\ s.count <= Len(log[id].samples)
    /\ s.ended => log[id].endedAt # NotEnded /\ s.count = Len(log[id].samples)

\* The same of the rows that a cursor returns.
HeldBy(s, rows) ==
    /\ s.count <= Len(rows)
    /\ s.ended => s.count = Len(rows)

\* What a download knows of its session at each step of its generator.
Sound(x) ==
    /\ x.step \in {"none", "missing"} => x.told = NoSummary
    /\ x.step \notin {"none", "missing"} =>
           x.id \in 1..Len(log) /\ Covers(x.told, x.id) /\ Covers(x.head, x.id)
    /\ x.step \in {"none", "missing", "listed", "open"} => x.head = NoSummary
    /\ x.step \in {"none", "missing", "listed", "open", "select"} =>
           x.rows = <<>> /\ x.sent = <<>>
    /\ Begins(x.sent, x.rows)
    /\ x.step \in {"rows", "tail", "done", "broken"} => Begins(x.rows, log[x.id].samples)
    /\ x.step \in {"rows", "tail", "done"} => HeldBy(x.told, x.rows) /\ HeldBy(x.head, x.rows)
    /\ x.step \in {"tail", "done"} => Len(x.sent) = Len(x.rows)

ReadInv == \A e \in Exports : Sound(export[e])

\* The writer takes nothing back that a download knows.
LEMMA SoundGrows ==
    ASSUME TypeInv, TypeInv', Grows, NEW x \in Download, Sound(x)
    PROVE  Sound(x)'
  <1>1. Len(log) \in Nat /\ Len(log') \in Nat /\ Len(log') >= Len(log)
    BY LenProperties DEF TypeInv, Grows
  <1>2. CASE x.step \in {"none", "missing"}
    BY <1>2 DEF Sound
  <1>3. CASE x.step \notin {"none", "missing"}
    <2>1. x.id \in 1..Len(log) /\ x.id \in 1..Len(log')
      BY <1>1, <1>3 DEF Sound
    <2>2. /\ log[x.id].samples \in Seq(Sample) /\ log'[x.id] \in Row
          /\ Len(log[x.id].samples) \in Nat
      BY <2>1, RowFields, ElementOfSeq DEF TypeInv
    <2>3. log'[x.id].samples \in Seq(Sample)
      BY <2>2 DEF Row
    <2>4. Len(log'[x.id].samples) \in Nat
      BY <2>3, LenProperties
    <2>5. /\ Begins(log[x.id].samples, log'[x.id].samples)
          /\ log[x.id].endedAt # NotEnded =>
                 log'[x.id].endedAt # NotEnded /\ log'[x.id].samples = log[x.id].samples
      BY <2>1 DEF Grows
    <2>6. ASSUME NEW s \in SummaryType, Covers(s, x.id) PROVE Covers(s, x.id)'
      <3>1. s.count \in Nat
        BY DEF SummaryType
      <3> QED
        BY <2>2, <2>4, <2>5, <2>6, <3>1 DEF Covers, Begins
    <2>7. Covers(x.told, x.id)' /\ Covers(x.head, x.id)'
      BY <1>3, <2>6 DEF Sound, Download
    <2>8. Begins(x.rows, log[x.id].samples) => Begins(x.rows, log'[x.id].samples)
      <3>1. Len(x.rows) \in Nat
        BY LenProperties DEF Download
      <3> QED
        BY <2>2, <2>4, <2>5, <3>1 DEF Begins
    <2> QED
      BY <1>3, <2>1, <2>7, <2>8 DEF Sound
  <1> QED
    BY <1>2, <1>3

\* One download changes, and what it knows is sound: the others are as they were.
LEMMA OneDownload ==
    ASSUME TypeInv, ReadInv, NEW e \in Exports, NEW y \in Download, Sound(y),
           export' = [export EXCEPT ![e] = y], log' = log
    PROVE  export' \in [Exports -> Download] /\ ReadInv'
  <1>1. /\ export' \in [Exports -> Download]
        /\ \A f \in Exports : export'[f] = IF f = e THEN y ELSE export[f]
    BY DEF TypeInv
  <1>2. ASSUME NEW x \in Download, Sound(x) PROVE Sound(x)'
    BY <1>2 DEF Sound, Covers
  <1>3. ASSUME NEW f \in Exports PROVE Sound(export'[f])
    BY <1>1 DEF ReadInv
  <1>4. ASSUME NEW f \in Exports PROVE Sound(export[f])'
    <2>1. PICK x \in Download : x = export'[f]
      BY <1>1
    <2>2. Sound(x)'
      BY <1>2, <1>3, <2>1
    <2> QED
      BY <2>1, <2>2 DEF Sound, Covers
  <1> QED
    BY <1>1, <1>4 DEF ReadInv

\* A download that has nothing holds nothing that could be wrong.
LEMMA NoSummaryCovers ==
    ASSUME TypeInv, NEW i \in 1..Len(log)
    PROVE  Covers(NoSummary, i)
  BY RowFields DEF Covers, NoSummary

\* What the list says of a session at this moment is true of it.
LEMMA SummaryCovers ==
    ASSUME TypeInv, NEW i \in 1..Len(log)
    PROVE  Covers(Summary(i), i)
  <1>1. /\ Len(log[i].samples) \in Nat
        /\ Summary(i).count = Len(log[i].samples)
        /\ Summary(i).ended = (log[i].endedAt # NotEnded)
    BY RowFields
  <1>2. Summary(i).count <= Len(log[i].samples)
    BY ONLY <1>1
  <1> QED
    BY ONLY <1>1, <1>2, Zenon DEF Covers

\* The list shows a session as it is.
LEMMA ListSound ==
    ASSUME TypeInv, ReadInv, NEW e \in Exports, NEW limit \in Ids, ListSessions(e, limit)
    PROVE  export' \in [Exports -> Download] /\ ReadInv'
  <1>1. PICK id \in 1..Len(log) : export' = [export EXCEPT ![e] =
            [export[e] EXCEPT !.step = "listed", !.id = id, !.told = Summary(id)]]
    BY DEF ListSessions
  <1> DEFINE x == export[e]
             y == [x EXCEPT !.step = "listed", !.id = id, !.told = Summary(id)]
  <1>2. x \in Download /\ Sound(x) /\ x.step = "none" /\ log' = log
    BY DEF TypeInv, ReadInv, ListSessions, storeVars
  <1>3. Len(log) \in Nat /\ id \in Nat /\ Summary(id) \in SummaryType
    BY LenProperties, RowFields DEF TypeInv
  <1>4. /\ y \in Download /\ y.step = "listed" /\ y.id = id /\ y.told = Summary(id)
        /\ y.head = x.head /\ y.rows = x.rows /\ y.sent = x.sent
    BY <1>2, <1>3 DEF Download, Steps
  <1>5. Covers(Summary(id), id) /\ Covers(NoSummary, id)
    BY SummaryCovers, NoSummaryCovers
  <1> HIDE DEF y
  <1>6. Sound(y)
    BY <1>2, <1>4, <1>5 DEF Sound
  <1> QED
    BY <1>1, <1>2, <1>4, <1>6, OneDownload DEF y

\* A request for a session that the list showed finds it.
LEMMA RequestSound ==
    ASSUME TypeInv, ReadInv, NEW e \in Exports, NEW kind \in {"csv", "json"}, NEW id \in Ids,
           Request(e, kind, id)
    PROVE  export' \in [Exports -> Download] /\ ReadInv'
  <1> DEFINE x == export[e]
             step == IF id \in 1..Len(log) THEN "open" ELSE "missing"
             y == [x EXCEPT !.kind = kind, !.id = id, !.step = step]
  <1>1. export' = [export EXCEPT ![e] = y] /\ log' = log
    BY DEF Request, storeVars
  <1>2. x \in Download /\ Sound(x) /\ id \in Nat
    BY ExportAssumption DEF TypeInv, ReadInv, Ids
  <1>3. /\ y \in Download /\ y.step = step /\ y.id = id /\ y.told = x.told
        /\ y.head = x.head /\ y.rows = x.rows /\ y.sent = x.sent
    BY <1>2 DEF Download, Steps
  <1>4. x.step = "none" \/ (x.step = "listed" /\ id = x.id)
    BY DEF Request
  <1> HIDE DEF y
  <1>5. CASE x.step = "none"
    <2>1. x.told = NoSummary /\ x.head = NoSummary
      BY <1>2, <1>5 DEF Sound
    <2>2. id \in 1..Len(log) => Covers(NoSummary, id)
      BY NoSummaryCovers
    <2>3. Sound(y)
      BY <1>2, <1>3, <1>5, <2>1, <2>2 DEF Sound
    <2> QED
      BY <1>1, <1>3, <2>3, OneDownload
  <1>6. CASE x.step = "listed" /\ id = x.id
    <2>1. id \in 1..Len(log) /\ step = "open"
      BY <1>2, <1>6 DEF Sound
    <2>2. Sound(y)
      BY <1>2, <1>3, <1>6, <2>1 DEF Sound
    <2> QED
      BY <1>1, <1>3, <2>2, OneDownload
  <1> QED
    BY <1>4, <1>5, <1>6

\* The head of a JSON export is the session as it is.
LEMMA OpenSound ==
    ASSUME TypeInv, ReadInv, NEW e \in Exports, OpenExport(e)
    PROVE  export' \in [Exports -> Download] /\ ReadInv'
  <1> DEFINE x == export[e]
             head == IF x.kind = "json" THEN Summary(x.id) ELSE NoSummary
             y == [x EXCEPT !.step = "select", !.opener = worker[e], !.head = head]
  <1>1. export' = [export EXCEPT ![e] = y] /\ log' = log
    BY DEF OpenExport, Release, storeVars
  <1>2. x \in Download /\ Sound(x) /\ x.step = "open" /\ worker[e] \in Thread
    BY DEF TypeInv, ReadInv, OpenExport, Users
  <1>3. x.id \in 1..Len(log)
    BY <1>2 DEF Sound
  <1>4. head \in SummaryType /\ Covers(head, x.id)
    <2>1. Summary(x.id) \in SummaryType /\ Covers(Summary(x.id), x.id)
      BY <1>3, RowFields, SummaryCovers
    <2>2. NoSummary \in SummaryType /\ Covers(NoSummary, x.id)
      BY <1>3, NoExportType, NoSummaryCovers
    <2> QED
      BY <2>1, <2>2
  <1> HIDE DEF head
  <1>5. /\ y \in Download /\ y.step = "select" /\ y.id = x.id /\ y.told = x.told
        /\ y.head = head /\ y.rows = x.rows /\ y.sent = x.sent
    BY <1>2, <1>4 DEF Download, Steps
  <1> HIDE DEF y
  <1>6. Sound(y)
    BY <1>2, <1>4, <1>5 DEF Sound
  <1> QED
    BY <1>1, <1>5, <1>6, OneDownload

\* The SELECT sees every commit made before it, the ones the client was told of too.
LEMMA SelectSound ==
    ASSUME TypeInv, ReadInv, NEW e \in Exports, SelectSamples(e)
    PROVE  export' \in [Exports -> Download] /\ ReadInv'
  <1> DEFINE x == export[e]
             z == [x EXCEPT !.rows = log[x.id].samples]
             y == Onward(z)
  <1>1. export' = [export EXCEPT ![e] = y] /\ log' = log
    BY DEF SelectSamples, Release, storeVars
  <1>2. x \in Download /\ Sound(x) /\ x.step = "select"
    BY DEF TypeInv, ReadInv, SelectSamples
  <1>3. x.id \in 1..Len(log) /\ x.sent = <<>> /\ Covers(x.told, x.id) /\ Covers(x.head, x.id)
    BY <1>2 DEF Sound
  <1>4. log[x.id].samples \in Seq(Sample) /\ Len(log[x.id].samples) \in Nat
    BY <1>3, RowFields
  <1>5. /\ z \in Download /\ z.step = "select" /\ z.id = x.id /\ z.told = x.told
        /\ z.head = x.head /\ z.rows = log[x.id].samples /\ z.sent = <<>>
    BY <1>2, <1>3, <1>4 DEF Download
  <1> HIDE DEF z
  <1>6. /\ y \in Download /\ y.id = x.id /\ y.rows = log[x.id].samples
        /\ y.told = x.told /\ y.head = x.head
        /\ \/ /\ 0 < Len(z.rows) /\ y.step = "rows"
              /\ y.sent = Append(<<>>, z.rows[1])
           \/ /\ 0 >= Len(z.rows) /\ y.step \in {"tail", "done"} /\ y.sent = <<>>
    BY <1>5, OnwardType
  <1> HIDE DEF y
  <1>7. Begins(y.sent, y.rows) /\ (y.step \in {"tail", "done"} => Len(y.sent) = Len(y.rows))
    BY <1>4, <1>5, <1>6 DEF Begins
  <1>8. HeldBy(y.told, y.rows) /\ HeldBy(y.head, y.rows) /\ Begins(y.rows, log[x.id].samples)
    BY <1>3, <1>4, <1>6 DEF HeldBy, Covers, Begins
  <1>9. Sound(y)
    BY <1>3, <1>6, <1>7, <1>8 DEF Sound
  <1> QED
    BY <1>1, <1>6, <1>9, OneDownload

\* The next row is the one that follows the rows already sent.
LEMMA SendSound ==
    ASSUME TypeInv, ReadInv, NEW e \in Exports, SendNext(e)
    PROVE  export' \in [Exports -> Download] /\ ReadInv'
  <1> DEFINE x == export[e]
             y == Onward(x)
  <1>1. export' = [export EXCEPT ![e] = y] /\ log' = log
    BY DEF SendNext, Release, storeVars
  <1>2. x \in Download /\ Sound(x) /\ x.step \in {"rows", "tail"}
    BY DEF TypeInv, ReadInv, SendNext
  <1>3. /\ x.id \in 1..Len(log) /\ Covers(x.told, x.id) /\ Covers(x.head, x.id)
        /\ Begins(x.sent, x.rows) /\ Begins(x.rows, log[x.id].samples)
        /\ HeldBy(x.told, x.rows) /\ HeldBy(x.head, x.rows)
    BY <1>2 DEF Sound
  <1>4. x.rows \in Seq(Sample) /\ x.sent \in Seq(Sample)
    BY <1>2 DEF Download
  <1>5. Len(x.rows) \in Nat /\ Len(x.sent) \in Nat
    BY <1>4, LenProperties
  <1>6. /\ y \in Download /\ y.id = x.id /\ y.rows = x.rows
        /\ y.told = x.told /\ y.head = x.head
        /\ \/ /\ Len(x.sent) < Len(x.rows) /\ y.step = "rows"
              /\ y.sent = Append(x.sent, x.rows[Len(x.sent) + 1])
           \/ /\ Len(x.sent) >= Len(x.rows) /\ y.step \in {"tail", "done"}
              /\ y.sent = x.sent
    BY <1>2, OnwardType
  <1> HIDE DEF y
  <1>7. Begins(y.sent, y.rows) /\ (y.step \in {"tail", "done"} => Len(y.sent) = Len(y.rows))
    <2>1. CASE y.sent = x.sent /\ Len(x.sent) >= Len(x.rows)
      BY <1>3, <1>5, <1>6, <2>1 DEF Begins
    <2>2. CASE /\ Len(x.sent) < Len(x.rows) /\ y.step = "rows"
               /\ y.sent = Append(x.sent, x.rows[Len(x.sent) + 1])
      <3>1. x.rows[Len(x.sent) + 1] \in Sample
        BY <1>4, <1>5, <2>2, ElementOfSeq
      <3>2. /\ Len(y.sent) = Len(x.sent) + 1
            /\ y.sent[Len(x.sent) + 1] = x.rows[Len(x.sent) + 1]
            /\ \A k \in 1..Len(x.sent) : y.sent[k] = x.sent[k]
        BY <1>4, <2>2, <3>1, AppendProperties
      <3>3. ASSUME NEW k \in 1..Len(y.sent) PROVE y.sent[k] = x.rows[k]
        <4>1. k = Len(x.sent) + 1 \/ k \in 1..Len(x.sent)
          BY <1>5, <3>2
        <4> QED
          BY <1>3, <3>2, <4>1 DEF Begins
      <3> QED
        BY <1>5, <1>6, <2>2, <3>2, <3>3 DEF Begins
    <2> QED
      BY <1>6, <2>1, <2>2
  <1>8. Sound(y)
    BY <1>3, <1>6, <1>7 DEF Sound
  <1> QED
    BY <1>1, <1>6, <1>8, OneDownload

\* A response that is cut short keeps what it delivered.
LEMMA BreakSound ==
    ASSUME TypeInv, ReadInv, NEW e \in Exports, BreakOff(e)
    PROVE  export' \in [Exports -> Download] /\ ReadInv'
  <1> DEFINE x == export[e]
             y == [x EXCEPT !.step = "broken"]
  <1>1. export' = [export EXCEPT ![e] = y] /\ log' = log
    BY DEF BreakOff, Release, storeVars
  <1>2. x \in Download /\ Sound(x) /\ x.step \in {"select", "rows", "tail"}
    BY DEF TypeInv, ReadInv, BreakOff
  <1>3. /\ y \in Download /\ y.step = "broken" /\ y.id = x.id /\ y.told = x.told
        /\ y.head = x.head /\ y.rows = x.rows /\ y.sent = x.sent
    BY <1>2 DEF Download, Steps
  <1>4. /\ x.id \in 1..Len(log) /\ Covers(x.told, x.id) /\ Covers(x.head, x.id)
        /\ Begins(x.sent, x.rows)
    BY <1>2 DEF Sound
  <1>5. Begins(x.rows, log[x.id].samples)
    <2>1. Len(log[x.id].samples) \in Nat
      BY <1>4, RowFields
    <2>2. CASE x.step = "select"
      BY <1>2, <2>1, <2>2 DEF Sound, Begins
    <2>3. CASE x.step # "select"
      BY <1>2, <2>3 DEF Sound
    <2> QED
      BY <2>2, <2>3
  <1> HIDE DEF y
  <1>6. Sound(y)
    BY <1>3, <1>4, <1>5 DEF Sound
  <1> QED
    BY <1>1, <1>3, <1>6, OneDownload

----------------------------------------------------------------------------
(* The invariant of the specification.                                     *)

\* The empty history and downloads nobody asked for.
LEMMA ExportInit == Init => TypeInv /\ ReadInv
  <1> SUFFICES ASSUME Init PROVE TypeInv /\ ReadInv
    OBVIOUS
  <1>1. log = <<>> /\ live = 0 /\ idle = <<>>
    BY DEF Init, StoreInit
  <1>2. export \in [Exports -> Download] /\ \A e \in Exports : export[e] = NoExport
    BY NoExportType DEF Init
  <1>3. worker \in [Users -> Thread]
    BY DEF Init, Thread
  <1>4. TypeInv
    BY <1>1, <1>2, <1>3 DEF TypeInv
  <1>5. Sound(NoExport)
    BY DEF Sound, NoExport, Begins
  <1>6. ReadInv
    BY <1>2, <1>5 DEF ReadInv
  <1> QED
    BY <1>4, <1>6

\* A step that leaves the history and the downloads alone.
LEMMA ReadKept ==
    ASSUME ReadInv, log' = log, export' = export
    PROVE  ReadInv'
  BY DEF ReadInv, Sound, Covers

\* Every step of the writer, of the routes and of the pool keeps the invariant.
LEMMA ExportStep == TypeInv /\ ReadInv /\ [Next]_vars => TypeInv' /\ ReadInv'
  <1> SUFFICES ASSUME TypeInv, ReadInv, [Next]_vars PROVE TypeInv' /\ ReadInv'
    OBVIOUS
  <1>1. ASSUME export' \in [Exports -> Download], idle' \in Seq(Nat),
               worker' \in [Users -> Thread], UNCHANGED storeVars
        PROVE  TypeInv'
    BY <1>1 DEF TypeInv, storeVars
  <1>2. CASE Writer
    <2>1. TypeInv' /\ Grows /\ export' = export
      BY <1>2, WriterGrows DEF Writer
    <2>2. ASSUME NEW e \in Exports PROVE Sound(export[e])'
      <3>1. PICK x \in Download : x = export[e]
        BY DEF TypeInv
      <3>2. Sound(x)'
        BY <2>1, <3>1, SoundGrows DEF ReadInv
      <3> QED
        BY <2>1, <3>1, <3>2 DEF Sound, Covers
    <2> QED
      BY <2>1, <2>2 DEF ReadInv
  <1>3. ASSUME NEW u \in Users, Submit(u) PROVE TypeInv' /\ ReadInv'
    BY <1>1, <1>3, PoolType, ReadKept DEF Submit, TypeInv, storeVars
  <1>4. ASSUME NEW p \in Pages, ServePage(p) PROVE TypeInv' /\ ReadInv'
    <2>1. p \in Users /\ Release(p) /\ export' = export
      BY <1>4 DEF ServePage, Users
    <2> QED
      BY <1>1, <2>1, PoolType, ReadKept DEF TypeInv, storeVars
  <1>5. ASSUME NEW e \in Exports, NEW limit \in Ids, ListSessions(e, limit)
        PROVE  TypeInv' /\ ReadInv'
    <2>1. UNCHANGED <<storeVars, idle, worker>>
      BY <1>5 DEF ListSessions
    <2> QED
      BY <1>1, <1>5, <2>1, ListSound DEF TypeInv
  <1>6. ASSUME NEW e \in Exports, NEW kind \in {"csv", "json"}, NEW id \in Ids,
               Request(e, kind, id)
        PROVE  TypeInv' /\ ReadInv'
    <2>1. UNCHANGED <<storeVars, idle, worker>>
      BY <1>6 DEF Request
    <2> QED
      BY <1>1, <1>6, <2>1, RequestSound DEF TypeInv
  <1>7. ASSUME NEW e \in Exports,
               OpenExport(e) \/ SelectSamples(e) \/ SendNext(e) \/ BreakOff(e)
        PROVE  TypeInv' /\ ReadInv'
    <2>1. e \in Users /\ Release(e)
      BY <1>7 DEF OpenExport, SelectSamples, SendNext, BreakOff, Users
    <2>2. export' \in [Exports -> Download] /\ ReadInv'
      BY <1>7, OpenSound, SelectSound, SendSound, BreakSound
    <2> QED
      BY <1>1, <2>1, <2>2, PoolType
  <1>8. CASE UNCHANGED vars
    BY <1>1, <1>8, ReadKept DEF vars, storeVars, TypeInv
  <1> QED
    BY <1>2, <1>3, <1>4, <1>5, <1>6, <1>7, <1>8 DEF Next

\* Every reachable state has the types, and every download is sound.
THEOREM ExportsAlwaysSound == Spec => [](TypeInv /\ ReadInv)
  BY ExportInit, ExportStep, PTL DEF Spec

----------------------------------------------------------------------------
(* What a client may rely on.                                              *)

\* Two sequences that agree up to the end of the first: it is a prefix.
LEMMA BeginsIsPrefix ==
    ASSUME NEW a \in Seq(Sample), NEW b \in Seq(Sample), Begins(a, b)
    PROVE  IsPrefix(a, b)
  <1>1. Len(a) \in Nat /\ Len(b) \in Nat /\ Len(a) <= Len(b)
    BY LenProperties DEF Begins
  <1>2. \A k \in 1..Len(a) : a[k] \in Sample /\ b[k] \in Sample /\ a[k] = b[k]
    BY <1>1, ElementOfSeq DEF Begins
  <1>3. /\ SubSeq(a, 1, Len(a)) \in Seq(Sample) /\ SubSeq(b, 1, Len(a)) \in Seq(Sample)
        /\ Len(SubSeq(a, 1, Len(a))) = Len(a) /\ Len(SubSeq(b, 1, Len(a))) = Len(a)
        /\ \A k \in 1..Len(a) : SubSeq(a, 1, Len(a))[k] = SubSeq(b, 1, Len(a))[k]
    BY <1>1, <1>2, SubSeqProperties
  <1>4. SubSeq(a, 1, Len(a)) = SubSeq(b, 1, Len(a))
    BY <1>3, SeqEqual
  <1> QED
    BY <1>1, <1>4 DEF IsPrefix

\* What a download delivered is the beginning of the session's samples, however the
\* writer went on and wherever the response ended.
THEOREM DownloadsArePrefixes == Spec => []ExportIsPrefix
  <1>1. TypeInv /\ ReadInv => ExportIsPrefix
    <2> SUFFICES ASSUME TypeInv, ReadInv, NEW e \in Exports, export[e].sent # <<>>
                 PROVE  IsPrefix(export[e].sent, log[export[e].id].samples)
      BY DEF ExportIsPrefix
    <2> DEFINE x == export[e]
    <2>1. x \in Download /\ Sound(x)
      BY DEF TypeInv, ReadInv
    <2>2. /\ x.id \in 1..Len(log) /\ Begins(x.sent, x.rows)
          /\ Begins(x.rows, log[x.id].samples)
      BY <2>1 DEF Sound, Download, Steps
    <2>3. /\ x.sent \in Seq(Sample) /\ x.rows \in Seq(Sample)
          /\ log[x.id].samples \in Seq(Sample)
      BY <2>1, <2>2, RowFields DEF Download
    <2>4. Len(x.sent) \in Nat /\ Len(x.rows) \in Nat /\ Len(log[x.id].samples) \in Nat
      BY <2>3, LenProperties
    <2>5. Begins(x.sent, log[x.id].samples)
      BY <2>2, <2>4 DEF Begins
    <2> QED
      BY <2>3, <2>5, BeginsIsPrefix
  <1> QED
    BY <1>1, ExportsAlwaysSound, PTL

\* A session that the list showed is found, and the complete file holds the samples the
\* list counted, exactly those when the list showed the session as ended.
THEOREM ReadsAlwaysForward == Spec => []ReadsNeverGoBack
  <1>1. TypeInv /\ ReadInv => ReadsNeverGoBack
    <2> SUFFICES ASSUME TypeInv, ReadInv, NEW e \in Exports, export[e].told # NoSummary
                 PROVE  /\ export[e].step # "missing"
                        /\ export[e].step = "done" =>
                            /\ Len(export[e].sent) >= export[e].told.count
                            /\ export[e].told.ended =>
                                   Len(export[e].sent) = export[e].told.count
      BY DEF ReadsNeverGoBack
    <2> DEFINE x == export[e]
    <2>1. x \in Download /\ Sound(x)
      BY DEF TypeInv, ReadInv
    <2>2. Len(x.rows) \in Nat /\ Len(x.sent) \in Nat /\ x.told.count \in Nat
      BY <2>1, LenProperties DEF Download, SummaryType
    <2>3. x.step # "missing"
      BY <2>1 DEF Sound
    <2>4. x.step = "done" => HeldBy(x.told, x.rows) /\ Len(x.sent) = Len(x.rows)
      BY <2>1 DEF Sound
    <2> QED
      BY <2>2, <2>3, <2>4 DEF HeldBy
  <1> QED
    BY <1>1, ExportsAlwaysSound, PTL

\* The summary of a complete JSON export counts no sample that the file does not hold.
THEOREM SummariesNeverAhead == Spec => []SummaryNotAhead
  <1>1. TypeInv /\ ReadInv => SummaryNotAhead
    <2> SUFFICES ASSUME TypeInv, ReadInv, NEW e \in Exports,
                        export[e].kind = "json", export[e].step = "done"
                 PROVE  /\ export[e].head.count <= Len(export[e].sent)
                        /\ export[e].head.ended =>
                               export[e].head.count = Len(export[e].sent)
      BY DEF SummaryNotAhead
    <2>1. Sound(export[e])
      BY DEF ReadInv
    <2> QED
      BY <2>1 DEF Sound, HeldBy
  <1> QED
    BY <1>1, ExportsAlwaysSound, PTL
=============================================================================
