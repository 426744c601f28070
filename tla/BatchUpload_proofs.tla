------------------------- MODULE BatchUpload_proofs -------------------------
(***************************************************************************)
(* Theorems about BatchUpload, for any files, any number of uploads, of    *)
(* runs and of restarts, and whatever connections fail.                    *)
(***************************************************************************)
EXTENDS BatchUpload, FiniteSetTheorems, SequenceTheorems, TLAPS

Counts == [success : Nat, failed : Nat]
Events == [type : {"progress", "done"}, counts : Counts]
StreamShape == [session : Uploads \cup {NoUpload},
                state   : {"none", "requested", "rows", "done", "over"},
                counts  : Counts,
                chan    : Seq(Events)]

\* The types of all variables.
Shape ==
  /\ upload \in [Uploads -> {"none", "sent", "stored", "refused", "over"}]
  /\ file \in [Uploads -> Files \cup {NoFile}]
  /\ stored \in SUBSET Uploads
  /\ stream \in [Streams -> StreamShape]
  /\ opened \in 0..MaxStreams
  /\ parsed \in Uploads \cup {NoUpload}
  /\ es \in 0..opened
  /\ progress \in Counts
  /\ summary \in [stream : Nat, counts : Counts]
  /\ accepted \in [Uploads -> UNION {[1..n -> Nat] : n \in Nat}]
  /\ \A u \in Uploads : accepted[u] \in [1..file[u].rows -> Nat]
  /\ starts \in [Uploads -> Nat]
  /\ restarts \in 0..MaxRestarts

\* The rows of an upload are counted by a natural number.
LEMMA FilesHaveRows ==
  ASSUME Shape, NEW u \in Uploads
  PROVE  file[u].rows \in Nat
BY BatchAssumption DEF Shape, NoFile

\* The initial states have the shape of the invariant.
LEMMA InitShape == Init => Shape
<1> SUFFICES ASSUME Init PROVE Shape
  OBVIOUS
<1>1. <<>> \in Seq(Events)
  OBVIOUS
<1>2. <<>> \in [1..0 -> Nat]
  <2>1. <<>> \in Seq(Nat) /\ Len(<<>>) = 0
    OBVIOUS
  <2> QED BY <2>1, LenProperties
<1>3. \A u \in Uploads : file[u].rows = 0 /\ accepted[u] = <<>>
  BY DEF Init, NoFile
<1>4. accepted \in [Uploads -> UNION {[1..n -> Nat] : n \in Nat}]
  <2>1. <<>> \in UNION {[1..n -> Nat] : n \in Nat}
    BY <1>2
  <2> QED BY <2>1 DEF Init
<1>5. stream \in [Streams -> StreamShape]
  BY <1>1 DEF Init, StreamShape, Counts, Zero, NoUpload
<1>6. Zero \in Counts
  BY DEF Zero, Counts
<1>7. \A u \in Uploads : accepted[u] \in [1..file[u].rows -> Nat]
  BY <1>2, <1>3
<1>8. summary \in [stream : Nat, counts : Counts] /\ progress \in Counts
  BY <1>6 DEF Init
<1>9. 0 \in 0..MaxStreams /\ 0 \in 0..MaxRestarts
  BY BatchAssumption
<1>10. es \in 0..opened
  BY DEF Init
<1> QED BY <1>4, <1>5, <1>7, <1>8, <1>9, <1>10 DEF Init, Shape

-----------------------------------------------------------------------------
\* Streams that were changed keep their types.
LEMMA StreamsKeepShape ==
  ASSUME Shape, [Next]_vars
  PROVE  stream' \in [Streams -> StreamShape]
<1> USE DEF uploadVars, tabVars
<1>s. stream \in [Streams -> StreamShape]
  BY DEF Shape
<1>1. CASE UNCHANGED stream
  BY <1>1, <1>s
<1>2. CASE StartSubmit
  <2>1. Request(parsed) \in StreamShape
    BY <1>2 DEF StartSubmit, Shape, Request, StreamShape, Counts, Zero
  <2> QED BY <1>2, <1>s, <2>1 DEF StartSubmit
<1>3. ASSUME NEW k \in Streams, OnMessage(k) PROVE stream' \in [Streams -> StreamShape]
  <2>1. Tail(stream[k].chan) \in Seq(Events)
    BY <1>3, <1>s, HeadTailProperties DEF OnMessage, StreamShape
  <2> QED BY <1>3, <1>s, <2>1 DEF OnMessage, StreamShape
<1>4. ASSUME NEW k \in Streams,
             Open(k) \/ BadRow(k) \/ Pop(k) \/ Abandon(k)
      PROVE  stream' \in [Streams -> StreamShape]
  BY <1>4, <1>s DEF Open, BadRow, Pop, Abandon, StreamShape
<1>5. ASSUME NEW k \in Streams, NEW c \in Counts, NEW type \in {"progress", "done"}
      PROVE  Yields(k, c, type) \in StreamShape
  <2>1. [type |-> type, counts |-> c] \in Events
    BY DEF Events
  <2>2. stream[k].chan \in Seq(Events)
    BY <1>s DEF StreamShape
  <2>3. Append(stream[k].chan, [type |-> type, counts |-> c]) \in Seq(Events)
    BY <2>1, <2>2, AppendProperties
  <2> QED BY <1>s, <2>3 DEF Yields, StreamShape
<1>6. ASSUME NEW k \in Streams, SendRow(k) PROVE stream' \in [Streams -> StreamShape]
  <2>1. PICK ok \in BOOLEAN :
          stream' = [stream EXCEPT ![k] = Yields(k, Counted(stream[k].counts, ok), "progress")]
    BY <1>6 DEF SendRow
  <2>2. Counted(stream[k].counts, ok) \in Counts
    BY <1>s DEF StreamShape, Counts, Counted
  <2> QED BY <1>s, <1>5, <2>1, <2>2
<1>7. ASSUME NEW k \in Streams, AllSent(k) PROVE stream' \in [Streams -> StreamShape]
  <2>1. stream[k].counts \in Counts
    BY <1>s DEF StreamShape
  <2>2. Yields(k, stream[k].counts, "done") \in StreamShape
    BY <1>5, <2>1
  <2>3. [Yields(k, stream[k].counts, "done") EXCEPT !.state = "done"] \in StreamShape
    BY <2>2 DEF StreamShape
  <2>4. stream' = [stream EXCEPT ![k] =
                     [Yields(k, stream[k].counts, "done") EXCEPT !.state = "done"]]
    BY <1>7 DEF AllSent
  <2> QED BY <1>s, <2>3, <2>4
<1>8. CASE BackendRestarts
  <2>1. \A k \in Streams : [stream[k] EXCEPT !.state = "over"] \in StreamShape
    BY <1>s DEF StreamShape
  <2> QED BY <1>8, <1>s, <2>1 DEF BackendRestarts
<1>9. ASSUME NEW k \in Streams, ServerEnded(k) \/ ConnectionLost(k)
      PROVE  UNCHANGED stream
  BY <1>9 DEF ServerEnded, ConnectionLost, Disconnected, OnError, CloseStream
<1>10. ASSUME NEW u \in Uploads,
              ChooseFile(u) \/ UploadFile(u) \/ UploadAnswered(u) \/ UploadFails(u)
       PROVE  UNCHANGED stream
  BY <1>10 DEF ChooseFile, UploadFile, UploadAnswered, UploadFails
<1>11. CASE StopSubmit \/ Reset
  BY <1>1, <1>11 DEF StopSubmit, Reset
<1>12. CASE UNCHANGED vars
  BY <1>1, <1>12 DEF vars
<1> QED BY <1>1, <1>2, <1>3, <1>4, <1>6, <1>7, <1>8, <1>9, <1>10, <1>11, <1>12
        DEF Next, Serve
\* Adding to one of the counts leaves natural counts.
LEMMA CountStaysNat ==
  ASSUME NEW S, NEW f \in [S -> Nat], NEW i, NEW c \in Nat
  PROVE  [f EXCEPT ![i] = @ + c] \in [S -> Nat]
<1>1. CASE i \in S
  <2>1. f[i] + c \in Nat
    BY <1>1
  <2> QED BY <2>1
<1>2. CASE i \notin S
  BY <1>2
<1> QED BY <1>1, <1>2

\* What becomes of uploads, their files and their transactions.
LEMMA UploadsKeepShape ==
  ASSUME Shape, [Next]_vars
  PROVE  /\ upload' \in [Uploads -> {"none", "sent", "stored", "refused", "over"}]
         /\ file' \in [Uploads -> Files \cup {NoFile}]
         /\ accepted' \in [Uploads -> UNION {[1..n -> Nat] : n \in Nat}]
         /\ \A u \in Uploads : accepted'[u] \in [1..file'[u].rows -> Nat]
<1> USE DEF uploadVars, tabVars
<1> DEFINE Goal ==
      /\ upload' \in [Uploads -> {"none", "sent", "stored", "refused", "over"}]
      /\ file' \in [Uploads -> Files \cup {NoFile}]
      /\ accepted' \in [Uploads -> UNION {[1..n -> Nat] : n \in Nat}]
      /\ \A u \in Uploads : accepted'[u] \in [1..file'[u].rows -> Nat]
<1>1. CASE UNCHANGED <<upload, file, accepted>>
  BY <1>1 DEF Shape
<1>2. ASSUME NEW u \in Uploads, ChooseFile(u) PROVE Goal
  <2>1. PICK f \in Files : /\ file' = [file EXCEPT ![u] = f]
                           /\ accepted' = [accepted EXCEPT ![u] = [i \in 1..f.rows |-> 0]]
    BY <1>2 DEF ChooseFile
  <2>2. [i \in 1..f.rows |-> 0] \in [1..f.rows -> Nat] /\ f.rows \in Nat
    BY BatchAssumption
  <2>3. [i \in 1..f.rows |-> 0] \in UNION {[1..n -> Nat] : n \in Nat}
    BY <2>2
  <2>4. accepted' \in [Uploads -> UNION {[1..n -> Nat] : n \in Nat}]
    BY <2>1, <2>3 DEF Shape
  <2>5. ASSUME NEW v \in Uploads PROVE accepted'[v] \in [1..file'[v].rows -> Nat]
    <3>1. CASE v = u
      <4>1. accepted'[v] = [i \in 1..f.rows |-> 0] /\ file'[v] = f
        BY <2>1, <3>1 DEF Shape
      <4> QED BY <2>2, <4>1
    <3>2. CASE v # u
      <4>1. accepted'[v] = accepted[v] /\ file'[v] = file[v]
        BY <2>1, <3>2 DEF Shape
      <4> QED BY <4>1 DEF Shape
    <3> QED BY <3>1, <3>2
  <2>6. upload' \in [Uploads -> {"none", "sent", "stored", "refused", "over"}]
        /\ file' \in [Uploads -> Files \cup {NoFile}]
    BY <1>2, <2>1 DEF ChooseFile, Shape
  <2> QED BY <2>4, <2>5, <2>6
<1>3. ASSUME NEW u \in Uploads, UploadFile(u) \/ UploadAnswered(u) \/ UploadFails(u)
      PROVE  Goal
  BY <1>3 DEF UploadFile, UploadAnswered, UploadFails, Shape
<1>4. ASSUME NEW k \in Streams, SendRow(k) PROVE Goal
  <2> DEFINE v == stream[k].session
             i == NextRow(k)
  <2>1. PICK created \in 0..1 : accepted' = [accepted EXCEPT ![v][i] = @ + created]
    BY <1>4 DEF SendRow
  <2>2. UNCHANGED <<upload, file>>
    BY <1>4 DEF SendRow
  <2>3. ASSUME NEW u \in Uploads PROVE accepted'[u] \in [1..file[u].rows -> Nat]
    <3>1. accepted[u] \in [1..file[u].rows -> Nat]
      BY DEF Shape
    <3>2. CASE u = v
      <4>1. accepted'[u] = [accepted[u] EXCEPT ![i] = @ + created]
        BY <2>1, <3>2 DEF Shape
      <4>2. created \in Nat
        OBVIOUS
      <4> HIDE DEF i
      <4>3. [accepted[u] EXCEPT ![i] = @ + created] \in [1..file[u].rows -> Nat]
        BY <3>1, <4>2, CountStaysNat, Zenon
      <4> QED BY <4>1, <4>3
    <3>3. CASE u # v
      <4>1. accepted'[u] = accepted[u]
        BY <2>1, <3>3 DEF Shape
      <4> QED BY <3>1, <4>1
    <3> QED BY <3>2, <3>3
  <2>4. \A u \in Uploads : accepted'[u] \in UNION {[1..n -> Nat] : n \in Nat}
    BY <2>3, FilesHaveRows
  <2>5. accepted' \in [Uploads -> UNION {[1..n -> Nat] : n \in Nat}]
    BY <2>1, <2>4 DEF Shape
  <2> QED BY <2>2, <2>3, <2>5 DEF Shape
<1>5. CASE StartSubmit \/ StopSubmit \/ Reset \/ BackendRestarts \/ UNCHANGED vars
  BY <1>1, <1>5 DEF StartSubmit, StopSubmit, Reset, BackendRestarts, vars
<1>6. ASSUME NEW k \in Streams,
             \/ OnMessage(k) \/ ServerEnded(k) \/ ConnectionLost(k)
             \/ Open(k) \/ BadRow(k) \/ AllSent(k) \/ Pop(k) \/ Abandon(k)
      PROVE  Goal
  BY <1>1, <1>6 DEF OnMessage, ServerEnded, ConnectionLost, Disconnected, Open, BadRow,
                    AllSent, Pop, Abandon
<1> QED BY <1>2, <1>3, <1>4, <1>5, <1>6 DEF Next, Serve

\* What the tab shows, and what the backend keeps.
LEMMA TabKeepsShape ==
  ASSUME Shape, [Next]_vars
  PROVE  /\ stored' \in SUBSET Uploads
         /\ opened' \in 0..MaxStreams
         /\ parsed' \in Uploads \cup {NoUpload}
         /\ es' \in 0..opened'
         /\ progress' \in Counts
         /\ summary' \in [stream : Nat, counts : Counts]
         /\ starts' \in [Uploads -> Nat]
         /\ restarts' \in 0..MaxRestarts
<1> USE DEF uploadVars, tabVars, ClearRun, CloseStream
<1> DEFINE Goal ==
      /\ stored' \in SUBSET Uploads
      /\ opened' \in 0..MaxStreams
      /\ parsed' \in Uploads \cup {NoUpload}
      /\ es' \in 0..opened'
      /\ progress' \in Counts
      /\ summary' \in [stream : Nat, counts : Counts]
      /\ starts' \in [Uploads -> Nat]
      /\ restarts' \in 0..MaxRestarts
<1>z. Zero \in Counts /\ [stream |-> 0, counts |-> Zero] \in [stream : Nat, counts : Counts]
  BY DEF Zero, Counts
<1>b. opened \in Nat /\ MaxStreams \in Nat /\ MaxRestarts \in Nat
  BY BatchAssumption DEF Shape
<1>1. ASSUME NEW u \in Uploads,
             ChooseFile(u) \/ UploadFile(u) \/ UploadAnswered(u) \/ UploadFails(u)
      PROVE  Goal
  BY <1>1, <1>z DEF ChooseFile, UploadFile, UploadAnswered, UploadFails, Shape
<1>2. CASE StartSubmit
  BY <1>2, <1>z, <1>b DEF StartSubmit, Shape
<1>3. CASE StopSubmit \/ Reset
  BY <1>3, <1>z, <1>b DEF StopSubmit, Reset, Shape, NoUpload
<1>4. CASE BackendRestarts
  BY <1>4, <1>b DEF BackendRestarts, Shape
<1>5. ASSUME NEW k \in Streams, OnMessage(k) PROVE Goal
  <2> DEFINE e == Head(stream[k].chan)
  <2>1. e \in Events
    BY <1>5, HeadTailProperties DEF OnMessage, Shape, StreamShape
  <2>2. e.counts \in Counts /\ k \in Nat
    BY <2>1, <1>b DEF Events, Streams
  <2>3. OnDone(k, e) \/ OnProgress(e)
    BY <1>5 DEF OnMessage
  <2>4. UNCHANGED <<stored, opened, parsed, starts, restarts>>
    BY <1>5 DEF OnMessage
  <2> HIDE DEF e
  <2>5. CASE OnDone(k, e)      BY <2>2, <2>4, <2>5, <1>b DEF OnDone, Shape
  <2>6. CASE OnProgress(e)     BY <2>2, <2>4, <2>6 DEF OnProgress, Shape
  <2> QED BY <2>3, <2>5, <2>6
<1>6. ASSUME NEW k \in Streams, ServerEnded(k) \/ ConnectionLost(k) PROVE Goal
  BY <1>6, <1>b DEF ServerEnded, ConnectionLost, Disconnected, OnError, Shape
<1>7. ASSUME NEW k \in Streams,
             Open(k) \/ SendRow(k) \/ BadRow(k) \/ AllSent(k) \/ Pop(k) \/ Abandon(k)
      PROVE  Goal
  BY <1>7 DEF Open, SendRow, BadRow, AllSent, Pop, Abandon, Shape
<1>8. CASE UNCHANGED vars
  BY <1>8 DEF vars, Shape
<1> QED BY <1>1, <1>2, <1>3, <1>4, <1>5, <1>6, <1>7, <1>8 DEF Next, Serve

\* The tab shows a run as running while it listens to a stream.
RunningInv ==
  /\ done \in BOOLEAN
  /\ \/ es = 0 /\ running = FALSE
     \/ es # 0 /\ running = TRUE

\* Every step keeps the state of the run and of its stream in line.
LEMMA RunningStep == Shape /\ RunningInv /\ [Next]_vars => RunningInv'
<1> SUFFICES ASSUME Shape, RunningInv, [Next]_vars PROVE RunningInv'
  OBVIOUS
<1> USE DEF uploadVars, tabVars, ClearRun, CloseStream
<1>1. CASE UNCHANGED <<es, running, done>>
  BY <1>1 DEF RunningInv
<1>2. ASSUME NEW u \in Uploads, ChooseFile(u) PROVE RunningInv'
  BY <1>2, Zenon DEF ChooseFile, RunningInv
<1>3. CASE StartSubmit
  <2>1. opened + 1 # 0
    BY DEF Shape
  <2>2. es' = opened + 1 /\ running' = TRUE /\ done' = FALSE
    BY <1>3 DEF StartSubmit
  <2> QED BY <2>1, <2>2, Zenon DEF RunningInv
<1>4. CASE StopSubmit \/ Reset
  BY <1>4, Zenon DEF StopSubmit, Reset, RunningInv
<1>5. ASSUME NEW k \in Streams, OnMessage(k) PROVE RunningInv'
  <2>1. PICK e : OnDone(k, e) \/ OnProgress(e)
    BY <1>5 DEF OnMessage
  <2> QED BY <2>1, Zenon DEF OnDone, OnProgress, RunningInv
<1>6. ASSUME NEW k \in Streams, ServerEnded(k) \/ ConnectionLost(k) PROVE RunningInv'
  BY <1>6, Zenon DEF ServerEnded, ConnectionLost, Disconnected, OnError, RunningInv
<1>7. ASSUME NEW u \in Uploads, UploadFile(u) \/ UploadAnswered(u) \/ UploadFails(u)
      PROVE  RunningInv'
  BY <1>1, <1>7, Zenon DEF UploadFile, UploadAnswered, UploadFails
<1>8. ASSUME NEW k \in Streams,
             Open(k) \/ SendRow(k) \/ BadRow(k) \/ AllSent(k) \/ Pop(k) \/ Abandon(k)
      PROVE  RunningInv'
  BY <1>1, <1>8, Zenon DEF Open, SendRow, BadRow, AllSent, Pop, Abandon
<1>9. CASE BackendRestarts \/ UNCHANGED vars
  BY <1>1, <1>9, Zenon DEF BackendRestarts, vars
<1> QED BY <1>2, <1>3, <1>4, <1>5, <1>6, <1>7, <1>8, <1>9 DEF Next, Serve

\* Every step keeps the types.
LEMMA ShapeStep == Shape /\ [Next]_vars => Shape'
BY StreamsKeepShape, UploadsKeepShape, TabKeepsShape DEF Shape, Streams

-----------------------------------------------------------------------------
\* Every stream is about an upload that has been answered, whose file does not
\* change any more, and has sent no more rows than there are.
SessionInv ==
  /\ \A k \in Streams :
       /\ (stream[k].state # "none") <=> (k <= opened)
       /\ k <= opened => /\ stream[k].session \in Uploads
                         /\ upload[stream[k].session] = "over"
                         /\ Sent(stream[k].counts) <= file[stream[k].session].rows
       /\ stream[k].state = "done" => Sent(stream[k].counts) = file[stream[k].session].rows
  /\ parsed # NoUpload => upload[parsed] = "over"

\* A step of one stream, which stays with its session and its rows.
LEMMA OneStreamMoves ==
  ASSUME Shape, SessionInv, NEW k \in Streams, NEW new \in StreamShape,
         stream' = [stream EXCEPT ![k] = new], UNCHANGED <<upload, file, opened>>,
         parsed' = parsed,
         stream[k].state # "none", new.state # "none",
         new.session = stream[k].session,
         Sent(new.counts) <= file[stream[k].session].rows,
         new.state = "done" => Sent(new.counts) = file[stream[k].session].rows
  PROVE  SessionInv'
<1>1. stream'[k] = new /\ \A j \in Streams : j # k => stream'[j] = stream[j]
  BY DEF Shape
<1>2. k <= opened
  BY DEF SessionInv
<1>3. ASSUME NEW j \in Streams
      PROVE  /\ (stream'[j].state # "none") <=> (j <= opened)
             /\ j <= opened => /\ stream'[j].session \in Uploads
                               /\ upload[stream'[j].session] = "over"
                               /\ Sent(stream'[j].counts) <= file[stream'[j].session].rows
             /\ stream'[j].state = "done" =>
                  Sent(stream'[j].counts) = file[stream'[j].session].rows
  <2>1. CASE j = k   BY <1>1, <1>2, <2>1 DEF SessionInv
  <2>2. CASE j # k   BY <1>1, <2>2 DEF SessionInv
  <2> QED BY <2>1, <2>2
<1> QED BY <1>3 DEF SessionInv, Sent

\* What a row adds to the counts of its stream.
LEMMA RowIsCounted ==
  ASSUME Shape, NEW k \in Streams, NEW ok \in BOOLEAN
  PROVE  /\ Counted(stream[k].counts, ok) \in Counts
         /\ Sent(Counted(stream[k].counts, ok)) = Sent(stream[k].counts) + 1
         /\ Sent(stream[k].counts) \in Nat
         /\ Counted(stream[k].counts, ok).failed = 0 => ok /\ stream[k].counts.failed = 0
<1>1. stream[k].counts \in Counts
  BY DEF Shape, StreamShape
<1>2. CASE ok    BY <1>1, <1>2 DEF Counted, Counts, Sent
<1>3. CASE ~ok   BY <1>1, <1>3 DEF Counted, Counts, Sent
<1> QED BY <1>2, <1>3

\* The event a row or the end of the rows sends.
LEMMA EventIsAppended ==
  ASSUME Shape, NEW k \in Streams, NEW c \in Counts, NEW type \in {"progress", "done"}
  PROVE  /\ Yields(k, c, type) \in StreamShape
         /\ Yields(k, c, type).session = stream[k].session
         /\ Yields(k, c, type).state = stream[k].state
         /\ Yields(k, c, type).counts = c
         /\ Yields(k, c, type).chan = Append(stream[k].chan, [type |-> type, counts |-> c])
<1>1. stream[k] \in StreamShape
  BY DEF Shape
<1>2. [type |-> type, counts |-> c] \in Events
  BY DEF Events
<1>3. stream[k].chan \in Seq(Events)
  BY <1>1 DEF StreamShape
<1>4. Append(stream[k].chan, [type |-> type, counts |-> c]) \in Seq(Events)
  BY <1>2, <1>3, AppendProperties
<1> QED BY <1>1, <1>4 DEF Yields, StreamShape

\* Every step keeps the streams those of uploads that were answered.
LEMMA SessionStep == Shape /\ SessionInv /\ [Next]_vars => SessionInv'
<1> SUFFICES ASSUME Shape, SessionInv, [Next]_vars PROVE SessionInv'
  OBVIOUS
<1> USE DEF uploadVars, tabVars
<1>s. \A k \in Streams : stream[k] \in StreamShape
  BY DEF Shape
<1>t. stream' \in [Streams -> StreamShape]
  BY StreamsKeepShape
<1>1. CASE UNCHANGED <<upload, file, stream, opened, parsed>>
  BY <1>1 DEF SessionInv
<1>2. ASSUME NEW u \in Uploads, ChooseFile(u) PROVE SessionInv'
  <2>1. upload[u] = "none" /\ UNCHANGED <<stream, opened, parsed>>
    BY <1>2 DEF ChooseFile
  <2>2. \A v \in Uploads : v # u => upload'[v] = upload[v] /\ file'[v] = file[v]
    BY <1>2 DEF ChooseFile, Shape
  <2>3. parsed = NoUpload
    BY <1>2 DEF ChooseFile
  <2>4. \A k \in Streams : k <= opened => stream[k].session # u /\ stream[k].session \in Uploads
    BY <2>1 DEF SessionInv
  <2>5. \A k \in Streams : stream[k].state = "done" => k <= opened
    BY DEF SessionInv
  <2> QED BY <2>1, <2>2, <2>3, <2>4, <2>5 DEF SessionInv, Sent
<1>3. ASSUME NEW u \in Uploads, UploadFile(u) \/ UploadAnswered(u) \/ UploadFails(u)
      PROVE  SessionInv'
  <2>1. upload[u] # "over" /\ UNCHANGED <<file, stream, opened>>
    BY <1>3 DEF UploadFile, UploadAnswered, UploadFails
  <2>2. \A v \in Uploads : v # u => upload'[v] = upload[v]
    BY <1>3 DEF UploadFile, UploadAnswered, UploadFails, Shape
  <2>3. parsed' = parsed \/ (parsed' = u /\ upload'[u] = "over")
    BY <1>3 DEF UploadFile, UploadAnswered, UploadFails, Shape
  <2>4. parsed' # NoUpload => upload'[parsed'] = "over"
    BY <2>1, <2>2, <2>3 DEF SessionInv, Shape
  <2>5. \A k \in Streams : k <= opened => upload'[stream[k].session] = "over"
    BY <2>1, <2>2 DEF SessionInv
  <2> QED BY <2>1, <2>4, <2>5 DEF SessionInv, Sent
<1>4. CASE StartSubmit
  <2>1. /\ parsed \in Uploads /\ upload[parsed] = "over"
        /\ opened + 1 \in Streams /\ opened' = opened + 1 /\ opened \in Nat
        /\ UNCHANGED <<upload, file, parsed>>
    BY <1>4, BatchAssumption DEF StartSubmit, SessionInv, Shape, Streams
  <2>2. /\ stream'[opened + 1] = Request(parsed)
        /\ \A k \in Streams : k # opened + 1 => stream'[k] = stream[k]
    BY <1>4, <2>1 DEF StartSubmit, Shape
  <2>3. file[parsed].rows \in Nat
    BY <2>1, FilesHaveRows
  <2>4. ASSUME NEW k \in Streams
        PROVE  /\ (stream'[k].state # "none") <=> (k <= opened + 1)
               /\ k <= opened + 1 => /\ stream'[k].session \in Uploads
                                     /\ upload[stream'[k].session] = "over"
                                     /\ Sent(stream'[k].counts) <= file[stream'[k].session].rows
               /\ stream'[k].state = "done" =>
                    Sent(stream'[k].counts) = file[stream'[k].session].rows
    <3>1. CASE k = opened + 1
      BY <2>1, <2>2, <2>3, <3>1 DEF Request, Zero, Sent
    <3>2. CASE k # opened + 1
      <4>1. stream'[k] = stream[k] /\ (k <= opened + 1 <=> k <= opened)
        BY <2>1, <2>2, <3>2 DEF Streams
      <4> QED BY <4>1 DEF SessionInv
    <3> QED BY <3>1, <3>2
  <2>5. parsed' # NoUpload => upload'[parsed'] = "over"
    BY <2>1 DEF SessionInv
  <2> QED BY <2>1, <2>4, <2>5 DEF SessionInv, Sent
<1>5. CASE StopSubmit \/ UNCHANGED vars
  BY <1>1, <1>5 DEF StopSubmit, vars
<1>6. CASE Reset
  <2>1. UNCHANGED <<upload, file, stream, opened>> /\ parsed' = NoUpload
    BY <1>6 DEF Reset
  <2> QED BY <2>1 DEF SessionInv, Sent
<1>7. ASSUME NEW k \in Streams, ServerEnded(k) \/ ConnectionLost(k) PROVE SessionInv'
  BY <1>1, <1>7 DEF ServerEnded, ConnectionLost, Disconnected, OnError, CloseStream
<1>8. CASE BackendRestarts
  <2>1. UNCHANGED <<upload, file, opened, parsed>>
    BY <1>8 DEF BackendRestarts
  <2>2. \A k \in Streams : stream'[k] = IF k > opened THEN stream[k]
                                        ELSE [stream[k] EXCEPT !.state = "over"]
    BY <1>8 DEF BackendRestarts
  <2>3. ASSUME NEW k \in Streams
        PROVE  /\ stream'[k].session = stream[k].session /\ stream'[k].counts = stream[k].counts
               /\ k > opened => stream'[k] = stream[k]
               /\ ~(k > opened) => stream'[k].state = "over"
    BY <2>2, <1>s DEF StreamShape
  <2>4. opened \in Int /\ Streams \subseteq Int
    BY BatchAssumption DEF Shape, Streams
  <2> QED BY <2>1, <2>3, <2>4 DEF SessionInv, Sent
<1>9. ASSUME NEW k \in Streams, OnMessage(k) PROVE SessionInv'
  <2> DEFINE new == [stream[k] EXCEPT !.chan = Tail(@)]
  <2>1. stream' = [stream EXCEPT ![k] = new] /\ UNCHANGED <<upload, file, opened, parsed>>
    BY <1>9 DEF OnMessage
  <2>2. stream[k].state # "none" /\ k <= opened
    BY <1>9 DEF OnMessage, SessionInv, Shape
  <2>3. new \in StreamShape
    BY <1>t, <2>1 DEF Shape
  <2>4. new.state = stream[k].state /\ new.session = stream[k].session
        /\ new.counts = stream[k].counts
    BY <1>s DEF StreamShape
  <2> HIDE DEF new
  <2>5. /\ Sent(new.counts) <= file[stream[k].session].rows
        /\ new.state = "done" => Sent(new.counts) = file[stream[k].session].rows
    BY <2>2, <2>4 DEF SessionInv
  <2> QED BY <2>1, <2>2, <2>3, <2>4, <2>5, OneStreamMoves
<1>10. ASSUME NEW k \in Streams, Open(k) \/ BadRow(k) \/ Pop(k) \/ Abandon(k)
       PROVE  SessionInv'
  <2> DEFINE new == stream'[k]
  <2>1. /\ stream' = [stream EXCEPT ![k] = new] /\ UNCHANGED <<upload, file, opened, parsed>>
        /\ stream[k].state # "none" /\ new.state \in {"rows", "over"}
        /\ new.session = stream[k].session /\ new.counts = stream[k].counts
    <3>1. CASE Open(k)      BY <1>s, <3>1 DEF Open, Shape, StreamShape
    <3>2. CASE BadRow(k)    BY <1>s, <3>2 DEF BadRow, HasRow, Shape, StreamShape
    <3>3. CASE Pop(k)       BY <1>s, <3>3 DEF Pop, Shape, StreamShape
    <3>4. CASE Abandon(k)   BY <1>s, <3>4 DEF Abandon, Shape, StreamShape
    <3> QED BY <1>10, <3>1, <3>2, <3>3, <3>4
  <2>2. new \in StreamShape
    BY <1>t
  <2>3. Sent(new.counts) <= file[stream[k].session].rows
    BY <2>1 DEF SessionInv
  <2> HIDE DEF new
  <2> QED BY <2>1, <2>2, <2>3, OneStreamMoves
<1>11. ASSUME NEW k \in Streams, SendRow(k) PROVE SessionInv'
  <2>1. PICK ok \in BOOLEAN :
          stream' = [stream EXCEPT ![k] = Yields(k, Counted(stream[k].counts, ok), "progress")]
    BY <1>11 DEF SendRow
  <2> DEFINE new == Yields(k, Counted(stream[k].counts, ok), "progress")
  <2>2. /\ stream[k].state = "rows" /\ Sent(stream[k].counts) + 1 <= file[stream[k].session].rows
        /\ UNCHANGED <<upload, file, opened, parsed>>
    BY <1>11 DEF SendRow, HasRow, NextRow, RowsOf
  <2>3. /\ new \in StreamShape /\ new.session = stream[k].session
        /\ new.state = "rows" /\ Sent(new.counts) = Sent(stream[k].counts) + 1
    <3>1. Counted(stream[k].counts, ok) \in Counts
      BY RowIsCounted
    <3>2. Sent(Counted(stream[k].counts, ok)) = Sent(stream[k].counts) + 1
      BY RowIsCounted
    <3> QED BY <2>2, <3>1, <3>2, EventIsAppended
  <2>4. stream' = [stream EXCEPT ![k] = new]
    BY <2>1
  <2> HIDE DEF new
  <2> QED BY <2>2, <2>3, <2>4, OneStreamMoves
<1>12. ASSUME NEW k \in Streams, AllSent(k) PROVE SessionInv'
  <2> DEFINE sent == Yields(k, stream[k].counts, "done")
             new  == [sent EXCEPT !.state = "done"]
  <2>1. /\ stream[k].state = "rows" /\ ~(Sent(stream[k].counts) + 1 <= file[stream[k].session].rows)
        /\ UNCHANGED <<upload, file, opened, parsed>>
        /\ stream' = [stream EXCEPT ![k] = new]
    BY <1>12 DEF AllSent, HasRow, NextRow, RowsOf
  <2>2. stream[k].counts \in Counts
    BY <1>s DEF StreamShape
  <2>3. sent \in StreamShape /\ sent.session = stream[k].session /\ sent.counts = stream[k].counts
    BY <2>2, EventIsAppended
  <2>4. /\ new \in StreamShape /\ new.session = stream[k].session
        /\ new.counts = stream[k].counts /\ new.state = "done"
    BY <2>3 DEF StreamShape
  <2>5. Sent(stream[k].counts) \in Nat
    BY RowIsCounted
  <2>6. k <= opened
    BY <2>1 DEF SessionInv
  <2>7. file[stream[k].session].rows \in Nat
    BY <2>6, FilesHaveRows DEF SessionInv
  <2>8. Sent(stream[k].counts) = file[stream[k].session].rows
    BY <2>1, <2>5, <2>6, <2>7 DEF SessionInv
  <2> HIDE DEF new
  <2>9. Sent(new.counts) = file[stream[k].session].rows
        /\ Sent(new.counts) <= file[stream[k].session].rows
    BY <2>4, <2>7, <2>8
  <2> QED BY <2>1, <2>4, <2>9, OneStreamMoves
<1> QED BY <1>2, <1>3, <1>4, <1>5, <1>6, <1>7, <1>8, <1>9, <1>10, <1>11, <1>12
        DEF Next, Serve

-----------------------------------------------------------------------------
\* A stream stays with its session, and only a row changes its counts.
LEMMA StreamsGoOn ==
  ASSUME Shape, SessionInv, [Next]_vars, NEW k \in Streams, k <= opened
  PROVE  /\ k <= opened'
         /\ stream'[k].session = stream[k].session
         /\ stream'[k].counts = stream[k].counts \/ SendRow(k)
<1> USE DEF uploadVars, tabVars
<1>s. /\ \A j \in Streams : stream[j] \in StreamShape
      /\ opened \in Nat /\ Streams \subseteq Int
  BY BatchAssumption DEF Shape, Streams
<1> DEFINE Goal == /\ k <= opened'
                   /\ stream'[k].session = stream[k].session
                   /\ stream'[k].counts = stream[k].counts \/ SendRow(k)
<1>1. CASE UNCHANGED <<stream, opened>>
  BY <1>1
<1>2. CASE StartSubmit
  <2>1. k # opened + 1 /\ opened' = opened + 1
    BY <1>2, <1>s DEF StartSubmit
  <2>2. stream'[k] = stream[k]
    BY <1>2, <2>1 DEF StartSubmit, Shape
  <2> QED BY <1>s, <2>1, <2>2
<1>3. CASE BackendRestarts
  <2>1. stream'[k] = [stream[k] EXCEPT !.state = "over"]
    BY <1>3, <1>s DEF BackendRestarts
  <2> QED BY <1>3, <1>s, <2>1 DEF BackendRestarts, StreamShape
<1>4. ASSUME NEW j \in Streams, j # k,
             OnMessage(j) \/ Open(j) \/ SendRow(j) \/ BadRow(j) \/ AllSent(j) \/ Pop(j) \/ Abandon(j)
      PROVE  Goal
  <2>1. opened' = opened /\ stream'[k] = stream[k]
    BY <1>4 DEF OnMessage, Open, SendRow, BadRow, AllSent, Pop, Abandon, Shape
  <2> QED BY <2>1
<1>5. CASE OnMessage(k) \/ Open(k) \/ BadRow(k) \/ Pop(k) \/ Abandon(k)
  BY <1>5, <1>s DEF OnMessage, Open, BadRow, Pop, Abandon, Shape, StreamShape
<1>6. CASE SendRow(k)
  <2>1. PICK ok \in BOOLEAN :
          stream' = [stream EXCEPT ![k] = Yields(k, Counted(stream[k].counts, ok), "progress")]
    BY <1>6 DEF SendRow
  <2> DEFINE c == Counted(stream[k].counts, ok)
  <2>2. stream'[k] = Yields(k, c, "progress") /\ opened' = opened
    BY <1>6, <2>1 DEF SendRow, Shape
  <2>3. c \in Counts
    BY RowIsCounted
  <2> HIDE DEF c
  <2>4. stream'[k].session = stream[k].session
    <3>1. Yields(k, c, "progress").session = stream[k].session
      BY <2>3, EventIsAppended
    <3> QED BY <2>2, <3>1
  <2> QED BY <1>6, <2>2, <2>4
<1>7. CASE AllSent(k)
  <2> DEFINE sent == Yields(k, stream[k].counts, "done")
  <2>1. stream'[k] = [sent EXCEPT !.state = "done"] /\ opened' = opened
    BY <1>7 DEF AllSent, Shape
  <2>2. stream[k].counts \in Counts
    BY <1>s DEF StreamShape
  <2>3. sent \in StreamShape /\ sent.session = stream[k].session /\ sent.counts = stream[k].counts
    BY <2>2, EventIsAppended
  <2> QED BY <2>1, <2>3 DEF StreamShape
<1>8. ASSUME NEW j \in Streams, ServerEnded(j) \/ ConnectionLost(j) PROVE Goal
  BY <1>1, <1>8 DEF ServerEnded, ConnectionLost, Disconnected, OnError, CloseStream
<1>9. ASSUME NEW u \in Uploads,
             ChooseFile(u) \/ UploadFile(u) \/ UploadAnswered(u) \/ UploadFails(u)
      PROVE  Goal
  BY <1>1, <1>9 DEF ChooseFile, UploadFile, UploadAnswered, UploadFails
<1>10. CASE StopSubmit \/ Reset \/ UNCHANGED vars
  BY <1>1, <1>10 DEF StopSubmit, Reset, vars
<1> QED BY <1>2, <1>3, <1>4, <1>5, <1>6, <1>7, <1>8, <1>9, <1>10 DEF Next, Serve

\* Once it is on its way, an upload keeps its file, and no transaction of it
\* goes away.
LEMMA UploadsGoOn ==
  ASSUME Shape, [Next]_vars, NEW u \in Uploads, upload[u] # "none"
  PROVE  /\ file'[u] = file[u]
         /\ \A i \in 1..file[u].rows : accepted'[u][i] >= accepted[u][i]
<1> USE DEF uploadVars, tabVars
<1>t. \A i \in 1..file[u].rows : accepted[u][i] \in Nat
  BY DEF Shape
<1> DEFINE Goal == /\ file'[u] = file[u]
                   /\ \A i \in 1..file[u].rows : accepted'[u][i] >= accepted[u][i]
<1>1. CASE UNCHANGED <<file, accepted>>
  BY <1>1, <1>t
<1>2. ASSUME NEW v \in Uploads, ChooseFile(v) PROVE Goal
  <2>1. v # u
    BY <1>2 DEF ChooseFile
  <2>2. file'[u] = file[u] /\ accepted'[u] = accepted[u]
    BY <1>2, <2>1 DEF ChooseFile, Shape
  <2> QED BY <1>t, <2>2
<1>3. ASSUME NEW k \in Streams, SendRow(k) PROVE Goal
  <2> DEFINE v == stream[k].session
             n == NextRow(k)
  <2>1. PICK created \in 0..1 : accepted' = [accepted EXCEPT ![v][n] = @ + created]
    BY <1>3 DEF SendRow
  <2>2. file' = file
    BY <1>3 DEF SendRow
  <2> HIDE DEF v, n
  <2>3. ASSUME NEW i \in 1..file[u].rows
        PROVE  accepted'[u][i] = accepted[u][i] \/ accepted'[u][i] = accepted[u][i] + created
    BY <2>1 DEF Shape
  <2> QED BY <1>t, <2>2, <2>3
<1>4. ASSUME NEW v \in Uploads, UploadFile(v) \/ UploadAnswered(v) \/ UploadFails(v)
      PROVE  Goal
  BY <1>1, <1>4 DEF UploadFile, UploadAnswered, UploadFails
<1>5. CASE StartSubmit \/ StopSubmit \/ Reset \/ BackendRestarts \/ UNCHANGED vars
  BY <1>1, <1>5 DEF StartSubmit, StopSubmit, Reset, BackendRestarts, vars
<1>6. ASSUME NEW k \in Streams,
             \/ OnMessage(k) \/ ServerEnded(k) \/ ConnectionLost(k)
             \/ Open(k) \/ BadRow(k) \/ AllSent(k) \/ Pop(k) \/ Abandon(k)
      PROVE  Goal
  BY <1>1, <1>6 DEF OnMessage, ServerEnded, ConnectionLost, Disconnected, Open, BadRow,
                    AllSent, Pop, Abandon
<1> QED BY <1>2, <1>3, <1>4, <1>5, <1>6 DEF Next, Serve

-----------------------------------------------------------------------------
\* KeptUntilSent, for every upload that is or may come to be shown.
Exhausted(u) ==
  \E k \in Streams : /\ k <= opened /\ stream[k].session = u
                     /\ Sent(stream[k].counts) = file[u].rows

KeptInv ==
  \A u \in Uploads :
    (upload[u] = "stored" \/ u = parsed) /\ restarts = 0 => u \in stored \/ Exhausted(u)

\* What has been sent to the end stays so.
LEMMA ExhaustedStays ==
  ASSUME Shape, SessionInv, [Next]_vars, NEW u \in Uploads, Exhausted(u)
  PROVE  Exhausted(u)'
<1>1. PICK k \in Streams : /\ k <= opened /\ stream[k].session = u
                          /\ Sent(stream[k].counts) = file[u].rows
  BY DEF Exhausted
<1>2. file'[u] = file[u]
  BY <1>1, UploadsGoOn DEF SessionInv
<1>3. ~SendRow(k)
  <2>1. Sent(stream[k].counts) \in Nat
    BY RowIsCounted
  <2> QED BY <1>1, <2>1 DEF SendRow, HasRow, NextRow, RowsOf
<1>4. stream'[k].counts = stream[k].counts /\ stream'[k].session = u /\ k <= opened'
  BY <1>1, <1>3, StreamsGoOn
<1>5. k \in Streams
  OBVIOUS
<1> QED BY <1>1, <1>2, <1>4, <1>5 DEF Exhausted, Sent, Streams

\* Every step keeps it: what is no longer stored has been sent to the end.
LEMMA KeptStep == Shape /\ SessionInv /\ KeptInv /\ [Next]_vars => KeptInv'
<1> SUFFICES ASSUME Shape, SessionInv, KeptInv, [Next]_vars, NEW u \in Uploads,
                    upload'[u] = "stored" \/ u = parsed', restarts' = 0
             PROVE  u \in stored' \/ Exhausted(u)'
  BY DEF KeptInv
<1> USE DEF uploadVars, tabVars
<1>1. CASE /\ upload[u] = "stored" \/ u = parsed
           /\ restarts' = restarts
           /\ u \in stored => u \in stored' \/ Exhausted(u)
  BY <1>1, ExhaustedStays DEF KeptInv
<1>2. ASSUME NEW v \in Uploads, ChooseFile(v) PROVE u \in stored' \/ Exhausted(u)'
  <2>1. parsed' = parsed /\ stored' = stored /\ restarts' = restarts
        /\ (upload'[u] = "stored" => upload[u] = "stored")
    BY <1>2 DEF ChooseFile, Shape
  <2> QED BY <1>1, <2>1
<1>3. ASSUME NEW v \in Uploads, UploadFile(v) PROVE u \in stored' \/ Exhausted(u)'
  <2>1. parsed' = parsed /\ stored \subseteq stored' /\ restarts' = restarts
    BY <1>3 DEF UploadFile
  <2>2. CASE u = v /\ upload'[u] = "stored"
    <3>1. file[v].rows # 0
      BY <1>3, <2>2 DEF UploadFile, Shape
    <3> QED BY <1>3, <2>2, <3>1 DEF UploadFile
  <2>3. CASE ~(u = v /\ upload'[u] = "stored")
    <3>1. upload[u] = "stored" \/ u = parsed
      BY <1>3, <2>1, <2>3 DEF UploadFile, Shape
    <3> QED BY <1>1, <2>1, <3>1
  <2> QED BY <2>2, <2>3
<1>4. ASSUME NEW v \in Uploads, UploadAnswered(v) \/ UploadFails(v)
      PROVE  u \in stored' \/ Exhausted(u)'
  <2>1. stored' = stored /\ restarts' = restarts /\ (upload[u] = "stored" \/ u = parsed)
    BY <1>4 DEF UploadAnswered, UploadFails, Shape
  <2> QED BY <1>1, <2>1
<1>5. CASE Reset
  <2>1. stored' = stored /\ restarts' = restarts /\ upload' = upload /\ parsed' = NoUpload
    BY <1>5 DEF Reset
  <2>2. u # NoUpload
    BY BatchAssumption DEF NoUpload
  <2> QED BY <1>1, <2>1, <2>2
<1>6. ASSUME NEW k \in Streams, Pop(k) PROVE u \in stored' \/ Exhausted(u)'
  <2>1. /\ stored' = stored \ {stream[k].session} /\ restarts' = restarts
        /\ upload' = upload /\ parsed' = parsed /\ stream[k].state = "done"
    BY <1>6 DEF Pop
  <2>2. u = stream[k].session => Exhausted(u)
    BY <2>1 DEF SessionInv, Exhausted
  <2> QED BY <1>1, <2>1, <2>2
<1>7. CASE BackendRestarts
  <2>1. restarts' = restarts + 1 /\ restarts \in Nat
    BY <1>7, BatchAssumption DEF BackendRestarts, Shape
  <2> QED BY <2>1
<1>8. CASE UNCHANGED <<upload, parsed, stored, restarts>>
  BY <1>1, <1>8
<1>9. CASE StartSubmit \/ StopSubmit \/ UNCHANGED vars
  BY <1>8, <1>9 DEF StartSubmit, StopSubmit, vars
<1>10. ASSUME NEW k \in Streams,
              \/ OnMessage(k) \/ ServerEnded(k) \/ ConnectionLost(k)
              \/ Open(k) \/ SendRow(k) \/ BadRow(k) \/ AllSent(k) \/ Abandon(k)
       PROVE  u \in stored' \/ Exhausted(u)'
  BY <1>8, <1>10 DEF OnMessage, ServerEnded, ConnectionLost, Disconnected, Open, SendRow,
                     BadRow, AllSent, Abandon
<1> QED BY <1>2, <1>3, <1>4, <1>5, <1>6, <1>7, <1>9, <1>10 DEF Next, Serve

-----------------------------------------------------------------------------
\* While a stream counts no failure, every row it has sent is a transaction; the
\* last event says so of all rows, while it is on its way and when it is shown.
AllCreated(u, c) == c.failed = 0 => \A i \in 1..file[u].rows : accepted[u][i] > 0

TrueEvents(u) == {e \in Events : e.type = "done" => AllCreated(u, e.counts)}

CountsAreTrue(k) ==
  stream[k].counts.failed = 0 =>
    \A i \in 1..Sent(stream[k].counts) : accepted[stream[k].session][i] > 0

ChanIsTrue(k) == stream[k].chan \in Seq(TrueEvents(stream[k].session))

ShownIsTrue == /\ summary.stream \in Streams /\ summary.stream <= opened
               /\ AllCreated(stream[summary.stream].session, summary.counts)

TruthInv ==
  /\ \A k \in Streams : k <= opened => CountsAreTrue(k) /\ ChanIsTrue(k)
  /\ done = TRUE => ShownIsTrue

\* What was true of an upload stays true.
LEMMA CreatedStays ==
  ASSUME Shape, [Next]_vars, NEW u \in Uploads, upload[u] # "none", NEW c \in Counts,
         AllCreated(u, c)
  PROVE  AllCreated(u, c)'
<1>1. /\ file'[u] = file[u]
      /\ \A i \in 1..file[u].rows : accepted'[u][i] >= accepted[u][i]
  BY UploadsGoOn
<1>2. \A i \in 1..file[u].rows : accepted[u][i] \in Nat /\ accepted'[u][i] \in Nat
  <2>1. Shape'
    BY ShapeStep
  <2> QED BY <1>1, <2>1 DEF Shape
<1> QED BY <1>1, <1>2 DEF AllCreated

\* A true event stays true.
LEMMA EventsStayTrue ==
  ASSUME Shape, [Next]_vars, NEW u \in Uploads, upload[u] # "none",
         NEW chan \in Seq(TrueEvents(u))
  PROVE  chan \in Seq(TrueEvents(u)')
<1>1. TrueEvents(u) \subseteq TrueEvents(u)'
  BY CreatedStays DEF TrueEvents, Events
<1> QED BY <1>1, SeqMonotonic

\* The rows of a stream that counts no failure.
LEMMA CountsStayTrue ==
  ASSUME Shape, SessionInv, TruthInv, [Next]_vars, NEW k \in Streams, k <= opened',
         stream'[k].counts.failed = 0, NEW i \in 1..Sent(stream'[k].counts)
  PROVE  accepted'[stream'[k].session][i] > 0
<1> DEFINE u == stream[k].session
<1>1. CASE k <= opened /\ ~SendRow(k)
  <2>1. /\ u \in Uploads /\ upload[u] # "none" /\ Sent(stream[k].counts) <= file[u].rows
        /\ stream'[k].session = u /\ stream'[k].counts = stream[k].counts
    BY <1>1, StreamsGoOn DEF SessionInv
  <2>2. i \in 1..file[u].rows
    <3>1. Sent(stream[k].counts) \in Nat /\ file[u].rows \in Nat
      BY <2>1, FilesHaveRows, RowIsCounted
    <3>2. Sent(stream'[k].counts) = Sent(stream[k].counts)
      BY <2>1
    <3> HIDE DEF u
    <3> QED BY <2>1, <3>1, <3>2
  <2>3. accepted[u][i] > 0 /\ accepted[u][i] \in Nat
    BY <1>1, <2>1, <2>2 DEF TruthInv, CountsAreTrue, Shape
  <2>4. accepted'[u][i] >= accepted[u][i] /\ accepted'[u][i] \in Nat
    <3>1. Shape' /\ file'[u] = file[u]
      BY <2>1, ShapeStep, UploadsGoOn
    <3> QED BY <2>1, <2>2, <3>1, UploadsGoOn DEF Shape
  <2> QED BY <2>1, <2>3, <2>4
<1>2. CASE k <= opened /\ SendRow(k)
  <2>1. PICK ok \in BOOLEAN, created \in 0..1 :
          /\ ok => created = 1
          /\ stream' = [stream EXCEPT ![k] = Yields(k, Counted(stream[k].counts, ok), "progress")]
          /\ accepted' = [accepted EXCEPT ![u][NextRow(k)] = @ + created]
    BY <1>2 DEF SendRow
  <2> DEFINE c == Counted(stream[k].counts, ok)
  <2>2. /\ c \in Counts /\ Sent(c) = Sent(stream[k].counts) + 1
        /\ Sent(stream[k].counts) \in Nat
        /\ c.failed = 0 => ok /\ stream[k].counts.failed = 0
    BY RowIsCounted
  <2>3. stream'[k] = Yields(k, c, "progress")
    BY <2>1 DEF Shape
  <2> HIDE DEF c
  <2>4. stream'[k].counts = c /\ stream'[k].session = u
    <3>1. Yields(k, c, "progress").session = u /\ Yields(k, c, "progress").counts = c
      BY <2>2, EventIsAppended
    <3> QED BY <2>3, <3>1
  <2>5. created = 1 /\ stream[k].counts.failed = 0
    BY <2>1, <2>2, <2>4
  <2>6. u \in Uploads /\ Sent(stream[k].counts) + 1 <= file[u].rows
    BY <1>2 DEF SendRow, HasRow, NextRow, RowsOf, SessionInv
  <2>7. i \in 1..(Sent(stream[k].counts) + 1) /\ i \in 1..file[u].rows
    BY <2>2, <2>4, <2>6, FilesHaveRows
  <2>8. accepted[u] \in [1..file[u].rows -> Nat]
    BY <2>6 DEF Shape
  <2>9. accepted'[u] = [accepted[u] EXCEPT ![NextRow(k)] = @ + 1]
    BY <2>1, <2>5, <2>6 DEF Shape
  <2>10. CASE i = NextRow(k)
    <3>1. accepted'[u][i] = accepted[u][i] + 1 /\ accepted[u][i] \in Nat
      BY <2>7, <2>8, <2>9, <2>10
    <3> QED BY <2>4, <3>1
  <2>11. CASE i # NextRow(k)
    <3>1. accepted'[u][i] = accepted[u][i]
      BY <2>7, <2>8, <2>9, <2>11
    <3>2. i \in 1..Sent(stream[k].counts)
      BY <2>2, <2>7, <2>11 DEF NextRow
    <3>3. accepted[u][i] > 0
      BY <1>2, <2>5, <3>2 DEF SendRow, HasRow, SessionInv, TruthInv, CountsAreTrue
    <3> QED BY <2>4, <3>1, <3>3
  <2> QED BY <2>10, <2>11
<1>3. CASE ~(k <= opened)
  <2>1. opened' # opened
    BY <1>3
  <2>2. StartSubmit
    BY <2>1 DEF Next, Serve, vars, uploadVars, tabVars, ChooseFile, UploadFile, UploadAnswered,
                UploadFails, StopSubmit, Reset, BackendRestarts, OnMessage, ServerEnded,
                ConnectionLost, Disconnected, Open, SendRow, BadRow, AllSent, Pop, Abandon
  <2>3. k = opened + 1
    BY <1>3, <2>2, BatchAssumption DEF StartSubmit, Shape, Streams
  <2>4. stream'[k] = Request(parsed)
    BY <2>2, <2>3 DEF StartSubmit, Shape
  <2>5. Sent(stream'[k].counts) = 0
    BY <2>4 DEF Request, Zero, Sent
  <2> QED BY <2>5
<1> QED BY <1>1, <1>2, <1>3

\* The events on their way in a stream.
LEMMA ChansStayTrue ==
  ASSUME Shape, SessionInv, TruthInv, [Next]_vars, NEW k \in Streams, k <= opened'
  PROVE  ChanIsTrue(k)'
<1> USE DEF uploadVars, tabVars
<1>s. stream[k] \in StreamShape
  BY DEF Shape
<1>u. PICK u : u = stream[k].session
  OBVIOUS
<1>1. ASSUME k <= opened, NEW chan \in Seq(TrueEvents(u)), stream'[k].chan = chan
      PROVE  ChanIsTrue(k)'
  <2>1. u \in Uploads /\ upload[u] # "none" /\ stream'[k].session = u
    BY <1>1, <1>u, StreamsGoOn DEF SessionInv
  <2>2. chan \in Seq(TrueEvents(u)')
    BY <2>1, EventsStayTrue
  <2> QED BY <1>1, <2>1, <2>2 DEF ChanIsTrue
<1>2. k <= opened => stream[k].chan \in Seq(TrueEvents(u))
  BY <1>u DEF TruthInv, ChanIsTrue
<1>3. ASSUME k <= opened, stream'[k].chan = stream[k].chan
      PROVE  ChanIsTrue(k)'
  BY <1>1, <1>2, <1>3
<1>4. ASSUME k <= opened, NEW c \in Counts, NEW type \in {"progress", "done"},
             type = "done" => AllCreated(u, c),
             stream'[k].chan = Append(stream[k].chan, [type |-> type, counts |-> c])
      PROVE  ChanIsTrue(k)'
  <2> DEFINE e == [type |-> type, counts |-> c]
  <2>1. e \in TrueEvents(u)
    BY <1>4 DEF TrueEvents, Events
  <2>2. Append(stream[k].chan, e) \in Seq(TrueEvents(u))
    BY <1>2, <1>4, <2>1, AppendProperties
  <2> QED BY <1>1, <1>4, <2>2
<1>5. CASE UNCHANGED <<stream, opened>>
  BY <1>3, <1>5
<1>6. CASE StartSubmit
  <2>1. CASE k = opened + 1
    <3>1. stream'[k].chan = <<>>
      BY <1>6, <2>1 DEF StartSubmit, Shape, Request
    <3> QED BY <3>1 DEF ChanIsTrue
  <2>2. CASE k # opened + 1
    <3>1. stream'[k] = stream[k] /\ k <= opened
      BY <1>6, <2>2, BatchAssumption DEF StartSubmit, Shape, Streams
    <3> QED BY <1>3, <3>1
  <2> QED BY <2>1, <2>2
<1>7. CASE BackendRestarts
  <2>1. stream'[k].chan = stream[k].chan /\ opened' = opened
    BY <1>7, <1>s DEF BackendRestarts, StreamShape
  <2> QED BY <1>3, <2>1
<1>8. ASSUME NEW j \in Streams, j # k,
             OnMessage(j) \/ Open(j) \/ SendRow(j) \/ BadRow(j) \/ AllSent(j) \/ Pop(j) \/ Abandon(j)
      PROVE  ChanIsTrue(k)'
  <2>1. opened' = opened /\ stream'[k] = stream[k]
    BY <1>8 DEF OnMessage, Open, SendRow, BadRow, AllSent, Pop, Abandon, Shape
  <2> QED BY <1>3, <2>1
<1>9. CASE Open(k) \/ BadRow(k) \/ Pop(k)
  <2>1. opened' = opened /\ stream'[k].chan = stream[k].chan
    BY <1>9, <1>s DEF Open, BadRow, Pop, Shape, StreamShape
  <2> QED BY <1>3, <2>1
<1>10. CASE OnMessage(k)
  <2>1. opened' = opened /\ stream[k].chan # <<>> /\ stream'[k].chan = Tail(stream[k].chan)
    BY <1>10, <1>s DEF OnMessage, Shape, StreamShape
  <2>2. Tail(stream[k].chan) \in Seq(TrueEvents(u))
    BY <1>2, <2>1, HeadTailProperties
  <2> QED BY <1>1, <2>1, <2>2
<1>11. CASE Abandon(k)
  <2>1. opened' = opened /\ stream'[k].chan = <<>>
    BY <1>11, <1>s DEF Abandon, Shape, StreamShape
  <2> QED BY <2>1 DEF ChanIsTrue
<1>12. CASE SendRow(k)
  <2>1. PICK ok \in BOOLEAN :
          stream' = [stream EXCEPT ![k] = Yields(k, Counted(stream[k].counts, ok), "progress")]
    BY <1>12 DEF SendRow
  <2> DEFINE c == Counted(stream[k].counts, ok)
  <2>2. stream'[k] = Yields(k, c, "progress") /\ opened' = opened
    BY <1>12, <2>1 DEF SendRow, Shape
  <2>3. c \in Counts
    BY RowIsCounted
  <2> HIDE DEF c
  <2>4. stream'[k].chan = Append(stream[k].chan, [type |-> "progress", counts |-> c])
    BY <2>2, <2>3, EventIsAppended
  <2> QED BY <1>4, <2>2, <2>3, <2>4
<1>13. CASE AllSent(k)
  <2> DEFINE c    == stream[k].counts
             sent == Yields(k, c, "done")
  <2>1. /\ stream'[k] = [sent EXCEPT !.state = "done"] /\ opened' = opened
        /\ ~(Sent(c) + 1 <= file[u].rows) /\ k <= opened
    BY <1>13, <1>u DEF AllSent, HasRow, NextRow, RowsOf, Shape, SessionInv
  <2>2. c \in Counts /\ Sent(c) \in Nat /\ file[u].rows \in Nat
    BY <1>s, <1>u, <2>1, RowIsCounted, FilesHaveRows DEF StreamShape, SessionInv
  <2>3. AllCreated(u, c)
    <3>1. \A i \in 1..file[u].rows : i \in 1..Sent(c)
      BY <2>1, <2>2
    <3> QED BY <1>u, <2>1, <3>1 DEF AllCreated, TruthInv, CountsAreTrue
  <2>4. sent \in StreamShape /\ sent.chan = Append(stream[k].chan, [type |-> "done", counts |-> c])
    BY <2>2, EventIsAppended
  <2>5. stream'[k].chan = Append(stream[k].chan, [type |-> "done", counts |-> c])
    BY <2>1, <2>4 DEF StreamShape
  <2> HIDE DEF c
  <2> QED BY <1>4, <2>1, <2>2, <2>3, <2>5
<1>14. ASSUME NEW j \in Streams, ServerEnded(j) \/ ConnectionLost(j)
       PROVE  UNCHANGED <<stream, opened>>
  BY <1>14 DEF ServerEnded, ConnectionLost, Disconnected, OnError, CloseStream
<1>15. ASSUME NEW v \in Uploads,
              ChooseFile(v) \/ UploadFile(v) \/ UploadAnswered(v) \/ UploadFails(v)
       PROVE  UNCHANGED <<stream, opened>>
  BY <1>15 DEF ChooseFile, UploadFile, UploadAnswered, UploadFails
<1>16. CASE StopSubmit \/ Reset \/ UNCHANGED vars
  BY <1>5, <1>16 DEF StopSubmit, Reset, vars
<1> QED BY <1>5, <1>6, <1>7, <1>8, <1>9, <1>10, <1>11, <1>12, <1>13, <1>14, <1>15, <1>16
        DEF Next, Serve

\* The summary that is shown.
LEMMA SummaryStaysTrue ==
  ASSUME Shape, SessionInv, TruthInv, [Next]_vars, done' = TRUE
  PROVE  ShownIsTrue'
<1> USE DEF uploadVars, tabVars
<1>1. ASSUME NEW k \in Streams, k <= opened, NEW c \in Counts, AllCreated(stream[k].session, c),
             summary' = [stream |-> k, counts |-> c]
      PROVE  ShownIsTrue'
  <2>1. PICK u \in Uploads : u = stream[k].session /\ upload[u] # "none"
    BY <1>1 DEF SessionInv
  <2>2. AllCreated(u, c)'
    BY <1>1, <2>1, CreatedStays
  <2>3. k <= opened' /\ stream'[k].session = u
    BY <1>1, <2>1, StreamsGoOn
  <2>4. summary'.stream = k /\ summary'.counts = c
    BY <1>1
  <2> QED BY <2>2, <2>3, <2>4 DEF ShownIsTrue, AllCreated, Streams
<1>2. CASE done' = done /\ summary' = summary
  <2>1. /\ summary.stream \in Streams /\ summary.stream <= opened
        /\ AllCreated(stream[summary.stream].session, summary.counts)
    BY <1>2 DEF TruthInv, ShownIsTrue
  <2>2. summary = [stream |-> summary.stream, counts |-> summary.counts]
        /\ summary.counts \in Counts
    BY DEF Shape
  <2> QED BY <1>1, <1>2, <2>1, <2>2
<1>3. ASSUME NEW k \in Streams, OnMessage(k)
      PROVE  ShownIsTrue'
  <2> DEFINE e == Head(stream[k].chan)
             u == stream[k].session
  <2>1. k <= opened /\ stream[k].chan # <<>>
    BY <1>3, BatchAssumption DEF OnMessage, Shape, Streams
  <2>2. e \in TrueEvents(u)
    BY <2>1, HeadTailProperties DEF TruthInv, ChanIsTrue
  <2>3. e.counts \in Counts /\ (e.type = "done" => AllCreated(u, e.counts))
    BY <2>2 DEF TrueEvents, Events
  <2>4. IF e.type = "done" THEN OnDone(k, e) ELSE OnProgress(e)
    BY <1>3 DEF OnMessage
  <2> HIDE DEF e
  <2>5. CASE e.type = "done"
    <3>1. summary' = [stream |-> k, counts |-> e.counts]
      BY <2>4, <2>5 DEF OnDone
    <3> QED BY <1>1, <2>1, <2>3, <2>5, <3>1
  <2>6. CASE e.type # "done"
    BY <1>2, <2>4, <2>6 DEF OnProgress
  <2> QED BY <2>5, <2>6
<1>4. ASSUME NEW u \in Uploads, ChooseFile(u) PROVE FALSE
  BY <1>4 DEF ChooseFile, ClearRun
<1>5. CASE StartSubmit \/ Reset
  BY <1>5 DEF StartSubmit, Reset, ClearRun
<1>6. CASE StopSubmit \/ BackendRestarts \/ UNCHANGED vars
  BY <1>2, <1>6 DEF StopSubmit, BackendRestarts, vars
<1>7. ASSUME NEW u \in Uploads, UploadFile(u) \/ UploadAnswered(u) \/ UploadFails(u)
      PROVE  done' = done /\ summary' = summary
  BY <1>7 DEF UploadFile, UploadAnswered, UploadFails
<1>8. ASSUME NEW k \in Streams,
             \/ ServerEnded(k) \/ ConnectionLost(k)
             \/ Open(k) \/ SendRow(k) \/ BadRow(k) \/ AllSent(k) \/ Pop(k) \/ Abandon(k)
      PROVE  done' = done /\ summary' = summary
  BY <1>8 DEF ServerEnded, ConnectionLost, Disconnected, Open, SendRow, BadRow, AllSent, Pop,
              Abandon
<1> QED BY <1>2, <1>3, <1>4, <1>5, <1>6, <1>7, <1>8 DEF Next, Serve

\* Every step keeps the counts of the streams true.
LEMMA TruthStep == Shape /\ SessionInv /\ TruthInv /\ [Next]_vars => TruthInv'
<1> SUFFICES ASSUME Shape, SessionInv, TruthInv, [Next]_vars PROVE TruthInv'
  OBVIOUS
<1>1. ASSUME NEW k \in Streams, k <= opened' PROVE CountsAreTrue(k)'
  BY <1>1, CountsStayTrue DEF CountsAreTrue, Sent
<1>2. ASSUME NEW k \in Streams, k <= opened' PROVE ChanIsTrue(k)'
  BY <1>2, ChansStayTrue
<1>3. done' = TRUE => ShownIsTrue'
  BY SummaryStaysTrue
<1> QED BY <1>1, <1>2, <1>3 DEF TruthInv, Streams

-----------------------------------------------------------------------------
\* Submit opens one stream, and a row becomes a transaction at most once in each
\* stream that has reached it.
StreamsOf(u)  == {k \in Streams : k <= opened /\ stream[k].session = u}
Reached(u, i) == {k \in StreamsOf(u) : Sent(stream[k].counts) >= i}

OnceInv ==
  \A u \in Uploads :
    /\ starts[u] = Cardinality(StreamsOf(u))
    /\ \A i \in 1..file[u].rows : accepted[u][i] <= Cardinality(Reached(u, i))

\* Sets of streams are counted by natural numbers.
LEMMA StreamsAreFinite ==
  ASSUME NEW S \in SUBSET Streams
  PROVE  /\ IsFiniteSet(S) /\ Cardinality(S) \in Nat /\ Cardinality(S) <= MaxStreams
         /\ \A T \in SUBSET S : Cardinality(T) \in Nat /\ Cardinality(T) <= Cardinality(S)
         /\ \A k \in Streams \ S : Cardinality(S \cup {k}) = Cardinality(S) + 1
<1>0. MaxStreams \in Nat
  BY BatchAssumption
<1>1. IsFiniteSet(Streams) /\ Cardinality(Streams) <= MaxStreams
  BY <1>0, FS_Interval DEF Streams
<1>2. IsFiniteSet(S) /\ Cardinality(S) <= Cardinality(Streams)
  BY <1>1, FS_Subset
<1>3. Cardinality(S) \in Nat /\ Cardinality(Streams) \in Nat
  BY <1>1, <1>2, FS_CardinalityType
<1>4. \A T \in SUBSET S : Cardinality(T) \in Nat /\ Cardinality(T) <= Cardinality(S)
  BY <1>2, FS_Subset, FS_CardinalityType
<1>5. \A k \in Streams \ S : Cardinality(S \cup {k}) = Cardinality(S) + 1
  BY <1>2, FS_AddElement
<1>6. Cardinality(S) <= MaxStreams
  BY <1>0, <1>1, <1>2, <1>3
<1> QED BY <1>2, <1>3, <1>4, <1>5, <1>6

\* Only StartSubmit opens a stream.
LEMMA OnlySubmitOpens ==
  ASSUME [Next]_vars
  PROVE  (opened' = opened /\ starts' = starts) \/ StartSubmit
BY DEF Next, Serve, vars, uploadVars, tabVars, ChooseFile, UploadFile, UploadAnswered,
       UploadFails, StopSubmit, Reset, BackendRestarts, OnMessage, ServerEnded,
       ConnectionLost, Disconnected, Open, SendRow, BadRow, AllSent, Pop, Abandon

\* An upload has as many streams as it was started.
LEMMA StartsAreCounted ==
  ASSUME Shape, SessionInv, OnceInv, [Next]_vars, NEW u \in Uploads
  PROVE  starts'[u] = Cardinality(StreamsOf(u)')
<1>1. CASE opened' = opened /\ starts' = starts
  <2>1. StreamsOf(u)' = StreamsOf(u)
    BY <1>1, StreamsGoOn DEF StreamsOf, Streams
  <2> QED BY <1>1, <2>1 DEF OnceInv
<1>2. CASE StartSubmit
  <2>1. /\ opened \in Nat /\ opened + 1 \in Streams /\ opened' = opened + 1
        /\ stream' = [stream EXCEPT ![opened + 1] = Request(parsed)]
        /\ starts' = [starts EXCEPT ![parsed] = @ + 1]
    BY <1>2, BatchAssumption DEF StartSubmit, Shape, Streams
  <2>2. /\ stream'[opened + 1].session = parsed
        /\ \A k \in Streams : k # opened + 1 => stream'[k] = stream[k]
    BY <2>1 DEF Shape, Request
  <2>3. \A k \in Streams : k <= opened + 1 <=> k <= opened \/ k = opened + 1
    BY <2>1 DEF Streams
  <2>4. opened + 1 \notin StreamsOf(u) /\ StreamsOf(u) \in SUBSET Streams
    BY <2>1 DEF StreamsOf
  <2>5. starts[u] = Cardinality(StreamsOf(u))
    BY DEF OnceInv
  <2>6. CASE u = parsed
    <3>1. StreamsOf(u)' = StreamsOf(u) \cup {opened + 1}
      BY <2>1, <2>2, <2>3, <2>6 DEF StreamsOf, Streams
    <3>2. starts'[u] = starts[u] + 1
      BY <2>1, <2>6 DEF Shape
    <3>3. Cardinality(StreamsOf(u) \cup {opened + 1}) = Cardinality(StreamsOf(u)) + 1
      BY <2>1, <2>4, StreamsAreFinite
    <3> QED BY <2>5, <3>1, <3>2, <3>3
  <2>7. CASE u # parsed
    <3>1. StreamsOf(u)' = StreamsOf(u)
      BY <2>1, <2>2, <2>3, <2>4, <2>7 DEF StreamsOf, Streams
    <3>2. starts'[u] = starts[u]
      BY <2>1, <2>7 DEF Shape
    <3> QED BY <2>5, <3>1, <3>2
  <2> QED BY <2>6, <2>7
<1> QED BY <1>1, <1>2, OnlySubmitOpens

\* A stream that has reached a row does not go back.
LEMMA ReachedGrows ==
  ASSUME Shape, SessionInv, [Next]_vars, NEW u \in Uploads, NEW i \in Nat
  PROVE  /\ Reached(u, i) \subseteq Reached(u, i)'
         /\ \A k \in Streams : SendRow(k) /\ stream[k].session = u /\ i = NextRow(k) =>
              k \in Reached(u, i)' \ Reached(u, i)
<1>1. ASSUME NEW k \in Streams, k <= opened
      PROVE  /\ Sent(stream'[k].counts) >= Sent(stream[k].counts)
             /\ Sent(stream[k].counts) \in Nat /\ Sent(stream'[k].counts) \in Nat
             /\ SendRow(k) => Sent(stream'[k].counts) = Sent(stream[k].counts) + 1
  <2>1. Sent(stream[k].counts) \in Nat
    BY RowIsCounted
  <2>2. CASE SendRow(k)
    <3>1. PICK ok \in BOOLEAN :
            stream' = [stream EXCEPT ![k] = Yields(k, Counted(stream[k].counts, ok), "progress")]
      BY <2>2 DEF SendRow
    <3> DEFINE c == Counted(stream[k].counts, ok)
    <3>2. stream'[k] = Yields(k, c, "progress")
      BY <3>1 DEF Shape
    <3>3. c \in Counts /\ Sent(c) = Sent(stream[k].counts) + 1
      BY RowIsCounted
    <3> HIDE DEF c
    <3>4. Yields(k, c, "progress").counts = c
      BY <3>3, EventIsAppended
    <3> QED BY <2>1, <3>2, <3>3, <3>4
  <2>3. CASE ~SendRow(k)
    <3>1. stream'[k].counts = stream[k].counts
      BY <1>1, <2>3, StreamsGoOn
    <3> QED BY <2>1, <2>3, <3>1
  <2> QED BY <2>2, <2>3
<1>2. ASSUME NEW k \in Reached(u, i) PROVE k \in Reached(u, i)'
  <2>1. k \in Streams /\ k <= opened /\ stream[k].session = u /\ Sent(stream[k].counts) >= i
    BY DEF Reached, StreamsOf
  <2>2. k <= opened' /\ stream'[k].session = u
    BY <2>1, StreamsGoOn
  <2>3. Sent(stream'[k].counts) >= i
    BY <1>1, <2>1
  <2> QED BY <2>1, <2>2, <2>3 DEF Reached, StreamsOf, Sent, Streams
<1>3. ASSUME NEW k \in Streams, SendRow(k), stream[k].session = u, i = NextRow(k)
      PROVE  k \in Reached(u, i)' /\ k \notin Reached(u, i)
  <2>1. k <= opened
    BY <1>3 DEF SendRow, HasRow, SessionInv
  <2>2. i = Sent(stream[k].counts) + 1 /\ Sent(stream[k].counts) \in Nat
        /\ Sent(stream'[k].counts) = i
    BY <1>1, <1>3, <2>1 DEF NextRow
  <2>3. k <= opened' /\ stream'[k].session = u
    BY <1>3, <2>1, StreamsGoOn
  <2>4. k \notin Reached(u, i)
    BY <2>2 DEF Reached
  <2>5. Sent(stream'[k].counts) >= i
    BY <2>2
  <2> QED BY <2>3, <2>4, <2>5 DEF Reached, StreamsOf, Sent, Streams
<1> QED BY <1>2, <1>3

\* Every step keeps a row accepted at most once for each stream that reached it.
LEMMA OnceStep == Shape /\ SessionInv /\ OnceInv /\ [Next]_vars => OnceInv'
<1> SUFFICES ASSUME Shape, SessionInv, OnceInv, [Next]_vars, NEW u \in Uploads,
                    NEW i \in 1..file'[u].rows
             PROVE  accepted'[u][i] <= Cardinality(Reached(u, i)')
  BY StartsAreCounted DEF OnceInv, Reached, StreamsOf, Streams, Sent
<1> USE DEF uploadVars, tabVars
<1>n. i \in Nat
  <2>1. Shape'
    BY ShapeStep
  <2>2. file'[u].rows \in Nat
    BY <2>1, BatchAssumption DEF Shape, NoFile
  <2> QED BY <2>2
<1>s. Reached(u, i) \in SUBSET Streams /\ Reached(u, i)' \in SUBSET Streams
  BY DEF Reached, StreamsOf, Streams
<1>c. /\ Cardinality(Reached(u, i)) \in Nat /\ Cardinality(Reached(u, i)') \in Nat
      /\ Cardinality(Reached(u, i)) <= Cardinality(Reached(u, i)')
  BY <1>n, <1>s, ReachedGrows, StreamsAreFinite
<1>1. CASE file'[u] = file[u] /\ accepted'[u][i] = accepted[u][i]
  <2>1. accepted[u][i] <= Cardinality(Reached(u, i)) /\ accepted[u][i] \in Nat
    BY <1>1 DEF OnceInv, Shape
  <2> QED BY <1>1, <1>c, <2>1
<1>2. ASSUME NEW v \in Uploads, ChooseFile(v)
      PROVE  accepted'[u][i] <= Cardinality(Reached(u, i)')
  <2>1. CASE v = u
    <3>1. PICK f \in Files : /\ file' = [file EXCEPT ![u] = f]
                             /\ accepted' = [accepted EXCEPT ![u] = [j \in 1..f.rows |-> 0]]
      BY <1>2, <2>1 DEF ChooseFile
    <3>2. accepted'[u][i] = 0
      BY <3>1 DEF Shape
    <3> QED BY <1>c, <3>2
  <2>2. CASE v # u
    <3>1. file'[u] = file[u] /\ accepted'[u] = accepted[u]
      BY <1>2, <2>2 DEF ChooseFile, Shape
    <3> QED BY <1>1, <3>1
  <2> QED BY <2>1, <2>2
<1>3. ASSUME NEW k \in Streams, SendRow(k)
      PROVE  accepted'[u][i] <= Cardinality(Reached(u, i)')
  <2>1. PICK created \in 0..1 :
          accepted' = [accepted EXCEPT ![stream[k].session][NextRow(k)] = @ + created]
    BY <1>3 DEF SendRow
  <2>2. file' = file /\ accepted[u] \in [1..file[u].rows -> Nat]
    BY <1>3 DEF SendRow, Shape
  <2>3. CASE u = stream[k].session /\ i = NextRow(k)
    <3>1. accepted'[u][i] = accepted[u][i] + created
      BY <2>1, <2>2, <2>3 DEF Shape
    <3>2. k \in Reached(u, i)' /\ k \notin Reached(u, i)
      BY <1>3, <1>n, <2>3, ReachedGrows
    <3>3. Cardinality(Reached(u, i) \cup {k}) = Cardinality(Reached(u, i)) + 1
      BY <1>s, <3>2, StreamsAreFinite
    <3>4. Reached(u, i) \cup {k} \in SUBSET Reached(u, i)'
      BY <1>n, <3>2, ReachedGrows
    <3>5. Cardinality(Reached(u, i) \cup {k}) <= Cardinality(Reached(u, i)')
      BY <1>s, <3>4, StreamsAreFinite
    <3>6. accepted[u][i] <= Cardinality(Reached(u, i)) /\ accepted[u][i] \in Nat
      BY <2>2 DEF OnceInv
    <3> QED BY <1>c, <3>1, <3>3, <3>5, <3>6
  <2>4. CASE ~(u = stream[k].session /\ i = NextRow(k))
    <3>1. accepted'[u][i] = accepted[u][i]
      BY <2>1, <2>2, <2>4 DEF Shape
    <3> QED BY <1>1, <2>2, <3>1
  <2> QED BY <2>3, <2>4
<1>4. ASSUME NEW v \in Uploads, UploadFile(v) \/ UploadAnswered(v) \/ UploadFails(v)
      PROVE  UNCHANGED <<file, accepted>>
  BY <1>4 DEF UploadFile, UploadAnswered, UploadFails
<1>5. CASE StartSubmit \/ StopSubmit \/ Reset \/ BackendRestarts \/ UNCHANGED vars
  BY <1>1, <1>5 DEF StartSubmit, StopSubmit, Reset, BackendRestarts, vars
<1>6. ASSUME NEW k \in Streams,
             \/ OnMessage(k) \/ ServerEnded(k) \/ ConnectionLost(k)
             \/ Open(k) \/ BadRow(k) \/ AllSent(k) \/ Pop(k) \/ Abandon(k)
      PROVE  UNCHANGED <<file, accepted>>
  BY <1>6 DEF OnMessage, ServerEnded, ConnectionLost, Disconnected, Open, BadRow, AllSent,
              Pop, Abandon
<1> QED BY <1>1, <1>2, <1>3, <1>4, <1>5, <1>6 DEF Next, Serve

-----------------------------------------------------------------------------
BatchInv == Shape /\ RunningInv /\ SessionInv /\ KeptInv /\ TruthInv /\ OnceInv

\* The initial states satisfy the whole invariant.
LEMMA InitBatchInv == Init => BatchInv
<1> SUFFICES ASSUME Init PROVE BatchInv
  OBVIOUS
<1>1. Shape
  BY InitShape
<1>2. RunningInv
  BY Zenon DEF Init, RunningInv
<1>3. \A k \in Streams : stream[k].state = "none" /\ ~(k <= opened)
  BY BatchAssumption DEF Init, Streams
<1>4. SessionInv
  BY <1>3 DEF Init, SessionInv
<1>5. KeptInv
  BY BatchAssumption DEF Init, KeptInv, NoUpload
<1>6. done # TRUE
  BY DEF Init
<1>7. TruthInv
  BY <1>3, <1>6 DEF TruthInv
<1>8. OnceInv
  <2>1. \A u \in Uploads : StreamsOf(u) = {}
    BY <1>3 DEF StreamsOf
  <2>2. \A u \in Uploads : starts[u] = 0 /\ file[u].rows = 0
    BY DEF Init, NoFile
  <2>3. \A u \in Uploads : starts[u] = Cardinality(StreamsOf(u))
    BY <2>1, <2>2, FS_EmptySet
  <2>4. ASSUME NEW u \in Uploads, NEW i \in 1..file[u].rows PROVE FALSE
    <3>1. i \in 1..0
      BY <2>2, <2>4
    <3> QED BY <3>1
  <2> QED BY <2>3, <2>4 DEF OnceInv
<1> QED BY <1>1, <1>2, <1>4, <1>5, <1>7, <1>8 DEF BatchInv

\* All of it holds of every behavior.
LEMMA BatchInvariant == Spec => []BatchInv
<1>1. BatchInv /\ [Next]_vars => BatchInv'
  BY ShapeStep, RunningStep, SessionStep, KeptStep, TruthStep, OnceStep DEF BatchInv
<1> QED BY InitBatchInv, <1>1, PTL DEF Spec

\* The types of the tab, the sessions and the streams of main.py, and that no
\* stream counts more rows than its file has, for any files.
THEOREM BatchTypeCorrect == Spec => []TypeOK
<1>1. BatchInv => TypeOK
  <2> SUFFICES ASSUME BatchInv PROVE TypeOK
    OBVIOUS
  <2> USE DEF BatchInv
  <2>1. ASSUME NEW k \in Streams
        PROVE  /\ stream[k].state \in {"none", "requested", "rows", "done", "over"}
               /\ stream[k].session \in Uploads \cup {NoUpload}
               /\ (stream[k].state # "none") <=> (k <= opened)
               /\ k <= opened => Sent(stream[k].counts) \in 0..file[stream[k].session].rows
    <3>1. stream[k] \in StreamShape
      BY DEF Shape
    <3>2. k <= opened => /\ file[stream[k].session].rows \in Nat
                         /\ Sent(stream[k].counts) <= file[stream[k].session].rows
      BY FilesHaveRows DEF SessionInv
    <3>3. Sent(stream[k].counts) \in Nat
      BY RowIsCounted
    <3>4. (stream[k].state # "none") <=> (k <= opened)
      BY DEF SessionInv
    <3> QED BY <3>1, <3>2, <3>3, <3>4 DEF StreamShape
  <2>2. ASSUME NEW u \in Uploads
        PROVE  starts[u] \in 0..opened /\ accepted[u] \in [1..file[u].rows -> 0..MaxStreams]
    <3>1. StreamsOf(u) \in SUBSET (1..opened) /\ opened \in Nat /\ MaxStreams \in Nat
      BY BatchAssumption DEF StreamsOf, Streams, Shape
    <3>2. Cardinality(StreamsOf(u)) <= opened /\ Cardinality(StreamsOf(u)) \in Nat
      <4>1. IsFiniteSet(1..opened) /\ Cardinality(1..opened) = opened
        BY <3>1, FS_Interval
      <4> QED BY <3>1, <4>1, FS_Subset, FS_CardinalityType
    <3>3. ASSUME NEW i \in 1..file[u].rows PROVE accepted[u][i] \in 0..MaxStreams
      <4>1. accepted[u][i] \in Nat /\ accepted[u][i] <= Cardinality(Reached(u, i))
        BY DEF Shape, OnceInv
      <4>2. Cardinality(Reached(u, i)) \in Nat /\ Cardinality(Reached(u, i)) <= MaxStreams
        BY StreamsAreFinite DEF Reached, StreamsOf
      <4> QED BY <3>1, <4>1, <4>2
    <3>4. accepted[u] \in [1..file[u].rows -> Nat]
      BY DEF Shape
    <3>5. starts[u] \in 0..opened
      BY <3>1, <3>2 DEF OnceInv
    <3>6. accepted[u] \in [1..file[u].rows -> 0..MaxStreams]
      BY <3>3, <3>4
    <3> QED BY <3>5, <3>6
  <2>3. starts \in [Uploads -> 0..opened]
    BY <2>2 DEF Shape
  <2>4. {running, done} \subseteq BOOLEAN
    BY Zenon DEF RunningInv
  <2>5. running = (es # 0)
    BY Zenon DEF RunningInv
  <2>6. {progress.success, progress.failed} \subseteq Nat
    BY DEF Shape, Counts
  <2>7. done => summary.stream \in 1..opened
    BY DEF TruthInv, ShownIsTrue, Shape, Streams
  <2> QED BY <2>1, <2>2, <2>3, <2>4, <2>5, <2>6, <2>7 DEF Shape, TypeOK
<1> QED BY <1>1, BatchInvariant, PTL

\* A summary without a failure is true of every row of its file, whatever was
\* stopped, lost, timed out or restarted before.
THEOREM SummariesAreTrue == Spec => []SummaryIsTrue
<1>1. BatchInv => SummaryIsTrue
  BY DEF BatchInv, TruthInv, ShownIsTrue, AllCreated, SummaryIsTrue
<1> QED BY <1>1, BatchInvariant, PTL

\* Only the user submits a row again: no reconnection, second upload or stream
\* that outlives its run does.
THEOREM RowsAreSentOncePerSubmit == Spec => []OncePerSubmit
<1>1. BatchInv => OncePerSubmit
  <2> SUFFICES ASSUME BatchInv, NEW u \in Uploads, NEW i \in 1..file[u].rows
               PROVE  accepted[u][i] <= starts[u]
    BY DEF OncePerSubmit
  <2>1. /\ accepted[u][i] \in Nat /\ accepted[u][i] <= Cardinality(Reached(u, i))
        /\ starts[u] = Cardinality(StreamsOf(u))
    BY DEF BatchInv, Shape, OnceInv
  <2>2. Reached(u, i) \in SUBSET StreamsOf(u) /\ StreamsOf(u) \in SUBSET Streams
    BY DEF Reached, StreamsOf
  <2>3. /\ Cardinality(Reached(u, i)) \in Nat /\ Cardinality(StreamsOf(u)) \in Nat
        /\ Cardinality(Reached(u, i)) <= Cardinality(StreamsOf(u))
    BY <2>2, StreamsAreFinite
  <2> QED BY <2>1, <2>3
<1> QED BY <1>1, BatchInvariant, PTL

\* The rows of the session that is shown stay in the backend until they have been
\* sent to the end, unless it restarts.
THEOREM RowsAreKept == Spec => []KeptUntilSent
<1>1. BatchInv => KeptUntilSent
  <2> SUFFICES ASSUME BatchInv, parsed # NoUpload, restarts = 0
               PROVE  \/ parsed \in stored
                      \/ \E k \in 1..opened : /\ stream[k].session = parsed
                                              /\ Sent(stream[k].counts) = file[parsed].rows
    BY DEF KeptUntilSent
  <2>1. parsed \in Uploads /\ opened \in Nat
    BY DEF BatchInv, Shape
  <2>2. CASE parsed \in stored
    BY <2>2
  <2>3. CASE Exhausted(parsed)
    <3>1. PICK k \in Streams : /\ k <= opened /\ stream[k].session = parsed
                              /\ Sent(stream[k].counts) = file[parsed].rows
      BY <2>3 DEF Exhausted
    <3>2. k \in 1..opened
      BY <2>1, <3>1 DEF Streams
    <3> QED BY <3>1, <3>2
  <2> QED BY <2>1, <2>2, <2>3 DEF BatchInv, KeptInv
<1> QED BY <1>1, BatchInvariant, PTL
=============================================================================
