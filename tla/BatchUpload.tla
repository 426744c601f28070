---------------------------- MODULE BatchUpload ----------------------------
(***************************************************************************)
(* The batch upload of the dashboard: the upload tab in one browser        *)
(* (BatchUpload.jsx) and the backend (main.py), which keeps the parsed     *)
(* rows of an upload under a session id and submits them one by one to the *)
(* transaction service while it streams its progress back as server-sent   *)
(* events.                                                                 *)
(*                                                                         *)
(* A session is known by the upload it was made of.  Every stream is a TCP *)
(* connection: events arrive in order or not at all, the backend notices   *)
(* some time after the fact that the browser has closed it.                *)
(***************************************************************************)
EXTENDS Integers, Sequences

CONSTANTS
  Uploads,      \* bound: uploads of files, 1..n in the order they are started
  Files,        \* what is in a file: how many rows with a user and an amount,
                \* and which of them have an amount that is not a number
  PreviewRows,  \* how many rows the preview shows
  MaxStreams,   \* bound: batch-submit requests
  MaxRestarts,  \* bound: restarts of the backend
  Faults        \* which connections may fail

ASSUME BatchAssumption ==
  /\ Uploads \subseteq Nat \ {0}
  /\ \A f \in Files : f.rows \in Nat /\ f.bad \subseteq 1..f.rows
  /\ {PreviewRows, MaxStreams, MaxRestarts} \subseteq Nat
  /\ Faults \subseteq {"service", "connection"}

VARIABLES
  upload,    \* upload[u]: where POST /api/upload is
  file,      \* file[u]: the file it sends
  stored,    \* upload_sessions: the sessions the backend has
  stream,    \* stream[k]: the k-th GET /api/batch-submit
  opened,    \* how many of them there were
  parsed,    \* the session the tab shows
  es,        \* the EventSource it listens to
  running, done,
  progress,  \* what it shows of the run: counts of rows
  summary,   \* the "done" event it shows, and the stream that it came from
  accepted,  \* ghost: accepted[u][i], transactions created for row i of u
  starts,    \* ghost: starts[u], how often Submit was pressed
  restarts   \* ghost: how often the backend was restarted

uploadVars == <<upload, file>>
tabVars == <<parsed, es, running, done, progress, summary>>
vars == <<uploadVars, stored, stream, opened, tabVars, accepted, starts, restarts>>

Streams == 1..MaxStreams
NoUpload == 0
NoFile   == [rows |-> 0, bad |-> {}]
Zero     == [success |-> 0, failed |-> 0]
Sent(c)  == c.success + c.failed

TypeOK ==
  /\ upload \in [Uploads -> {"none", "sent", "stored", "refused", "over"}]
  /\ file \in [Uploads -> Files \cup {NoFile}]
  /\ stored \in SUBSET Uploads
  /\ opened \in 0..MaxStreams
  /\ \A k \in Streams :
       /\ stream[k].state \in {"none", "requested", "rows", "done", "over"}
       /\ stream[k].session \in Uploads \cup {NoUpload}
       /\ (stream[k].state # "none") = (k <= opened)
       /\ k <= opened => Sent(stream[k].counts) \in 0..file[stream[k].session].rows
  /\ parsed \in Uploads \cup {NoUpload}
  /\ es \in 0..opened
  /\ {running, done} \subseteq BOOLEAN
  /\ running = (es # 0)
  /\ {progress.success, progress.failed} \subseteq Nat
  /\ done => summary.stream \in 1..opened
  /\ \A u \in Uploads : accepted[u] \in [1..file[u].rows -> 0..MaxStreams]
  /\ starts \in [Uploads -> 0..opened]
  /\ restarts \in 0..MaxRestarts

Init ==
  /\ upload = [u \in Uploads |-> "none"]
  /\ file = [u \in Uploads |-> NoFile]
  /\ stored = {}
  /\ stream = [k \in Streams |-> [session |-> NoUpload, state |-> "none", counts |-> Zero,
                                  chan |-> <<>>]]
  /\ opened = 0
  /\ parsed = NoUpload /\ es = 0
  /\ running = FALSE /\ done = FALSE
  /\ progress = Zero
  /\ summary = [stream |-> 0, counts |-> Zero]
  /\ accepted = [u \in Uploads |-> <<>>]
  /\ starts = [u \in Uploads |-> 0]
  /\ restarts = 0

-----------------------------------------------------------------------------
(* The upload.                                                             *)

ClearRun ==
  /\ done' = FALSE
  /\ progress' = Zero
  /\ summary' = [stream |-> 0, counts |-> Zero]

\* handleFile, up to its fetch.  The drop zone is there while no session is
\* shown, so a second file can be dropped before the first has been answered.
ChooseFile(u) ==
  /\ parsed = NoUpload
  /\ upload[u] = "none" /\ \A v \in Uploads : v < u => upload[v] # "none"
  /\ upload' = [upload EXCEPT ![u] = "sent"]
  /\ \E f \in Files : /\ file' = [file EXCEPT ![u] = f]
                     /\ accepted' = [accepted EXCEPT ![u] = [i \in 1..f.rows |-> 0]]
  /\ ClearRun
  /\ UNCHANGED <<stored, stream, opened, parsed, es, running, starts, restarts>>

Previewed(u) == 1..PreviewRows \cap 1..file[u].rows

\* upload_file: without rows there is no session; a bad amount among the rows
\* of the preview raises after the session was stored.
UploadFile(u) ==
  /\ upload[u] = "sent"
  /\ stored' = IF file[u].rows = 0 THEN stored ELSE stored \cup {u}
  /\ upload' = [upload EXCEPT ![u] =
                  IF file[u].rows = 0 \/ Previewed(u) \cap file[u].bad # {} THEN "refused"
                  ELSE "stored"]
  /\ UNCHANGED <<file, stream, opened, tabVars, accepted, starts, restarts>>

\* The rest of handleFile, when the answer arrives: whatever the tab shows by
\* then, it shows this session from now on.
UploadAnswered(u) ==
  /\ upload[u] = "stored"
  /\ parsed' = u
  /\ upload' = [upload EXCEPT ![u] = "over"]
  /\ UNCHANGED <<file, stored, stream, opened, es, running, done, progress, summary,
                 accepted, starts, restarts>>

\* The upload was refused, or its connection broke before or after the backend
\* had stored the session; the tab shows an error message.
UploadFails(u) ==
  /\ \/ upload[u] = "refused"
     \/ upload[u] \in {"sent", "stored"} /\ "connection" \in Faults
  /\ upload' = [upload EXCEPT ![u] = "over"]
  /\ UNCHANGED <<file, stored, stream, opened, tabVars, accepted, starts, restarts>>

-----------------------------------------------------------------------------
(* The tab.                                                                *)

Request(u) == [session |-> u, state |-> "requested", counts |-> Zero, chan |-> <<>>]

\* startSubmit.
StartSubmit ==
  /\ parsed # NoUpload /\ ~running /\ ~done /\ opened < MaxStreams
  /\ opened' = opened + 1
  /\ stream' = [stream EXCEPT ![opened + 1] = Request(parsed)]
  /\ es' = opened + 1
  /\ running' = TRUE
  /\ ClearRun
  /\ starts' = [starts EXCEPT ![parsed] = @ + 1]
  /\ UNCHANGED <<uploadVars, stored, parsed, accepted, restarts>>

CloseStream == es' = 0 /\ running' = FALSE

\* Mutant: the stream is closed and the run still shown as running.
StopSubmit_KeepsRunning ==
  /\ running
  /\ es' = 0
  /\ UNCHANGED <<uploadVars, stored, stream, opened, parsed, running, done, progress,
                 summary, accepted, starts, restarts>>

StopSubmit ==
  /\ running
  /\ CloseStream
  /\ UNCHANGED <<uploadVars, stored, stream, opened, parsed, done, progress, summary,
                 accepted, starts, restarts>>

\* The Clear button, which is there while a session is shown.
Reset ==
  /\ parsed # NoUpload
  /\ CloseStream
  /\ parsed' = NoUpload
  /\ ClearRun
  /\ UNCHANGED <<uploadVars, stored, stream, opened, accepted, starts, restarts>>

OnProgress(e) ==
  /\ progress' = e.counts
  /\ UNCHANGED <<es, running, done, summary>>

OnDone(k, e) ==
  /\ summary' = [stream |-> k, counts |-> e.counts]
  /\ done' = TRUE
  /\ CloseStream
  /\ UNCHANGED progress

\* es.onmessage.
OnMessage(k) ==
  /\ es = k /\ stream[k].chan # <<>>
  /\ LET e == Head(stream[k].chan) IN
       IF e.type = "done" THEN OnDone(k, e) ELSE OnProgress(e)
  /\ stream' = [stream EXCEPT ![k].chan = Tail(@)]
  /\ UNCHANGED <<uploadVars, stored, opened, parsed, accepted, starts, restarts>>

\* Mutant: the handler shows the error and leaves the EventSource open.
OnError_LeavesOpen == UNCHANGED <<es, running>>

OnError == CloseStream

\* The connection of the EventSource is gone.  Unless the handler closes it, the
\* browser sends the request again.
Disconnected(k) ==
  /\ OnError
  /\ stream' = IF es' = 0 THEN stream
               ELSE [stream EXCEPT ![k] = Request(stream[k].session)]
  /\ UNCHANGED <<uploadVars, stored, opened, parsed, done, progress, summary,
                 accepted, starts, restarts>>

ServerEnded(k)    == es = k /\ stream[k].state = "over" /\ stream[k].chan = <<>> /\ Disconnected(k)
ConnectionLost(k) == es = k /\ "connection" \in Faults /\ Disconnected(k)

-----------------------------------------------------------------------------
(* batch_submit.                                                           *)

\* It finds the session and streams its rows, or answers 404.
Open(k) ==
  /\ stream[k].state = "requested"
  /\ stream' = [stream EXCEPT ![k].state = IF stream[k].session \in stored THEN "rows" ELSE "over"]
  /\ UNCHANGED <<uploadVars, stored, opened, tabVars, accepted, starts, restarts>>

RowsOf(k)  == file[stream[k].session]
NextRow(k) == Sent(stream[k].counts) + 1
HasRow(k)  == stream[k].state = "rows" /\ NextRow(k) <= RowsOf(k).rows

Counted(c, ok) ==
  IF ok THEN [c EXCEPT !.success = @ + 1] ELSE [c EXCEPT !.failed = @ + 1]

Yields(k, c, type) ==
  [stream[k] EXCEPT !.counts = c, !.chan = Append(@, [type |-> type, counts |-> c])]

\* Mutant: a POST without an answer is counted as submitted.
SendRow_TimeoutIsSuccess(k) ==
  /\ HasRow(k) /\ NextRow(k) \notin RowsOf(k).bad
  /\ \E created \in 0..1 :
       /\ created = 0 => "service" \in Faults
       /\ stream' = [stream EXCEPT ![k] =
                       Yields(k, Counted(stream[k].counts, TRUE), "progress")]
       /\ accepted' = [accepted EXCEPT ![stream[k].session][NextRow(k)] = @ + created]
  /\ UNCHANGED <<uploadVars, stored, opened, tabVars, starts, restarts>>

\* send_one and the event about it.  A POST that is not answered with 202 counts
\* as failed, whether the transaction was created or not.
SendRow(k) ==
  /\ HasRow(k) /\ NextRow(k) \notin RowsOf(k).bad
  /\ \E ok \in BOOLEAN, created \in 0..1 :
       /\ ok => created = 1
       /\ ~ok => "service" \in Faults
       /\ stream' = [stream EXCEPT ![k] =
                       Yields(k, Counted(stream[k].counts, ok), "progress")]
       /\ accepted' = [accepted EXCEPT ![stream[k].session][NextRow(k)] = @ + created]
  /\ UNCHANGED <<uploadVars, stored, opened, tabVars, starts, restarts>>

\* Mutant: a bad row is tried again and again.
BadRow_RetriesForever(k) ==
  /\ HasRow(k) /\ NextRow(k) \in RowsOf(k).bad
  /\ UNCHANGED vars

\* float(row["amount"]) raises outside of the try: the stream breaks off.
BadRow(k) ==
  /\ HasRow(k) /\ NextRow(k) \in RowsOf(k).bad
  /\ stream' = [stream EXCEPT ![k].state = "over"]
  /\ UNCHANGED <<uploadVars, stored, opened, tabVars, accepted, starts, restarts>>

AllSent(k) ==
  /\ stream[k].state = "rows" /\ ~HasRow(k)
  /\ stream' = [stream EXCEPT ![k] = [Yields(k, @.counts, "done") EXCEPT !.state = "done"]]
  /\ UNCHANGED <<uploadVars, stored, opened, tabVars, accepted, starts, restarts>>

\* The generator is resumed once more after its last event.
Pop(k) ==
  /\ stream[k].state = "done"
  /\ stored' = stored \ {stream[k].session}
  /\ stream' = [stream EXCEPT ![k].state = "over"]
  /\ UNCHANGED <<uploadVars, opened, tabVars, accepted, starts, restarts>>

\* Mutant: a stream takes its session with it however it ends.
Abandon_Pops(k) ==
  /\ es # k /\ stream[k].state \in {"requested", "rows", "done"}
  /\ stream' = [stream EXCEPT ![k].state = "over", ![k].chan = <<>>]
  /\ stored' = stored \ {stream[k].session}
  /\ UNCHANGED <<uploadVars, opened, tabVars, accepted, starts, restarts>>

\* The backend notices that the browser has closed the connection; the generator
\* is not resumed and the session stays.
Abandon(k) ==
  /\ es # k /\ stream[k].state \in {"requested", "rows", "done"}
  /\ stream' = [stream EXCEPT ![k].state = "over", ![k].chan = <<>>]
  /\ UNCHANGED <<uploadVars, stored, opened, tabVars, accepted, starts, restarts>>

\* The sessions are in memory: a restart drops them and every stream.
BackendRestarts ==
  /\ restarts < MaxRestarts
  /\ restarts' = restarts + 1
  /\ stored' = {}
  /\ stream' = [k \in Streams |-> IF k > opened THEN stream[k]
                                  ELSE [stream[k] EXCEPT !.state = "over"]]
  /\ UNCHANGED <<uploadVars, opened, tabVars, accepted, starts>>

-----------------------------------------------------------------------------
Serve(k) == \/ Open(k) \/ SendRow(k) \/ BadRow(k) \/ AllSent(k) \/ Pop(k)

Next ==
  \/ \E u \in Uploads : ChooseFile(u) \/ UploadFile(u) \/ UploadAnswered(u) \/ UploadFails(u)
  \/ StartSubmit \/ StopSubmit \/ Reset \/ BackendRestarts
  \/ \E k \in Streams : \/ OnMessage(k) \/ ServerEnded(k) \/ ConnectionLost(k)
                        \/ Serve(k) \/ Abandon(k)

Spec == Init /\ [][Next]_vars

\* The backend works on its requests (a POST has a timeout), and what it sends
\* or the end of its connection reaches the tab.  The user need not do anything,
\* and no connection need break.
Fairness ==
  \A k \in Streams : WF_vars(Serve(k)) /\ WF_vars(OnMessage(k)) /\ WF_vars(ServerEnded(k))

FairSpec == Spec /\ Fairness

-----------------------------------------------------------------------------
\* "All transactions submitted successfully" is true: when the tab shows a
\* summary without a failure, every row of the session it ran for has become a
\* transaction, whatever was lost, stopped or restarted before.
SummaryIsTrue ==
  done /\ summary.counts.failed = 0 =>
    LET u == stream[summary.stream].session IN
    \A i \in 1..file[u].rows : accepted[u][i] > 0

\* Only the user submits a row again: a row becomes at most one transaction
\* for each time Submit was pressed, although an EventSource reconnects by
\* itself and a stream runs on after the tab has closed it.
OncePerSubmit ==
  \A u \in Uploads : \A i \in 1..file[u].rows : accepted[u][i] <= starts[u]

\* A session the tab shows can be submitted until all its rows have been sent,
\* unless the backend was restarted: no lost connection, stop or bad row takes
\* the rows away that are still to be sent.
KeptUntilSent ==
  parsed # NoUpload /\ restarts = 0 =>
    \/ parsed \in stored
    \/ \E k \in 1..opened : /\ stream[k].session = parsed
                            /\ Sent(stream[k].counts) = file[parsed].rows

\* A run that is shown as running ends, in a summary or an error, whatever
\* happens to the backend and to the connection.
RunsEnd == running ~> ~running
=============================================================================
