---------------------------- MODULE SftpSession ----------------------------
(***************************************************************************)
(* RemoteFileTransfer (itau/sftp/remote.go): every upload, download and    *)
(* listing of the process shares one cached SSH session, rebuilt on        *)
(* demand.  The mutex guards the cache, not the transfers: a call that     *)
(* retries closes the cached session although another transfer runs on it. *)
(* Only the TCP dial has a deadline: a server that stops answering keeps a *)
(* handshake, a Getwd, a Close or a transfer waiting until the connection  *)
(* is dropped, the first three under the mutex.  A connection is closed on *)
(* both sides at once: a server that goes on serving requests of a closed  *)
(* connection is left out.                                                 *)
(***************************************************************************)
EXTENDS Naturals

CONSTANTS
  Callers,    \* goroutines that use the transfer
  Paths,      \* remote files
  Conns,      \* bound: connections that exist at a time
  Blocks,     \* write and read requests a file takes
  MaxRetries, \* cfg.MaxRetries: attempts of a call (default 3)
  MaxFaults,  \* bound: broken or silent connections and failed requests in a behaviour
  None

ASSUME SftpBoundsAssumption ==
  Blocks \in Nat \ {0} /\ MaxRetries \in Nat \ {0} /\ MaxFaults \in Nat
ASSUME SftpNoneAssumption == None \notin Callers /\ None \notin Conns

VARIABLES
  conn,   \* the SSH connections: not dialed or closed, open, silent, broken
  cached, \* r.client (with r.ssh)
  mu,     \* who holds r.mu while it dials or waits for a silent server
  files,  \* per remote path: no file, or per block who wrote it
  call,   \* per goroutine: its call
  faults

vars == <<conn, cached, mu, files, call, faults>>

Contents == [1..Blocks -> Callers \cup {None}]
NoFile == [exists |-> FALSE, data |-> [b \in 1..Blocks |-> None]]

\* met, cut and alone are history: faults the call ran into, connections other
\* calls closed under it, and whether nobody else wrote its path.
Call ==
  [ op : {"upload", "download", "list"}, path : Paths,
    at : {"idle", "session", "getwd", "dial", "handshake", "open", "data", "backoff", "closing"},
    attempt : 0..(MaxRetries - 1), cli : Conns \cup {None},
    n : 0..Blocks,
    result : {"none", "ok", "missing", "failed", "canceled"},
    met : 0..MaxRetries, cut : 0..MaxRetries, alone : BOOLEAN ]

TypeOK ==
  /\ conn   \in [Conns -> {"closed", "open", "silent", "broken"}]
  /\ cached \in Conns \cup {None}
  /\ mu     \in Callers \cup {None}
  /\ files  \in [Paths -> [exists : BOOLEAN, data : Contents]]
  /\ call   \in [Callers -> Call]
  /\ faults \in 0..MaxFaults

Fresh(op, path) ==
  [op |-> op, path |-> path, at |-> "session", attempt |-> 0, cli |-> None,
   n |-> 0, result |-> "none", met |-> 0, cut |-> 0, alone |-> TRUE]

\* NewRemoteFileTransfer connects to nothing.
Init ==
  /\ conn   = [k \in Conns |-> "closed"]
  /\ cached = None
  /\ mu     = None
  /\ files  = [p \in Paths |-> NoFile]
  /\ call   \in [Callers -> {[Fresh("list", p) EXCEPT !.at = "idle"] : p \in Paths}]
  /\ faults = 0

Capped(i) == IF i < MaxRetries THEN i + 1 ELSE i
Met(f) == [f EXCEPT !.met = Capped(@)]
Cut(f) == [f EXCEPT !.cut = Capped(@)]

-----------------------------------------------------------------------------
(* withRetry.                                                              *)

Ended(f, result) ==
  [ op |-> IF result = "ok" THEN f.op ELSE "list", path |-> f.path, at |-> "idle",
    attempt |-> 0, cli |-> None, n |-> 0, result |-> result,
    met |-> IF result = "failed" THEN f.met ELSE 0,
    cut |-> IF result = "failed" THEN f.cut ELSE 0, alone |-> f.alone ]

AttemptFailed_OneMore(f) == \* mutant: attempt <= MaxRetries
  IF f.attempt < MaxRetries
    THEN [f EXCEPT !.at = "backoff", !.cli = None, !.n = 0]
    ELSE Ended(f, "failed")

AttemptFailed_OneLess(f) == \* mutant: the last attempt is not made
  IF f.attempt + 2 < MaxRetries
    THEN [f EXCEPT !.at = "backoff", !.cli = None, !.n = 0]
    ELSE Ended(f, "failed")

\* continue: on to the next attempt's backoff, if there is one.
AttemptFailed(f) ==
  IF f.attempt + 1 < MaxRetries
    THEN [f EXCEPT !.at = "backoff", !.cli = None, !.n = 0]
    ELSE Ended(f, "failed")

Begin(c, op, path) ==
  /\ call[c].at = "idle"
  /\ call' = [call EXCEPT ![c] = Fresh(op, path)]
  /\ UNCHANGED <<conn, cached, mu, files, faults>>

\* The backoff's select: the caller's context ends first.
Cancel(c) ==
  /\ call[c].at = "backoff"
  /\ call' = [call EXCEPT ![c] = Ended(@, "canceled")]
  /\ UNCHANGED <<conn, cached, mu, files, faults>>

\* Getwd on the cached client.
CachedAnswers == cached # None /\ conn[cached] = "open"
CachedIsSilent == cached # None /\ conn[cached] = "silent"

Close == \* Close: client and ssh, under the mutex
  /\ mu = None
  /\ cached' = None
  /\ conn' = IF cached = None THEN conn ELSE [conn EXCEPT ![cached] = "closed"]

\* "Force reconnect on retry": whoever transfers on the cached session loses it.
Reconnect(c) ==
  /\ call[c].at = "backoff"
  /\ Close
  /\ call' = [d \in Callers |->
       IF d = c THEN [call[c] EXCEPT !.at = "session", !.attempt = @ + 1]
       ELSE IF CachedAnswers /\ call[d].cli = cached
              THEN Cut(call[d])
              ELSE call[d]]
  /\ UNCHANGED <<mu, files, faults>>

-----------------------------------------------------------------------------
(* session.                                                                *)

\* The cached client is taken, and the mutex let go.
TakesCached(c) ==
  /\ call[c].at = "session" /\ mu = None
  /\ CachedAnswers
  /\ call' = [call EXCEPT ![c].at = "open", ![c].cli = cached]
  /\ UNCHANGED <<conn, cached, mu, files, faults>>

DropsCached_Forgets(c) == \* mutant: the cached client is replaced, not closed
  /\ call[c].at = "session" /\ mu = None
  /\ ~CachedAnswers /\ ~CachedIsSilent
  /\ cached' = None /\ conn' = conn
  /\ mu' = c
  /\ call' = [call EXCEPT ![c].at = "dial"]
  /\ UNCHANGED <<files, faults>>

\* Getwd fails, or there is no client: what is cached is closed before the dial.
DropsCached(c) ==
  /\ call[c].at = "session"
  /\ ~CachedAnswers /\ ~CachedIsSilent
  /\ Close
  /\ mu' = c
  /\ call' = [call EXCEPT ![c].at = "dial"]
  /\ UNCHANGED <<files, faults>>

\* Getwd asks a silent server, or Close waits for its last answer (it may):
\* with no deadline, under the mutex.
WaitsForSilent(c) ==
  /\ call[c].at \in {"session", "backoff"} /\ mu = None
  /\ CachedIsSilent
  /\ mu' = c
  /\ call' = [call EXCEPT ![c].at = IF @ = "session" THEN "getwd" ELSE "closing"]
  /\ UNCHANGED <<conn, cached, files, faults>>

\* The connection was dropped: Getwd fails and a dial follows, or Close is done.
StopsWaiting(c) ==
  /\ call[c].at \in {"getwd", "closing"} /\ ~CachedIsSilent
  /\ cached' = None /\ conn' = [conn EXCEPT ![cached] = "closed"]
  /\ IF call[c].at = "getwd"
       THEN call' = [call EXCEPT ![c].at = "dial"] /\ UNCHANGED mu
       ELSE /\ call' = [call EXCEPT ![c].at = "session", ![c].attempt = @ + 1]
            /\ mu' = None
  /\ UNCHANGED <<files, faults>>

\* Connections are all alike: a new one takes some name nobody uses.
Unused == {k \in Conns : conn[k] = "closed" /\ \A d \in Callers : call[d].cli # k}

\* Dial, handshake and NewClient.
Dials(c) ==
  /\ call[c].at = "dial"
  /\ \E k \in Unused :
       /\ k = CHOOSE j \in Unused : TRUE
       /\ conn' = [conn EXCEPT ![k] = "open"]
       /\ cached' = k
       /\ call' = [call EXCEPT ![c].at = "open", ![c].cli = k]
  /\ mu' = None
  /\ UNCHANGED <<files, faults>>

\* The TCP dial succeeds and the server says nothing more: ClientConfig.Timeout
\* bounds only ssh.Dial, which is not used.
Hangs(c) ==
  /\ call[c].at = "dial"
  /\ faults < MaxFaults /\ faults' = faults + 1
  /\ call' = [call EXCEPT ![c].at = "handshake"]
  /\ UNCHANGED <<conn, cached, mu, files>>

HandshakeDropped(c) ==
  /\ call[c].at = "handshake"
  /\ mu' = None
  /\ call' = [call EXCEPT ![c] = AttemptFailed(Met(call[c]))]
  /\ UNCHANGED <<conn, cached, files, faults>>

\* One of them fails: the half-made connection is closed on the spot.
DialFails(c) ==
  /\ call[c].at = "dial"
  /\ faults < MaxFaults /\ faults' = faults + 1
  /\ mu' = None
  /\ call' = [call EXCEPT ![c] = AttemptFailed(Met(call[c]))]
  /\ UNCHANGED <<conn, cached, files>>

-----------------------------------------------------------------------------
(* The transfers, on cli, outside the mutex.                               *)

Working(c) == call[c].at \in {"open", "data"}
Lives(c) == conn[call[c].cli] = "open"
Gone(c) == conn[call[c].cli] \in {"closed", "broken"}

\* History: another call's upload of the path is not alone any more.
Write(c, f, file) ==
  /\ files' = [files EXCEPT ![f.path] = file]
  /\ call' = [d \in Callers |->
       IF d = c THEN f
       ELSE IF call[d].op = "upload" /\ call[d].path = f.path
              THEN [call[d] EXCEPT !.alone = FALSE]
              ELSE call[d]]

\* MkdirAll and Create: the file is there and empty, whatever it held.
UploadCreates(c) ==
  /\ call[c].at = "open" /\ call[c].op = "upload" /\ Lives(c)
  /\ Write(c, [call[c] EXCEPT !.at = "data"], [NoFile EXCEPT !.exists = TRUE])
  /\ UNCHANGED <<conn, cached, mu, faults>>

\* io.Copy, one request at a time.
UploadWrites(c) ==
  LET f == call[c] IN
  /\ f.at = "data" /\ f.op = "upload" /\ f.n < Blocks /\ Lives(c)
  /\ Write(c, [f EXCEPT !.n = @ + 1],
           [exists |-> TRUE, data |-> [files[f.path].data EXCEPT ![f.n + 1] = c]])
  /\ UNCHANGED <<conn, cached, mu, faults>>

\* The deferred f.Close's error is dropped, but it waits for its answer.
UploadEnds(c) ==
  /\ call[c].at = "data" /\ call[c].op = "upload" /\ call[c].n = Blocks
  /\ Lives(c) \/ Gone(c)
  /\ call' = [call EXCEPT ![c] = Ended(@, "ok")]
  /\ UNCHANGED <<conn, cached, mu, files, faults>>

DownloadOpens_Waits(c) == \* mutant: a missing file is looked for until it is there
  LET f == call[c] IN
  /\ f.at = "open" /\ f.op = "download" /\ Lives(c)
  /\ call' = [call EXCEPT ![c] =
       IF files[f.path].exists THEN [f EXCEPT !.at = "data"]
                               ELSE [f EXCEPT !.at = "session", !.cli = None]]
  /\ UNCHANGED <<conn, cached, mu, files, faults>>

\* A missing file is not tried again.
DownloadOpens(c) ==
  LET f == call[c] IN
  /\ f.at = "open" /\ f.op = "download" /\ Lives(c)
  /\ call' = [call EXCEPT ![c] =
       IF files[f.path].exists THEN [f EXCEPT !.at = "data"] ELSE Ended(f, "missing")]
  /\ UNCHANGED <<conn, cached, mu, files, faults>>

\* ReadAll: what it read is returned only when the end was reached.
DownloadReads(c) ==
  /\ call[c].at = "data" /\ call[c].op = "download" /\ call[c].n < Blocks /\ Lives(c)
  /\ call' = [call EXCEPT ![c].n = @ + 1]
  /\ UNCHANGED <<conn, cached, mu, files, faults>>

DownloadEnds(c) ==
  /\ call[c].at = "data" /\ call[c].op = "download" /\ call[c].n = Blocks
  /\ Lives(c) \/ Gone(c)
  /\ call' = [call EXCEPT ![c] = Ended(@, "ok")]
  /\ UNCHANGED <<conn, cached, mu, files, faults>>

\* ReadDir: a missing directory is an empty one.
List(c) ==
  /\ call[c].at = "open" /\ call[c].op = "list" /\ Lives(c)
  /\ call' = [call EXCEPT ![c] = Ended(@, "ok")]
  /\ UNCHANGED <<conn, cached, mu, files, faults>>

TransferFails_AsDone(c) == \* mutant: a connection lost during the copy goes unnoticed
  /\ Working(c) /\ Gone(c) /\ call[c].n < Blocks
  /\ call' = [call EXCEPT ![c] =
       IF @.at = "data" THEN Ended(@, "ok") ELSE AttemptFailed(@)]
  /\ UNCHANGED <<conn, cached, mu, files, faults>>

\* A request on a connection that is gone.
TransferFails(c) ==
  /\ Working(c) /\ Gone(c) /\ call[c].n < Blocks
  /\ call' = [call EXCEPT ![c] = AttemptFailed(@)]
  /\ UNCHANGED <<conn, cached, mu, files, faults>>

\* The server refuses a request of a connection that works.
RequestRefused(c) ==
  /\ Working(c) /\ Lives(c) /\ call[c].n < Blocks
  /\ faults < MaxFaults /\ faults' = faults + 1
  /\ call' = [call EXCEPT ![c] = AttemptFailed(Met(call[c]))]
  /\ UNCHANGED <<conn, cached, mu, files>>

\* It says that a file or a directory does not exist, whatever the request was:
\* the %w of every wrapping lets withRetry see it, and nothing is tried again.
\* (List takes it for an empty directory.)
ReportsMissing(c) ==
  /\ Working(c) /\ Lives(c) /\ call[c].n < Blocks /\ call[c].op # "list"
  /\ faults < MaxFaults /\ faults' = faults + 1
  /\ call' = [call EXCEPT ![c] = Ended(@, "missing")]
  /\ UNCHANGED <<conn, cached, mu, files>>

\* The network or the server drops a connection, or stops answering on it.
Breaks(k, how) ==
  /\ conn[k] = "open"
  /\ faults < MaxFaults /\ faults' = faults + 1
  /\ conn' = [conn EXCEPT ![k] = how]
  /\ call' = [c \in Callers |->
       IF call[c].cli = k THEN Met(call[c]) ELSE call[c]]
  /\ UNCHANGED <<cached, mu, files>>

\* A silent connection may be dropped some day.
Drops(k) ==
  /\ conn[k] = "silent"
  /\ conn' = [conn EXCEPT ![k] = "broken"]
  /\ UNCHANGED <<cached, mu, files, call, faults>>

-----------------------------------------------------------------------------
Step(c) ==
  \/ Reconnect(c) \/ TakesCached(c) \/ DropsCached(c) \/ Dials(c)
  \/ WaitsForSilent(c) \/ StopsWaiting(c)
  \/ UploadCreates(c) \/ UploadWrites(c) \/ UploadEnds(c)
  \/ DownloadOpens(c) \/ DownloadReads(c) \/ DownloadEnds(c)
  \/ List(c) \/ TransferFails(c)

Next ==
  \/ \E c \in Callers, op \in {"upload", "download", "list"}, p \in Paths : Begin(c, op, p)
  \/ \E c \in Callers :
       \/ Step(c) \/ Cancel(c) \/ Hangs(c) \/ HandshakeDropped(c) \/ DialFails(c)
       \/ RequestRefused(c) \/ ReportsMissing(c)
  \/ \E k \in Conns : Drops(k) \/ \E how \in {"silent", "broken"} : Breaks(k, how)

Spec == Init /\ [][Next]_vars

\* What can go on goes on, and a mutex asked for again and again is obtained;
\* nothing is assumed of a server that is silent.
FairSpec == Spec /\ \A c \in Callers : SF_vars(Step(c))

-----------------------------------------------------------------------------
(* No session is lost: whatever connection is not closed is the cached     *)
(* one, which the next retry or the shutdown hook closes (session closes   *)
(* what it replaces, remote.go).                                           *)
NoOrphanSession == \A k \in Conns : conn[k] # "closed" => cached = k

(* An upload that reported success left the whole file, although earlier   *)
(* attempts may have left parts of it, unless another upload wrote the     *)
(* path (Create truncates, and Copy's errors start the attempt again).     *)
UploadedIsWhole ==
  \A c \in Callers :
    LET f == call[c] IN
    f.op = "upload" /\ f.result = "ok" /\ f.alone =>
      files[f.path] = [exists |-> TRUE, data |-> [b \in 1..Blocks |-> c]]

(* A call only gives up for exhausted attempts after MaxRetries troubles:  *)
(* a fault it met, or another call's reconnect that closed the session     *)
(* under it (withRetry and its Close).  A missing file is no such end.     *)
FailuresAreCaused ==
  \A c \in Callers : call[c].result = "failed" => call[c].met + call[c].cut >= MaxRetries

(* Only a server that stays silent keeps a call from ending, also when two *)
(* calls keep closing each other's session: the attempts are bounded       *)
(* (withRetry) and whoever holds the mutex waits for that server alone.    *)
Silent == (\E k \in Conns : conn[k] = "silent") \/ \E c \in Callers : call[c].at = "handshake"

TransfersEnd ==
  \A c \in Callers : []<>~Silent => (call[c].at # "idle" ~> call[c].at = "idle")

-----------------------------------------------------------------------------
(* Why it holds: the inductive invariant behind the three invariants above. *)

\* Every attempt begun, and every session lost, has its trouble.
CausesOK(c) ==
  LET f == call[c] IN
  /\ f.at # "idle" => f.met + f.cut >= f.attempt
  /\ f.at \in {"backoff", "closing"} \/ (Working(c) /\ ~Lives(c)) => f.met + f.cut >= f.attempt + 1
  /\ f.at \in {"backoff", "closing"} => f.attempt + 1 < MaxRetries
  /\ f.result = "failed" => f.met + f.cut >= MaxRetries

\* The blocks an upload has written so far are its own.
BlocksOK(c) ==
  LET f == call[c] IN
  f.op = "upload" /\ f.alone /\ (f.at = "data" \/ f.result = "ok") =>
    /\ files[f.path].exists
    /\ \A b \in 1..Blocks : b <= f.n \/ f.result = "ok" => files[f.path].data[b] = c

CallOK(c) ==
  LET f == call[c] IN
  /\ f.at \in {"getwd", "closing", "dial", "handshake"} <=> mu = c
  /\ f.at \in {"dial", "handshake"} => cached = None
  /\ f.at \in {"getwd", "closing"} => cached # None /\ conn[cached] \in {"silent", "broken"}
  /\ f.at # "data" => f.n = 0
  /\ f.at # "idle" => f.result = "none"
  /\ Working(c) => f.cli \in Conns

(* Whoever dials has dropped the cached session, whoever waits under the    *)
(* mutex waits for it; what an attempt wrote and what cut it short is       *)
(* accounted for.                                                           *)
IInv ==
  /\ TypeOK
  /\ NoOrphanSession
  /\ \A c \in Callers : CallOK(c) /\ CausesOK(c) /\ BlocksOK(c)
=============================================================================
