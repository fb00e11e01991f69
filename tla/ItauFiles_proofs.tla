------------------------- MODULE ItauFiles_proofs -------------------------
(***************************************************************************)
(* Proofs about the file channel of Itau.  First SftpSession, which        *)
(* carries the files, for any number of goroutines, files, blocks,         *)
(* attempts and faults; then Cnab, what is in them, for any payments and   *)
(* any occurrence codes.                                                   *)
(***************************************************************************)
EXTENDS SftpSession, Cnab, TLAPS, WellFoundedInduction, SequenceTheorems

-----------------------------------------------------------------------------
(* SftpSession.  Each call keeps its own account: the blocks it wrote and  *)
(* the troubles it met. Only three steps touch the account of another      *)
(* call: a write, a reconnect and a broken connection.                     *)

OK(c) == CallOK(c) /\ CausesOK(c) /\ BlocksOK(c)

USE DEF Working, Lives

LEMMA Bounds == Blocks \in Nat \ {0} /\ MaxRetries \in Nat \ {0} /\ MaxFaults \in Nat
BY SftpBoundsAssumption

(* Counting one more trouble, up to the number that matters.               *)
LEMMA CappedFacts ==
  ASSUME NEW i \in 0..MaxRetries, NEW j \in 0..MaxRetries, NEW n \in 0..(MaxRetries - 1), i + j >= n
  PROVE  /\ Capped(i) \in 0..MaxRetries
         /\ Capped(i) + j >= n + 1 /\ j + Capped(i) >= n + 1
         /\ Capped(i) >= i
BY Bounds DEF Capped

(* A call that has ended keeps the account of its troubles if it failed.   *)
LEMMA EndedOK ==
  ASSUME NEW f \in Call, NEW r \in {"ok", "missing", "failed", "canceled"}
  PROVE  LET g == Ended(f, r) IN
         /\ g \in Call
         /\ g.at = "idle" /\ g.n = 0 /\ g.result = r /\ g.cli = None /\ g.path = f.path
         /\ g.op = "upload" => r = "ok" /\ f.op = "upload"
         /\ g.alone = f.alone
         /\ r = "failed" => g.met = f.met /\ g.cut = f.cut
<1>1. 0 \in 0..MaxRetries /\ 0 \in 0..(MaxRetries - 1) /\ 0 \in 0..Blocks
  BY Bounds
<1>2. Ended(f, r) \in Call
  BY <1>1 DEF Call, Ended
<1> QED BY <1>2 DEF Ended

(* What withRetry makes of a failed attempt that had its trouble.          *)
LEMMA AttemptFailedOK ==
  ASSUME NEW f \in Call, f.met + f.cut >= f.attempt + 1, f.result = "none"
  PROVE  LET g == AttemptFailed(f) IN
         /\ g \in Call
         /\ g.at \in {"backoff", "idle"} /\ g.n = 0
         /\ g.at = "backoff" => /\ g.attempt + 1 < MaxRetries /\ g.result = "none"
                                /\ g.met + g.cut >= g.attempt + 1
         /\ g.at = "idle" => g.result = "failed" /\ g.op = "list"
         /\ g.result = "failed" => g.met + g.cut >= MaxRetries
<1> f.attempt \in 0..(MaxRetries - 1) /\ f.met \in 0..MaxRetries /\ f.cut \in 0..MaxRetries
  BY DEF Call
<1>1. CASE f.attempt + 1 < MaxRetries
  <2> DEFINE g == [f EXCEPT !.at = "backoff", !.cli = None, !.n = 0]
  <2>1. AttemptFailed(f) = g
    BY <1>1 DEF AttemptFailed
  <2>2. g \in Call
    <3>1. 0 \in 0..Blocks
      BY Bounds
    <3> QED BY <3>1 DEF Call
  <2>3. /\ g.at = "backoff" /\ g.n = 0 /\ g.attempt = f.attempt /\ g.result = "none"
        /\ g.met = f.met /\ g.cut = f.cut
    BY DEF Call
  <2> HIDE DEF g
  <2> QED BY <1>1, <2>1, <2>2, <2>3
<1>2. CASE ~(f.attempt + 1 < MaxRetries)
  <2> DEFINE g == Ended(f, "failed")
  <2>1. AttemptFailed(f) = g
    BY <1>2 DEF AttemptFailed
  <2>2. /\ g \in Call /\ g.at = "idle" /\ g.n = 0 /\ g.result = "failed" /\ g.op # "upload"
        /\ g.met = f.met /\ g.cut = f.cut
    BY EndedOK
  <2>3. g.op = "list"
    BY DEF Ended
  <2>4. f.attempt + 1 >= MaxRetries
    BY <1>2, Bounds
  <2>5. g.met + g.cut >= MaxRetries
    BY <2>2, <2>4, Bounds
  <2> HIDE DEF g
  <2> QED BY <2>1, <2>2, <2>3, <2>5
<1> QED BY <1>1, <1>2

(* A step that only moves the call c on.                                   *)
LEMMA LocalStep ==
  ASSUME IInv, NEW c \in Callers, NEW f \in Call,
         call' = [call EXCEPT ![c] = f],
         UNCHANGED <<conn, cached, mu, files>>, faults' \in 0..MaxFaults,
         OK(c)'
  PROVE  IInv'
<1>1. TypeOK' /\ NoOrphanSession'
  BY DEF IInv, TypeOK, NoOrphanSession
<1>2. ASSUME NEW d \in Callers, d # c PROVE OK(d)'
  <2>1. call'[d] = call[d] /\ OK(d)
    BY <1>2 DEF IInv, TypeOK, OK
  <2> QED BY <2>1 DEF OK, CallOK, CausesOK, BlocksOK
<1> QED BY <1>1, <1>2 DEF IInv, OK

(* withRetry around a transfer.                                            *)
LEMMA RetryPreserves ==
  ASSUME IInv, NEW c \in Callers,
         \/ \E op \in {"upload", "download", "list"}, p \in Paths : Begin(c, op, p)
         \/ Cancel(c) \/ TransferFails(c) \/ RequestRefused(c)
         \/ ReportsMissing(c) \/ TakesCached(c)
  PROVE  IInv'
<1> DEFINE f == call[c]
<1>0. f \in Call /\ OK(c) /\ faults \in 0..MaxFaults
  BY DEF IInv, TypeOK, OK
<1>1. ASSUME NEW op \in {"upload", "download", "list"}, NEW p \in Paths, Begin(c, op, p)
      PROVE  IInv'
  <2> DEFINE g == Fresh(op, p)
  <2>1. g \in Call /\ call' = [call EXCEPT ![c] = g] /\ f.at = "idle"
    BY <1>1, Bounds DEF Begin, Fresh, Call
  <2>2. call'[c] = g /\ UNCHANGED <<conn, cached, mu, files, faults>>
    BY <1>1, <2>1 DEF Begin, IInv, TypeOK
  <2>3. OK(c)'
    BY <1>0, <2>1, <2>2, Bounds DEF Fresh, OK, CallOK, CausesOK, BlocksOK
  <2> HIDE DEF g
  <2> QED BY <1>0, <2>1, <2>2, <2>3, LocalStep
<1>2. ASSUME NEW r \in {"canceled", "missing"}, call' = [call EXCEPT ![c] = Ended(f, r)],
             f.at \in {"open", "data", "backoff"}, UNCHANGED <<conn, cached, mu, files>>,
             faults' \in 0..MaxFaults
      PROVE  IInv'
  <2> DEFINE g == Ended(f, r)
  <2>1. g \in Call /\ g.at = "idle" /\ g.n = 0 /\ g.result = r /\ g.op # "upload"
    BY <1>0, EndedOK
  <2>2. call'[c] = g
    BY <1>2, <2>1 DEF IInv, TypeOK
  <2> HIDE DEF g
  <2>3. OK(c)'
    BY <1>0, <1>2, <2>1, <2>2 DEF OK, CallOK, CausesOK, BlocksOK
  <2> QED BY <1>2, <2>1, <2>3, LocalStep DEF g
<1>5. CASE Cancel(c)
  BY <1>0, <1>2, <1>5 DEF Cancel
<1>6. CASE ReportsMissing(c)
  BY <1>0, <1>2, <1>6, Bounds DEF ReportsMissing
<1>3. CASE TransferFails(c) \/ RequestRefused(c)
  <2>1. PICK h \in Call : /\ call' = [call EXCEPT ![c] = AttemptFailed(h)]
                          /\ h.met + h.cut >= h.attempt + 1 /\ h.result = "none"
    <3>1. f.at \in {"open", "data"} /\ f.result = "none" /\ f.met + f.cut >= f.attempt
      BY <1>0, <1>3 DEF TransferFails, RequestRefused, OK, CallOK, CausesOK
    <3>2. CASE TransferFails(c)
      BY <1>0, <3>1, <3>2 DEF TransferFails, Gone, OK, CausesOK
    <3>3. CASE RequestRefused(c)
      <4> DEFINE h == Met(call[c])
      <4>1. f.met \in 0..MaxRetries /\ f.cut \in 0..MaxRetries /\ f.attempt \in 0..(MaxRetries - 1)
        BY <1>0 DEF Call
      <4>2. h \in Call /\ h.met + h.cut >= h.attempt + 1 /\ h.result = "none"
        BY <1>0, <3>1, <4>1, CappedFacts DEF Met, Call
      <4>3. call' = [call EXCEPT ![c] = AttemptFailed(h)]
        BY <3>3 DEF RequestRefused
      <4> HIDE DEF h
      <4> QED BY <4>2, <4>3
    <3> QED BY <1>3, <3>2, <3>3
  <2>2. UNCHANGED <<conn, cached, mu, files>> /\ faults' \in 0..MaxFaults
    BY <1>0, <1>3, Bounds DEF TransferFails, RequestRefused
  <2> DEFINE g == AttemptFailed(h)
  <2>3. g \in Call /\ call'[c] = g
    BY <2>1, AttemptFailedOK DEF IInv, TypeOK
  <2>4. f.at \in {"open", "data"}
    BY <1>3 DEF TransferFails, RequestRefused
  <2>5. OK(c)'
    BY <1>0, <2>1, <2>2, <2>3, <2>4, AttemptFailedOK DEF OK, CallOK, CausesOK, BlocksOK, Call
  <2> HIDE DEF g
  <2> QED BY <2>1, <2>2, <2>3, <2>5, LocalStep DEF g
<1>4. CASE TakesCached(c)
  <2> DEFINE g == [f EXCEPT !.at = "open", !.cli = cached]
  <2>1. g \in Call /\ call' = [call EXCEPT ![c] = g] /\ f.at = "session" /\ cached \in Conns /\ conn[cached] = "open"
    BY <1>0, <1>4 DEF TakesCached, CachedAnswers, Call, IInv, TypeOK
  <2>2. call'[c] = g /\ UNCHANGED <<conn, cached, mu, files, faults>>
    BY <1>4, <2>1 DEF TakesCached, IInv, TypeOK
  <2>3. /\ g.at = "open" /\ g.cli = cached /\ g.n = f.n /\ g.result = f.result /\ g.attempt = f.attempt
        /\ g.met = f.met /\ g.cut = f.cut
    BY <1>0 DEF Call
  <2> HIDE DEF g
  <2>4. CallOK(c)' /\ BlocksOK(c)'
    BY <1>0, <2>1, <2>2, <2>3 DEF OK, CallOK, BlocksOK
  <2>5. CausesOK(c)'
    BY <1>0, <2>1, <2>2, <2>3 DEF OK, CausesOK
  <2>6. OK(c)'
    BY <2>4, <2>5 DEF OK
  <2> QED BY <1>0, <2>1, <2>2, <2>6, LocalStep
<1> QED BY <1>1, <1>3, <1>4, <1>5, <1>6

(* The transfers that leave the files alone.                               *)
LEMMA ReadPreserves ==
  ASSUME IInv, NEW c \in Callers,
         UploadEnds(c) \/ DownloadOpens(c) \/ DownloadReads(c) \/ DownloadEnds(c) \/ List(c)
  PROVE  IInv'
<1> DEFINE f == call[c]
<1>0. f \in Call /\ OK(c) /\ faults \in 0..MaxFaults
  BY DEF IInv, TypeOK, OK
<1>1. UNCHANGED <<conn, cached, mu, files, faults>>
  BY DEF UploadEnds, DownloadOpens, DownloadReads, DownloadEnds, List
<1>2. CASE UploadEnds(c)
  <2> DEFINE g == Ended(f, "ok")
  <2>1. /\ g \in Call /\ call' = [call EXCEPT ![c] = g]
        /\ f.at = "data" /\ f.op = "upload" /\ f.n = Blocks
    BY <1>0, <1>2, EndedOK DEF UploadEnds
  <2>2. call'[c] = g
    BY <2>1 DEF IInv, TypeOK
  <2>3. g.at = "idle" /\ g.n = 0 /\ g.result = "ok" /\ g.op = "upload" /\ g.path = f.path /\ g.alone = f.alone
    BY <2>1 DEF Ended
  <2>4. BlocksOK(c)'
    BY <1>0, <1>1, <2>1, <2>2, <2>3, Bounds DEF OK, BlocksOK
  <2> HIDE DEF g
  <2>5. OK(c)'
    BY <1>0, <1>1, <2>1, <2>2, <2>3, <2>4 DEF OK, CallOK, CausesOK
  <2> QED BY <1>0, <1>1, <2>1, <2>5, LocalStep
<1>3. ASSUME NEW g \in Call, call' = [call EXCEPT ![c] = g],
             f.op # "upload", g.op # "upload", f.at \in {"open", "data"},
             \/ g.at = "idle" /\ g.result \in {"ok", "missing"} /\ g.n = 0
             \/ g = [f EXCEPT !.at = "data"] /\ f.at = "open"
      PROVE  IInv'
  <2>1. call'[c] = g
    BY <1>3 DEF IInv, TypeOK
  <2>2. OK(c)'
    BY <1>0, <1>1, <1>3, <2>1 DEF OK, CallOK, CausesOK, BlocksOK, Call
  <2> QED BY <1>0, <1>1, <1>3, <2>2, LocalStep
<1>5. CASE DownloadOpens(c)
  <2>1. CASE ~files[f.path].exists
    BY <1>0, <1>3, <1>5, <2>1, EndedOK DEF DownloadOpens
  <2>2. CASE files[f.path].exists
    <3> DEFINE g == [f EXCEPT !.at = "data"]
    <3>1. /\ g \in Call /\ g.op = f.op /\ f.op = "download" /\ f.at = "open"
          /\ call' = [call EXCEPT ![c] = g]
      BY <1>0, <1>5, <2>2 DEF Call, DownloadOpens
    <3> QED BY <1>3, <3>1
  <2> QED BY <2>1, <2>2
<1>6. CASE DownloadEnds(c) \/ List(c)
  <2> DEFINE g == Ended(f, "ok")
  <2>1. /\ f.op \in {"download", "list"} /\ f.at \in {"open", "data"}
        /\ call' = [call EXCEPT ![c] = g]
    BY <1>6 DEF DownloadEnds, List
  <2>2. g \in Call /\ g.at = "idle" /\ g.result = "ok" /\ g.n = 0 /\ g.op # "upload"
    BY <1>0, <2>1, EndedOK
  <2> HIDE DEF g
  <2> QED BY <1>3, <2>1, <2>2
<1>4. CASE DownloadReads(c)
  <2> DEFINE g == [f EXCEPT !.n = @ + 1]
  <2>1. f.n < Blocks /\ f.at = "data" /\ f.op = "download" /\ call' = [call EXCEPT ![c] = g]
    BY <1>4 DEF DownloadReads
  <2>2. g \in Call
    <3>1. f.n + 1 \in 0..Blocks
      BY <1>0, <2>1, Bounds DEF Call
    <3> QED BY <1>0, <3>1 DEF Call
  <2>3. call'[c] = g
    BY <2>1 DEF IInv, TypeOK
  <2>4. OK(c)'
    BY <1>0, <1>1, <2>1, <2>2, <2>3 DEF OK, CallOK, CausesOK, BlocksOK, Call
  <2> HIDE DEF g
  <2> QED BY <1>0, <1>1, <2>1, <2>2, <2>4, LocalStep
<1> QED BY <1>2, <1>4, <1>5, <1>6

(* An upload's write. It ends the solitude of other uploads of the path.   *)
LEMMA WritePreserves ==
  ASSUME IInv, NEW c \in Callers, UploadCreates(c) \/ UploadWrites(c)
  PROVE  IInv'
<1> DEFINE f == call[c]
<1>0. f \in Call /\ OK(c) /\ UNCHANGED <<conn, cached, mu, faults>>
  BY DEF IInv, TypeOK, OK, UploadCreates, UploadWrites
<1>1. PICK g \in Call, made \in [exists : BOOLEAN, data : Contents] :
        /\ Write(c, g, made)
        /\ made.exists
        /\ f.alone => \A b \in 1..Blocks : b <= g.n => made.data[b] = c
        /\ f.at \in {"open", "data"} /\ f.op = "upload"
        /\ g.op = "upload" /\ g.path = f.path /\ g.alone = f.alone /\ g.result = f.result /\ g.cli = f.cli
        /\ g.at = "data" /\ g.met = f.met /\ g.cut = f.cut /\ g.attempt = f.attempt
  <2>1. CASE UploadCreates(c)
    <3> DEFINE g == [f EXCEPT !.at = "data"]
               made == [NoFile EXCEPT !.exists = TRUE]
    <3>1. g \in Call /\ g.n = 0 /\ f.at = "open" /\ f.op = "upload"
      BY <1>0, <2>1 DEF UploadCreates, Call, OK, CallOK
    <3>2. made \in [exists : BOOLEAN, data : Contents] /\ made.exists
      BY DEF NoFile, Contents
    <3>3. Write(c, g, made)
      BY <2>1 DEF UploadCreates
    <3>4. \A b \in 1..Blocks : ~(b <= g.n)
      BY <3>1, Bounds
    <3>5. /\ g.op = "upload" /\ g.path = f.path /\ g.alone = f.alone /\ g.result = f.result /\ g.cli = f.cli
          /\ g.at = "data" /\ g.met = f.met /\ g.cut = f.cut /\ g.attempt = f.attempt
      BY <1>0, <3>1 DEF Call
    <3> HIDE DEF g, made
    <3> QED BY <3>1, <3>2, <3>3, <3>4, <3>5
  <2>2. CASE UploadWrites(c)
    <3> DEFINE g == [f EXCEPT !.n = @ + 1]
               made == [exists |-> TRUE, data |-> [files[f.path].data EXCEPT ![f.n + 1] = c]]
    <3>0. f.at = "data" /\ f.op = "upload" /\ f.n < Blocks /\ f.n \in 0..Blocks /\ f.path \in Paths
      BY <1>0, <2>2 DEF UploadWrites, Call
    <3>1. g \in Call /\ g.n = f.n + 1 /\ f.n + 1 \in 1..Blocks
      <4>1. f.n + 1 \in 0..Blocks /\ f.n + 1 \in 1..Blocks
        BY <3>0, Bounds
      <4> QED BY <1>0, <4>1 DEF Call
    <3>2. files[f.path].data \in [1..Blocks -> Callers \cup {None}]
      BY <3>0 DEF IInv, TypeOK, Contents
    <3>3. made \in [exists : BOOLEAN, data : Contents] /\ made.exists
      BY <3>2 DEF Contents
    <3>4. Write(c, g, made)
      BY <2>2 DEF UploadWrites
    <3>5. f.alone => \A b \in 1..Blocks : b <= g.n => made.data[b] = c
      <4> SUFFICES ASSUME f.alone, NEW b \in 1..Blocks, b <= f.n + 1 PROVE made.data[b] = c
        BY <3>1
      <4>1. b <= f.n \/ b = f.n + 1
        BY <3>0, Bounds
      <4>2. b <= f.n => files[f.path].data[b] = c
        BY <1>0, <3>0 DEF OK, BlocksOK
      <4> QED BY <3>2, <4>1, <4>2
    <3>6. /\ g.op = "upload" /\ g.path = f.path /\ g.alone = f.alone /\ g.result = f.result /\ g.cli = f.cli
          /\ g.at = "data" /\ g.met = f.met /\ g.cut = f.cut /\ g.attempt = f.attempt
      BY <1>0, <3>0 DEF Call
    <3> HIDE DEF g, made
    <3> QED BY <3>0, <3>1, <3>3, <3>4, <3>5, <3>6
  <2> QED BY <2>1, <2>2
<1>2. files' = [files EXCEPT ![f.path] = made] /\ f.path \in Paths
  BY <1>0, <1>1 DEF Write, Call
<1>3. call' \in [Callers -> Call] /\ call'[c] = g
  <2>1. \A d \in Callers : [call[d] EXCEPT !.alone = FALSE] \in Call
    BY DEF IInv, TypeOK, Call
  <2> QED BY <1>1, <2>1 DEF Write, IInv, TypeOK
<1>4. TypeOK' /\ NoOrphanSession'
  BY <1>0, <1>1, <1>2, <1>3 DEF IInv, TypeOK, NoOrphanSession
<1>5. OK(c)'
  <2>1. files'[f.path] = made /\ f.result = "none"
    BY <1>0, <1>1, <1>2 DEF IInv, TypeOK, OK, CallOK
  <2> QED BY <1>0, <1>1, <1>3, <2>1 DEF OK, CallOK, CausesOK, BlocksOK, Call
<1>6. ASSUME NEW d \in Callers, d # c PROVE OK(d)'
  <2>1. OK(d) /\ call[d] \in Call
    BY DEF IInv, TypeOK, OK
  <2>2. CASE call[d].op = "upload" /\ call[d].path = f.path
    <3>1. call'[d] = [call[d] EXCEPT !.alone = FALSE]
      BY <1>1, <1>6, <2>2 DEF Write
    <3> QED BY <1>0, <2>1, <3>1 DEF OK, CallOK, CausesOK, BlocksOK, Call
  <2>3. CASE ~(call[d].op = "upload" /\ call[d].path = f.path)
    <3>1. call'[d] = call[d]
      BY <1>1, <1>6, <2>3 DEF Write
    <3>2. call[d].op = "upload" => files'[call[d].path] = files[call[d].path]
      BY <1>2, <2>1, <2>3 DEF IInv, TypeOK, Call
    <3> QED BY <1>0, <2>1, <3>1, <3>2 DEF OK, CallOK, CausesOK, BlocksOK
  <2> QED BY <2>2, <2>3
<1> QED BY <1>4, <1>5, <1>6 DEF IInv, OK

(* A connection that stops working adds a trouble to every call on it.     *)
LEMMA TroubledOK ==
  ASSUME NEW d \in Callers, OK(d), call[d] \in Call, NEW f \in Call,
         f \in {Met(call[d]), Cut(call[d])},
         call'[d] = f, (mu' = d) <=> (mu = d), UNCHANGED files,
         mu = d => /\ cached' = cached
                   /\ cached \in Conns /\ conn[cached] \in {"silent", "broken"} =>
                        conn'[cached] \in {"silent", "broken"},
         cached \in Conns \cup {None},
         call[d].cli = None \/ conn[call[d].cli] = "open"
  PROVE  OK(d)'
<1>1. /\ call[d].met \in 0..MaxRetries /\ call[d].cut \in 0..MaxRetries
      /\ call[d].attempt \in 0..(MaxRetries - 1)
  BY DEF Call
<1>2. /\ f.op = call[d].op /\ f.path = call[d].path /\ f.at = call[d].at /\ f.cli = call[d].cli
      /\ f.attempt = call[d].attempt /\ f.n = call[d].n /\ f.result = call[d].result /\ f.alone = call[d].alone
  BY DEF Met, Cut, Call
<1>3. f.met + f.cut >= call[d].met + call[d].cut
  <2>1. Capped(call[d].met) \in 0..MaxRetries /\ Capped(call[d].met) >= call[d].met
        /\ Capped(call[d].cut) \in 0..MaxRetries /\ Capped(call[d].cut) >= call[d].cut
    BY <1>1, Bounds DEF Capped
  <2>2. \/ f.met = Capped(call[d].met) /\ f.cut = call[d].cut
        \/ f.met = call[d].met /\ f.cut = Capped(call[d].cut)
    BY DEF Met, Cut, Call
  <2> QED BY <1>1, <2>1, <2>2, Bounds
<1>4. call[d].at # "idle" => f.met + f.cut >= f.attempt + 1
  <2> SUFFICES ASSUME call[d].at # "idle" PROVE f.met + f.cut >= f.attempt + 1
    OBVIOUS
  <2>1. call[d].met + call[d].cut >= call[d].attempt
    BY DEF OK, CausesOK
  <2> QED BY <1>1, <1>2, <2>1, CappedFacts DEF Met, Cut, Call
<1>5. CallOK(d)' /\ BlocksOK(d)'
  BY <1>2, SftpNoneAssumption DEF OK, CallOK, BlocksOK
<1>6. f.result = "failed" => f.met + f.cut >= MaxRetries
  <2> SUFFICES ASSUME f.result = "failed" PROVE f.met + f.cut >= MaxRetries
    OBVIOUS
  <2>1. call[d].met + call[d].cut >= MaxRetries
    BY <1>2 DEF OK, CausesOK
  <2>2. f.met \in Nat /\ f.cut \in Nat
    BY Bounds DEF Call
  <2> QED BY <1>1, <1>3, <2>1, <2>2, Bounds
<1>7. f.at # "idle" => f.met + f.cut >= f.attempt
  <2>1. f.met \in Nat /\ f.cut \in Nat /\ f.attempt \in Nat
    BY Bounds DEF Call
  <2> QED BY <1>2, <1>4, <2>1
<1>8. f.at \in {"backoff", "closing"} => f.attempt + 1 < MaxRetries
  BY <1>2 DEF OK, CausesOK
<1>9. CausesOK(d)'
  BY <1>2, <1>4, <1>6, <1>7, <1>8 DEF CausesOK
<1> QED BY <1>5, <1>9 DEF OK

LEMMA TroubledCall ==
  ASSUME NEW f \in Call
  PROVE  Met(f) \in Call /\ Cut(f) \in Call
<1>1. Capped(f.met) \in 0..MaxRetries /\ Capped(f.cut) \in 0..MaxRetries
  BY Bounds DEF Capped, Call
<1> QED BY <1>1 DEF Met, Cut, Call

(* Close leaves no connection behind.                                      *)
LEMMA CloseClears ==
  ASSUME IInv, Close
  PROVE  conn' \in [Conns -> {"closed", "open", "silent", "broken"}] /\ \A k \in Conns : conn'[k] = "closed"
<1>1. CASE cached = None
  BY <1>1, SftpNoneAssumption DEF Close, IInv, TypeOK, NoOrphanSession
<1>2. CASE cached # None
  BY <1>2 DEF Close, IInv, TypeOK, NoOrphanSession
<1> QED BY <1>1, <1>2

(* A retry closes the session other calls work on.                         *)
LEMMA ReconnectPreserves ==
  ASSUME IInv, NEW c \in Callers, Reconnect(c)
  PROVE  IInv'
<1> DEFINE f == call[c]
           g == [f EXCEPT !.at = "session", !.attempt = @ + 1]
<1>0. /\ f \in Call /\ OK(c) /\ f.at = "backoff" /\ mu = None /\ mu' = None /\ cached' = None
      /\ UNCHANGED <<files, faults>>
  BY DEF Reconnect, Close, IInv, TypeOK, OK
<1>1. conn' \in [Conns -> {"closed", "open", "silent", "broken"}] /\ \A k \in Conns : conn'[k] = "closed"
  BY CloseClears DEF Reconnect
<1>2. g \in Call /\ call'[c] = g
  <2>1. f.attempt + 1 \in 0..(MaxRetries - 1)
    BY <1>0, Bounds DEF OK, CausesOK, Call
  <2> QED BY <1>0, <2>1 DEF Reconnect, Call
<1>3. OK(c)'
  <2>1. /\ g.at = "session" /\ g.attempt = f.attempt + 1 /\ g.met = f.met /\ g.cut = f.cut /\ g.n = f.n
        /\ g.result = f.result
    BY <1>0 DEF Call
  <2> HIDE DEF g
  <2> QED BY <1>0, <1>2, <2>1 DEF OK, CallOK, CausesOK, BlocksOK
<1>4. ASSUME NEW d \in Callers, d # c PROVE call'[d] \in Call /\ OK(d)'
  <2>1. OK(d) /\ call[d] \in Call
    BY DEF IInv, TypeOK, OK
  <2>2. CASE CachedAnswers /\ call[d].cli = cached
    <3>1. call'[d] = Cut(call[d]) /\ conn[call[d].cli] = "open"
      BY <1>4, <2>2 DEF Reconnect, CachedAnswers
    <3>2. call'[d] \in Call
      BY <2>1, <3>1, TroubledCall
    <3>3. cached \in Conns \cup {None} /\ mu # d
      BY <1>0, SftpNoneAssumption DEF IInv, TypeOK
    <3> QED BY <1>0, <2>1, <3>1, <3>2, <3>3, TroubledOK
  <2>3. CASE ~(CachedAnswers /\ call[d].cli = cached)
    <3>1. call'[d] = call[d]
      BY <1>4, <2>3 DEF Reconnect
    <3>2. Working(d) => conn[call[d].cli] # "open"
      <4> SUFFICES ASSUME Working(d), conn[call[d].cli] = "open" PROVE FALSE
        OBVIOUS
      <4>1. call[d].cli \in Conns
        BY <2>1 DEF OK, CallOK
      <4>2. cached = call[d].cli
        BY <4>1 DEF IInv, NoOrphanSession
      <4> QED BY <2>3, <4>1, <4>2, SftpNoneAssumption DEF CachedAnswers
    <3>3. CallOK(d)' /\ BlocksOK(d)'
      BY <1>0, <2>1, <3>1, SftpNoneAssumption DEF OK, CallOK, BlocksOK
    <3>4. CausesOK(d)'
      BY <2>1, <3>1, <3>2 DEF OK, CausesOK
    <3> QED BY <2>1, <3>1, <3>3, <3>4 DEF OK
  <2> QED BY <2>2, <2>3
<1>5. TypeOK'
  <2>1. call' = [d \in Callers |-> call'[d]]
    BY DEF Reconnect
  <2>2. \A d \in Callers : call'[d] \in Call
    BY <1>2, <1>4
  <2> HIDE DEF g
  <2> QED BY <1>0, <1>1, <2>1, <2>2 DEF IInv, TypeOK
<1>6. NoOrphanSession'
  BY <1>0, <1>1 DEF NoOrphanSession
<1> QED BY <1>3, <1>4, <1>5, <1>6 DEF IInv, OK

(* The session is closed before a new one is dialed, made, or not made.    *)
LEMMA SessionPreserves ==
  ASSUME IInv, NEW c \in Callers,
         \/ DropsCached(c) \/ WaitsForSilent(c) \/ StopsWaiting(c)
         \/ Dials(c) \/ Hangs(c) \/ DialFails(c) \/ HandshakeDropped(c)
  PROVE  IInv'
<1> DEFINE f == call[c]
<1>0. f \in Call /\ OK(c) /\ faults \in 0..MaxFaults /\ files' = files
      /\ f.at \in {"session", "backoff", "getwd", "closing", "dial", "handshake"}
  BY DEF DropsCached, WaitsForSilent, StopsWaiting, Dials, Hangs, DialFails, HandshakeDropped,
         IInv, TypeOK, OK
<1>1. ASSUME NEW g \in Call, call' = [call EXCEPT ![c] = g], OK(c)', TypeOK', NoOrphanSession',
             {mu, mu'} \subseteq {None, c},
             \A k \in Conns : conn'[k] # conn[k] =>
               conn[k] # "open" /\ (conn'[k] # "open" \/ \A d \in Callers \ {c} : call[d].cli # k)
      PROVE  IInv'
  <2>1. ASSUME NEW d \in Callers, d # c PROVE OK(d)'
    <3>1. call'[d] = call[d] /\ OK(d) /\ mu # d /\ mu' # d
      BY <1>1, <2>1, SftpNoneAssumption DEF IInv, TypeOK, OK
    <3>2. Working(d) => (conn'[call[d].cli] = "open" <=> conn[call[d].cli] = "open")
      BY <1>1, <2>1, <3>1 DEF OK, CallOK
    <3> QED BY <1>0, <3>1, <3>2 DEF OK, CallOK, CausesOK, BlocksOK
  <2> QED BY <1>1, <2>1 DEF IInv, OK
<1>2. CASE DropsCached(c)
  <2> DEFINE g == [f EXCEPT !.at = "dial"]
  <2>1. /\ g \in Call /\ call' = [call EXCEPT ![c] = g] /\ mu = None /\ mu' = c /\ cached' = None
        /\ f.at = "session" /\ faults' = faults
    BY <1>0, <1>2 DEF DropsCached, Close, Call
  <2>2. /\ conn' \in [Conns -> {"closed", "open", "silent", "broken"}] /\ \A k \in Conns : conn'[k] = "closed"
        /\ \A k \in Conns : conn[k] # "open"
    <3>1. \A k \in Conns : conn[k] # "open"
      BY <1>2, SftpNoneAssumption DEF DropsCached, CachedAnswers, IInv, NoOrphanSession
    <3> QED BY <1>2, <3>1, CloseClears DEF DropsCached
  <2>3. call'[c] = g
    BY <2>1 DEF IInv, TypeOK
  <2>4. OK(c)'
    BY <1>0, <2>1, <2>3 DEF OK, CallOK, CausesOK, BlocksOK, Call
  <2> HIDE DEF g
  <2>5. TypeOK'
    <3>1. call' \in [Callers -> Call]
      BY <2>1 DEF IInv, TypeOK
    <3> QED BY <1>0, <2>1, <2>2, <3>1 DEF IInv, TypeOK
  <2>6. NoOrphanSession'
    BY <2>2 DEF NoOrphanSession
  <2> QED BY <1>1, <2>1, <2>2, <2>4, <2>5, <2>6
<1>3. CASE Dials(c)
  <2>1. PICK k \in Unused : conn' = [conn EXCEPT ![k] = "open"] /\ cached' = k
                             /\ call' = [call EXCEPT ![c].at = "open", ![c].cli = k]
    BY <1>3 DEF Dials
  <2> DEFINE g == [f EXCEPT !.at = "open", !.cli = k]
  <2>2. k \in Conns /\ conn[k] = "closed" /\ \A d \in Callers : call[d].cli # k
    BY DEF Unused
  <2>3. g \in Call /\ call' = [call EXCEPT ![c] = g] /\ f.at = "dial" /\ mu' = None /\ faults' = faults
    <3>1. g \in Call
      BY <1>0, <2>2 DEF Call
    <3>2. call' = [call EXCEPT ![c] = g] /\ f.at = "dial" /\ mu' = None /\ faults' = faults
      BY <1>3, <2>1 DEF Dials
    <3> QED BY <3>1, <3>2
  <2>4. mu = c /\ cached = None /\ \A j \in Conns : conn[j] = "closed"
    BY <1>0, <2>3, SftpNoneAssumption DEF OK, CallOK, IInv, NoOrphanSession
  <2>5. call'[c] = g /\ conn'[k] = "open" /\ \A j \in Conns \ {k} : conn'[j] = "closed"
    BY <2>1, <2>2, <2>3, <2>4 DEF IInv, TypeOK
  <2>6. OK(c)'
    <3>1. /\ g.at = "open" /\ g.cli = k /\ g.n = f.n /\ g.result = f.result /\ g.attempt = f.attempt
          /\ g.met = f.met /\ g.cut = f.cut
      BY <1>0 DEF Call
    <3>2. f.n = 0 /\ f.result = "none" /\ f.met + f.cut >= f.attempt
      BY <1>0, <2>3 DEF OK, CallOK, CausesOK
    <3> HIDE DEF g
    <3> QED BY <2>2, <2>3, <2>5, <3>1, <3>2, SftpNoneAssumption DEF OK, CallOK, CausesOK, BlocksOK
  <2> HIDE DEF g
  <2>7. TypeOK' /\ NoOrphanSession'
    BY <1>0, <2>1, <2>2, <2>3, <2>5 DEF IInv, TypeOK, NoOrphanSession
  <2>8. \A j \in Conns : conn'[j] # conn[j] =>
          conn[j] # "open" /\ (conn'[j] # "open" \/ \A d \in Callers \ {c} : call[d].cli # j)
    BY <2>2, <2>4, <2>5
  <2>9. {mu, mu'} \subseteq {None, c}
    BY <2>3, <2>4
  <2> QED BY <1>1, <2>3, <2>6, <2>7, <2>8, <2>9
<1>4. CASE DialFails(c) \/ HandshakeDropped(c)
  <2> DEFINE h == Met(f)
             g == AttemptFailed(h)
  <2>1. /\ call' = [call EXCEPT ![c] = g] /\ f.at \in {"dial", "handshake"} /\ mu' = None
        /\ UNCHANGED <<conn, cached>> /\ faults' \in 0..MaxFaults
    BY <1>0, <1>4, Bounds DEF DialFails, HandshakeDropped
  <2>2. h \in Call /\ h.result = "none" /\ h.met + h.cut >= h.attempt + 1
    <3>1. f.met \in 0..MaxRetries /\ f.cut \in 0..MaxRetries /\ f.attempt \in 0..(MaxRetries - 1)
          /\ f.met + f.cut >= f.attempt /\ f.result = "none"
      BY <1>0, <2>1 DEF OK, CausesOK, CallOK, Call
    <3>2. h.met = Capped(f.met) /\ h.cut = f.cut /\ h.attempt = f.attempt /\ h.result = f.result
      BY <1>0 DEF Met, Call
    <3> QED BY <1>0, <3>1, <3>2, TroubledCall, CappedFacts
  <2>3. g \in Call /\ call'[c] = g
    BY <2>1, <2>2, AttemptFailedOK DEF IInv, TypeOK
  <2>4. mu = c /\ cached = None
    BY <1>0, <2>1, SftpNoneAssumption DEF OK, CallOK, IInv
  <2> HIDE DEF h
  <2>5. OK(c)'
    <3>1. /\ g.at \in {"backoff", "idle"} /\ g.n = 0
          /\ g.at = "backoff" => /\ g.attempt + 1 < MaxRetries /\ g.result = "none"
                                 /\ g.met + g.cut >= g.attempt + 1
          /\ g.at = "idle" => g.result = "failed" /\ g.op = "list"
          /\ g.result = "failed" => g.met + g.cut >= MaxRetries
      BY <2>2, AttemptFailedOK
    <3>2. g.met + g.cut \in Nat /\ g.attempt \in Nat
      BY <2>3, Bounds DEF Call
    <3> HIDE DEF g
    <3> QED BY <2>1, <2>3, <3>1, <3>2, SftpNoneAssumption DEF OK, CallOK, CausesOK, BlocksOK
  <2> HIDE DEF g
  <2>6. TypeOK' /\ NoOrphanSession'
    BY <1>0, <2>1, <2>3 DEF IInv, TypeOK, NoOrphanSession
  <2> QED BY <1>1, <2>1, <2>3, <2>4, <2>5, <2>6
<1>5. CASE WaitsForSilent(c) \/ Hangs(c)
  <2>1. PICK at \in {"getwd", "closing", "handshake"} :
          /\ call' = [call EXCEPT ![c] = [f EXCEPT !.at = at]]
          /\ IF at = "handshake" THEN f.at = "dial" /\ mu' = mu
             ELSE /\ f.at \in {"session", "backoff"} /\ mu = None /\ mu' = c
                  /\ cached # None /\ conn[cached] = "silent"
                  /\ at = "closing" => f.at = "backoff"
    BY <1>5 DEF WaitsForSilent, CachedIsSilent, Hangs
  <2> DEFINE g == [f EXCEPT !.at = at]
  <2>2. g \in Call /\ UNCHANGED <<conn, cached, files>> /\ faults' \in 0..MaxFaults
    BY <1>0, <1>5, Bounds DEF WaitsForSilent, Hangs, Call
  <2>3. /\ call'[c] = g /\ g.at = at /\ g.n = f.n /\ g.result = f.result /\ g.op = f.op
        /\ g.attempt = f.attempt /\ g.met = f.met /\ g.cut = f.cut
    BY <1>0, <2>1 DEF IInv, TypeOK, Call
  <2>4. mu \in {None, c} /\ mu' = c
    BY <1>0, <2>1 DEF OK, CallOK
  <2> HIDE DEF g
  <2>5. OK(c)'
    BY <1>0, <2>1, <2>2, <2>3, <2>4 DEF OK, CallOK, CausesOK, BlocksOK
  <2>6. TypeOK' /\ NoOrphanSession'
    BY <1>0, <2>1, <2>2, <2>4 DEF IInv, TypeOK, NoOrphanSession, g
  <2> QED BY <1>1, <2>1, <2>2, <2>4, <2>5, <2>6 DEF g
<1>6. CASE StopsWaiting(c)
  <2>1. mu = c /\ f.at \in {"getwd", "closing"} /\ cached \in Conns /\ conn[cached] = "broken"
    BY <1>0, <1>6 DEF StopsWaiting, CachedIsSilent, OK, CallOK, IInv, TypeOK
  <2>2. /\ cached' = None /\ \A k \in Conns : conn'[k] = "closed" /\ conn[k] # "open"
        /\ conn' \in [Conns -> {"closed", "open", "silent", "broken"}] /\ UNCHANGED <<files, faults>>
    BY <1>6, <2>1 DEF StopsWaiting, IInv, TypeOK, NoOrphanSession
  <2>3. PICK g \in Call :
          /\ call' = [call EXCEPT ![c] = g]
          /\ \/ g = [f EXCEPT !.at = "dial"] /\ f.at = "getwd" /\ mu' = c
             \/ g = [f EXCEPT !.at = "session", !.attempt = @ + 1] /\ f.at = "closing" /\ mu' = None
    <3>1. CASE f.at = "getwd"
      <4> DEFINE g == [f EXCEPT !.at = "dial"]
      <4>1. g \in Call
        BY <1>0 DEF Call
      <4>2. call' = [call EXCEPT ![c] = g] /\ mu' = c
        BY <1>6, <2>1, <3>1 DEF StopsWaiting
      <4> QED BY <3>1, <4>1, <4>2
    <3>2. CASE f.at = "closing"
      <4> DEFINE g == [f EXCEPT !.at = "session", !.attempt = @ + 1]
      <4>1. f.attempt + 1 \in 0..(MaxRetries - 1)
        BY <1>0, <3>2, Bounds DEF OK, CausesOK, Call
      <4>2. g \in Call
        BY <1>0, <4>1 DEF Call
      <4>3. call' = [call EXCEPT ![c] = g] /\ mu' = None
        BY <1>6, <3>2 DEF StopsWaiting
      <4> QED BY <3>2, <4>2, <4>3
    <3> QED BY <2>1, <3>1, <3>2
  <2>4. call'[c] = g
    BY <2>3 DEF IInv, TypeOK
  <2>5. OK(c)'
    <3>1. /\ g.at \in {"dial", "session"} /\ g.n = 0 /\ g.result = "none" /\ g.met = f.met /\ g.cut = f.cut
          /\ g.at = "session" => f.at = "closing" /\ g.attempt = f.attempt + 1 /\ mu' = None
          /\ g.at = "dial" => f.at = "getwd" /\ g.attempt = f.attempt /\ mu' = c
      BY <1>0, <2>1, <2>3 DEF OK, CallOK, Call
    <3>2. CallOK(c)' /\ BlocksOK(c)'
      BY <2>2, <2>4, <3>1, SftpNoneAssumption DEF CallOK, BlocksOK
    <3>3. g.met + g.cut >= g.attempt
      BY <1>0, <3>1 DEF OK, CausesOK
    <3> QED BY <2>4, <3>1, <3>2, <3>3 DEF OK, CausesOK
  <2>6. TypeOK'
    BY <1>0, <2>2, <2>3 DEF IInv, TypeOK
  <2>7. NoOrphanSession'
    BY <2>2 DEF NoOrphanSession
  <2> QED BY <1>1, <2>1, <2>2, <2>3, <2>5, <2>6, <2>7
<1> QED BY <1>2, <1>3, <1>4, <1>5, <1>6

LEMMA BreakPreserves ==
  ASSUME IInv, NEW k \in Conns, NEW how \in {"silent", "broken"}, Breaks(k, how)
  PROVE  IInv'
<1>0. /\ UNCHANGED <<cached, mu, files>> /\ faults' \in 0..MaxFaults
      /\ conn' = [conn EXCEPT ![k] = how] /\ conn[k] = "open"
      /\ conn'[k] = how /\ \A j \in Conns \ {k} : conn'[j] = conn[j]
  BY Bounds DEF Breaks, IInv, TypeOK
<1>1. ASSUME NEW d \in Callers PROVE call'[d] \in Call /\ OK(d)'
  <2>1. OK(d) /\ call[d] \in Call
    BY DEF IInv, TypeOK, OK
  <2>2. CASE call[d].cli = k
    <3>1. call'[d] = Met(call[d]) /\ call'[d] \in Call
      BY <2>1, <2>2, TroubledCall DEF Breaks
    <3>2. cached \in Conns \cup {None}
      BY DEF IInv, TypeOK
    <3> QED BY <1>0, <2>1, <2>2, <3>1, <3>2, TroubledOK
  <2>3. CASE call[d].cli # k
    <3>1. call'[d] = call[d]
      BY <2>3 DEF Breaks
    <3> QED BY <1>0, <2>1, <2>3, <3>1 DEF OK, CallOK, CausesOK, BlocksOK
  <2> QED BY <2>2, <2>3
<1>2. TypeOK'
  <2>1. call' = [d \in Callers |-> call'[d]]
    BY DEF Breaks
  <2> QED BY <1>0, <1>1, <2>1 DEF IInv, TypeOK
<1>3. NoOrphanSession'
  BY <1>0 DEF IInv, NoOrphanSession
<1> QED BY <1>1, <1>2, <1>3 DEF IInv, OK

(* A silent connection that breaks was no good to any call before.         *)
LEMMA DropPreserves ==
  ASSUME IInv, NEW k \in Conns, Drops(k)
  PROVE  IInv'
<1>1. /\ conn' = [conn EXCEPT ![k] = "broken"] /\ conn[k] = "silent" /\ conn'[k] = "broken"
      /\ \A j \in Conns \ {k} : conn'[j] = conn[j]
      /\ UNCHANGED <<cached, mu, files, call, faults>>
  BY DEF Drops, IInv, TypeOK
<1>2. TypeOK' /\ NoOrphanSession'
  BY <1>1 DEF IInv, TypeOK, NoOrphanSession
<1>3. ASSUME NEW d \in Callers PROVE OK(d)'
  <2>1. OK(d) /\ cached \in Conns \cup {None}
    BY DEF IInv, TypeOK, OK
  <2>2. cached # None => (conn'[cached] = conn[cached] \/ (conn[cached] = "silent" /\ conn'[cached] = "broken"))
    BY <1>1, <2>1
  <2>3. Working(d) => (conn'[call[d].cli] = "open" <=> conn[call[d].cli] = "open")
    BY <1>1, <2>1 DEF OK, CallOK
  <2> QED BY <1>1, <2>1, <2>2, <2>3 DEF OK, CallOK, CausesOK, BlocksOK
<1> QED BY <1>2, <1>3 DEF IInv, OK

LEMMA Initially ==
  ASSUME Init
  PROVE  IInv
<1> DEFINE Idle(p) == [Fresh("list", p) EXCEPT !.at = "idle"]
<1>1. \A p \in Paths : /\ Idle(p) \in Call
                      /\ Idle(p).at = "idle" /\ Idle(p).n = 0 /\ Idle(p).result = "none" /\ Idle(p).op = "list"
  <2>1. 0 \in 0..Blocks /\ 0 \in 0..MaxRetries /\ 0 \in 0..(MaxRetries - 1)
    BY Bounds
  <2> QED BY <2>1 DEF Fresh, Call
<1>2. /\ call \in [Callers -> Call]
      /\ \A c \in Callers : call[c].at = "idle" /\ call[c].n = 0 /\ call[c].result = "none" /\ call[c].op = "list"
  <2>1. call \in [Callers -> {Idle(p) : p \in Paths}]
    BY DEF Init
  <2> HIDE DEF Idle
  <2> QED BY <1>1, <2>1
<1>3. files \in [Paths -> [exists : BOOLEAN, data : Contents]]
  BY DEF Init, NoFile, Contents
<1>4. TypeOK /\ NoOrphanSession /\ mu = None
  BY <1>2, <1>3, Bounds DEF Init, TypeOK, NoOrphanSession
<1>5. ASSUME NEW c \in Callers PROVE OK(c)
  BY <1>2, <1>4, SftpNoneAssumption DEF OK, CallOK, CausesOK, BlocksOK
<1> QED BY <1>4, <1>5 DEF IInv, OK

-----------------------------------------------------------------------------
(* The inductive invariant: the cached session is the only one, and every  *)
(* call's blocks and troubles are accounted for.                           *)
THEOREM SessionInvariant == Spec => []IInv
<1>1. Init => IInv
  BY Initially
<1>2. IInv /\ [Next]_vars => IInv'
  <2> SUFFICES ASSUME IInv, [Next]_vars PROVE IInv'
    OBVIOUS
  <2>1. CASE UNCHANGED vars
    BY <2>1 DEF vars, IInv, TypeOK, NoOrphanSession, CallOK, CausesOK, BlocksOK
  <2>2. CASE Next
    BY <2>2, RetryPreserves, ReadPreserves, WritePreserves, ReconnectPreserves, SessionPreserves, BreakPreserves,
           DropPreserves DEF Next, Step
  <2> QED BY <2>1, <2>2
<1> QED BY <1>1, <1>2, PTL DEF Spec

(* No session is ever lost: what is not closed is the cached one, whatever *)
(* fails and whoever reconnects (NoOrphanSession).                         *)
THEOREM NoSessionIsLost == Spec => []NoOrphanSession
<1>1. IInv => NoOrphanSession
  BY DEF IInv
<1> QED BY <1>1, SessionInvariant, PTL

(* A reported upload is whole, unless another wrote the path, for any      *)
(* number of blocks, attempts and broken sessions (UploadedIsWhole).       *)
THEOREM UploadsAreWhole == Spec => []UploadedIsWhole
<1>1. IInv => UploadedIsWhole
  <2> SUFFICES ASSUME IInv, NEW c \in Callers, call[c].op = "upload", call[c].result = "ok", call[c].alone
               PROVE  files[call[c].path] = [exists |-> TRUE, data |-> [b \in 1..Blocks |-> c]]
    BY DEF UploadedIsWhole
  <2>1. /\ files[call[c].path].exists
        /\ \A b \in 1..Blocks : files[call[c].path].data[b] = c
    BY DEF IInv, BlocksOK
  <2>2. files[call[c].path] \in [exists : BOOLEAN, data : [1..Blocks -> Callers \cup {None}]]
    BY DEF IInv, TypeOK, Call, Contents
  <2>3. files[call[c].path].data = [b \in 1..Blocks |-> c]
    BY <2>1, <2>2
  <2> QED BY <2>1, <2>2, <2>3
<1> QED BY <1>1, SessionInvariant, PTL

(* A call only gives up for exhausted attempts after MaxRetries troubles,  *)
(* faults it met or sessions closed under it (FailuresAreCaused).          *)
THEOREM FailuresHaveCauses == Spec => []FailuresAreCaused
<1>1. IInv => FailuresAreCaused
  BY DEF IInv, CausesOK, FailuresAreCaused
<1> QED BY <1>1, SessionInvariant, PTL

-----------------------------------------------------------------------------
(* Cnab.  A decoder finds in a record what its encoder put at the same     *)
(* bytes; until the encoder refuses a record, the lines of the k-th order  *)
(* are the 2k+1st and the one after it.  The return alternates answers     *)
(* with lines that are none, so the rows count the lines already read.     *)

\* h says at which byte each cell ends.
IsEnd(h, cells) ==
  h = [i \in 0..Len(cells) |-> IF i = 0 THEN 0 ELSE h[i - 1] + cells[i].width]

LaidOut(cells, h) ==
  [width |-> h[Len(cells)],
   cells |-> {Placed(cells[i], h[i - 1]) : i \in {j \in 1..Len(cells) : cells[j].read}}]

(* Induction over the numbers up to n, with the good ones as a set.        *)
LEMMA UpTo ==
  ASSUME NEW n \in Nat, NEW G, 0 \in G, \A k \in 0..n : k \in G /\ k # n => k + 1 \in G
  PROVE  n \in G
<1> SUFFICES ASSUME n \notin G PROVE FALSE
  OBVIOUS
<1>1. PICK T : T = (0..n) \ G
  OBVIOUS
<1> DEFINE R == {ss \in Nat \X Nat : ss[1] < ss[2]}
<1>2. IsWellFoundedOn(R, Nat)
  BY NatLessThanWellFounded DEF OpToRel
<1>3. ASSUME NEW k \in Nat, NEW m \in Nat, k < m PROVE <<k, m>> \in R
  BY <1>3
<1> HIDE DEF R
<1>4. PICK m \in T : \A k \in T : ~(<<k, m>> \in R)
  BY <1>1, <1>2, WFMin
<1>5. m \in 0..n /\ m \notin G /\ m # 0
  BY <1>1
<1>6. m - 1 \in 0..n /\ m - 1 \in Nat /\ m \in Nat /\ m - 1 < m /\ m - 1 # n /\ m - 1 + 1 = m
  BY <1>5
<1>7. m - 1 \in T
  BY <1>1, <1>5, <1>6
<1> QED BY <1>3, <1>4, <1>6, <1>7

(* Whatever the widths, the cells of a record have their ends.              *)
LEMMA EndExists ==
  ASSUME NEW n \in Nat, NEW w, \A i \in 1..n : w[i] \in Nat
  PROVE  \E h : h = [i \in 0..n |-> IF i = 0 THEN 0 ELSE h[i - 1] + w[i]]
<1> DEFINE Is(h, k) == h = [i \in 0..k |-> IF i = 0 THEN 0 ELSE h[i - 1] + w[i]]
           G == {k \in 0..n : \E h : Is(h, k)}
<1>1. 0 \in G
  <2>1. Is([i \in 0..0 |-> 0], 0)
    OBVIOUS
  <2> HIDE DEF Is
  <2> QED BY <2>1
<1>2. ASSUME NEW k \in 0..n, k \in G, k # n PROVE k + 1 \in G
  <2>1. PICK h : Is(h, k)
    BY <1>2
  <2> DEFINE g == [i \in 0..(k + 1) |-> IF i = k + 1 THEN h[k] + w[k + 1] ELSE h[i]]
  <2>2. Is(g, k + 1)
    <3>1. ASSUME NEW i \in 0..(k + 1) PROVE g[i] = IF i = 0 THEN 0 ELSE g[i - 1] + w[i]
      BY <2>1
    <3> QED BY <3>1
  <2> HIDE DEF Is, g
  <2> QED BY <1>2, <2>2
<1> HIDE DEF G
<1>3. n \in G
  BY <1>1, <1>2, UpTo
<1> QED BY <1>3 DEF G

(* So Record lays its cells out one after the other.                       *)
LEMMA RecordIs ==
  ASSUME NEW cells, Len(cells) \in Nat, \A i \in 1..Len(cells) : cells[i].width \in Nat
  PROVE  \E h : IsEnd(h, cells) /\ Record(cells) = LaidOut(cells, h)
<1> DEFINE e == CHOOSE h : IsEnd(h, cells)
<1>1. \E h : IsEnd(h, cells)
  <2> DEFINE w == [i \in 1..Len(cells) |-> cells[i].width]
  <2>1. PICK h : h = [i \in 0..Len(cells) |-> IF i = 0 THEN 0 ELSE h[i - 1] + w[i]]
    BY EndExists
  <2>2. h = [i \in 0..Len(cells) |-> IF i = 0 THEN 0 ELSE h[i - 1] + cells[i].width]
    <3>1. ASSUME NEW i \in 0..Len(cells)
          PROVE  (IF i = 0 THEN 0 ELSE h[i - 1] + w[i]) = IF i = 0 THEN 0 ELSE h[i - 1] + cells[i].width
      OBVIOUS
    <3> HIDE DEF w
    <3> QED BY <2>1, <3>1
  <2> QED BY <2>2 DEF IsEnd
<1>2. IsEnd(e, cells)
  BY <1>1
<1>3. Record(cells) = LaidOut(cells, e)
  BY DEF Record, LaidOut, IsEnd
<1> QED BY <1>2, <1>3

(* What a decoder cuts out of a record: at the bytes of a cell the cell    *)
(* itself, where no cell begins nothing that anybody wrote.                *)
LEMMA SliceIs ==
  ASSUME NEW cells, NEW h, NEW from, NEW to, NEW k \in 1..Len(cells),
         cells[k].read, h[k - 1] = from, from + cells[k].width = to,
         \A i \in 1..Len(cells) : h[i - 1] = from => i = k
  PROVE  Slice(LaidOut(cells, h), from, to) = Placed(cells[k], from)
<1> DEFINE S == {c \in LaidOut(cells, h).cells : c.from = from /\ c.to = to}
           C == {Placed(cells[i], h[i - 1]) : i \in {j \in 1..Len(cells) : cells[j].read}}
           x == Placed(cells[k], from)
<1>1. LaidOut(cells, h).cells = C
  BY DEF LaidOut
<1>2. x \in C /\ x.from = from /\ x.to = to
  BY DEF Placed
<1>3. ASSUME NEW c \in C, c.from = from PROVE c = x
  <2>1. PICK i \in 1..Len(cells) : c = Placed(cells[i], h[i - 1])
    OBVIOUS
  <2>2. h[i - 1] = from
    BY <1>3, <2>1 DEF Placed
  <2> QED BY <2>1, <2>2
<1> HIDE DEF x, C
<1>4. S = {x}
  BY <1>1, <1>2, <1>3
<1> QED BY <1>4 DEF Slice, x

LEMMA SliceIsNot ==
  ASSUME NEW cells, NEW h, NEW from, NEW to,
         \A i \in 1..Len(cells) : h[i - 1] # from
  PROVE  Slice(LaidOut(cells, h), from, to) = Garbled
<1> DEFINE C == {Placed(cells[i], h[i - 1]) : i \in {j \in 1..Len(cells) : cells[j].read}}
<1>1. LaidOut(cells, h).cells = C
  BY DEF LaidOut
<1>2. ASSUME NEW c \in C PROVE c.from # from
  BY DEF Placed
<1> HIDE DEF C
<1> QED BY <1>1, <1>2 DEF Slice

\* cells has its ends at the bytes h, and what is cut there is what they hold.
Holds(cells, h) ==
  LET r == Record(cells) IN
  /\ h[0] = 0
  /\ \A i \in 1..Len(cells) : h[i] = h[i - 1] + cells[i].width
  /\ r.width = h[Len(cells)] /\ r = [width |-> r.width, cells |-> r.cells]
  /\ \A k \in 1..Len(cells) :
       cells[k].read /\ (\A i \in 1..Len(cells) : h[i - 1] = h[k - 1] => i = k)
         => Slice(r, h[k - 1], h[k]) = Placed(cells[k], h[k - 1])
  /\ \A from, to :
       (\A i \in 1..Len(cells) : h[i - 1] # from) => Slice(r, from, to) = Garbled

(* The same without the positions: what the readers of a record rely on.   *)
LEMMA RecordHolds ==
  ASSUME NEW cells, Len(cells) \in Nat, \A i \in 1..Len(cells) : cells[i].width \in Nat
  PROVE  \E h : Holds(cells, h)
<1>1. PICK h : IsEnd(h, cells) /\ Record(cells) = LaidOut(cells, h)
  BY RecordIs
<1>2. h[0] = 0 /\ \A i \in 1..Len(cells) : h[i] = h[i - 1] + cells[i].width
  BY <1>1 DEF IsEnd
<1>3. ASSUME NEW k \in 1..Len(cells), cells[k].read,
             \A i \in 1..Len(cells) : h[i - 1] = h[k - 1] => i = k
      PROVE  Slice(Record(cells), h[k - 1], h[k]) = Placed(cells[k], h[k - 1])
  <2>1. h[k - 1] + cells[k].width = h[k]
    BY <1>2
  <2>2. Slice(LaidOut(cells, h), h[k - 1], h[k]) = Placed(cells[k], h[k - 1])
    BY <1>3, <2>1, SliceIs
  <2> QED BY <1>1, <2>2
<1>4. ASSUME NEW from, NEW to, \A i \in 1..Len(cells) : h[i - 1] # from
      PROVE  Slice(Record(cells), from, to) = Garbled
  BY <1>1, <1>4, SliceIsNot
<1>5. LET r == Record(cells) IN r.width = h[Len(cells)] /\ r = [width |-> r.width, cells |-> r.cells]
  BY <1>1 DEF LaidOut
<1> QED BY <1>2, <1>3, <1>4, <1>5 DEF Holds

(* The cells.                                                              *)
LEMMA CellIs ==
  /\ \A w : Cell(w).width = w
  /\ \A n, w : Num(n, w).width = w /\ Num(n, w).read
  /\ \A t, w : Text(t, w).width = w /\ Text(t, w).read /\ Text(t, w).text = t
  /\ \A n : Num(n, 4).num = n % 10^4
  /\ \A n : Num(n, 5).num = n % 10^5
  /\ \A n : Num(n, 15).num = n % AmountCeiling
BY DEF Cell, Num, Text

(* Bytes cut across the cells are no segment's letter.                     *)
LEMMA GarbledIs == Garbled.text # "A"
<1>1. Text("garbled", 0).text = "garbled"
  BY CellIs
<1> QED BY <1>1 DEF Garbled, Placed

-----------------------------------------------------------------------------
(* The records.                                                            *)

\* A whole line, and what it is to the bank and to the decoder.
Line(l) == l = [width |-> l.width, cells |-> l.cells] /\ l.width = LineWidth
IsA(l) == ReadString(l, 13, 14) = "A"

\* The segments of the k-th order, which pays p.
IsOrder(l, k, p) ==
  /\ Line(l) /\ IsA(l)
  /\ ReadNum(l, 3, 7) = 1 /\ ReadString(l, 7, 8) = "3" /\ ReadNum(l, 8, 13) = k % 10^5
  /\ ReadString(l, 70, 90) = OurNumber[p] /\ ReadNum(l, 119, 134) = Amount[p] % AmountCeiling
IsB(l, k) ==
  /\ Line(l) /\ ReadString(l, 13, 14) = "B" /\ ReadNum(l, 8, 13) = k % 10^5

\* A line that is there for the file's sake.
IsFrame(l) == Line(l) /\ ~IsA(l)

(* The headers and the trailers are never taken for an order.              *)
LEMMA FileHeaderIs == IsFrame(FileHeader)
<1> DEFINE cells == <<Cell(7), Text("0", 1), Cell(232)>>
<1>1. Len(cells) = 3 /\ cells[1] = Cell(7) /\ cells[2] = Text("0", 1) /\ cells[3] = Cell(232)
  OBVIOUS
<1>2. FileHeader = Record(cells)
  BY DEF FileHeader
<1> HIDE DEF cells
<1>3. cells[1].width = 7 /\ cells[2].width = 1 /\ cells[3].width = 232
  BY <1>1, CellIs
<1>4. PICK h : Holds(cells, h)
  BY <1>1, <1>3, RecordHolds
<1>5. h[0] = 0 /\ h[1] = 7 /\ h[2] = 8 /\ h[3] = 240
  BY <1>1, <1>3, <1>4 DEF Holds
<1>6. Slice(Record(cells), 13, 14) = Garbled
  BY <1>1, <1>4, <1>5 DEF Holds
<1> QED BY <1>1, <1>2, <1>4, <1>5, <1>6, GarbledIs DEF Holds, IsFrame, Line, IsA, ReadString, LineWidth

\* The batch header is whole when the caller's two strings are four bytes.
LEMMA BatchHeaderIs ==
  ASSUME NEW w \in Nat
  PROVE  BatchHeader(1, w).width = LineWidth <=> w = 4
<1> DEFINE cells == <<Cell(3), Num(1, 4), Text("1", 1), Cell(1 + w + 227)>>
<1>1. /\ Len(cells) = 4 /\ cells[1] = Cell(3) /\ cells[2] = Num(1, 4) /\ cells[3] = Text("1", 1)
      /\ cells[4] = Cell(1 + w + 227)
  OBVIOUS
<1>2. BatchHeader(1, w) = Record(cells)
  BY DEF BatchHeader
<1> HIDE DEF cells
<1>3. cells[1].width = 3 /\ cells[2].width = 4 /\ cells[3].width = 1 /\ cells[4].width = w + 228
  BY <1>1, CellIs
<1>4. PICK h : Holds(cells, h)
  BY <1>1, <1>3, RecordHolds
<1>5. h[0] = 0 /\ h[1] = 3 /\ h[2] = 7 /\ h[3] = 8 /\ h[4] = 236 + w
  BY <1>1, <1>3, <1>4 DEF Holds
<1> QED BY <1>1, <1>2, <1>4, <1>5 DEF Holds, LineWidth

LEMMA BatchTrailerIs ==
  ASSUME NEW count
  PROVE  BatchTrailer(1, count).width = LineWidth
<1> DEFINE cells == <<Cell(3), Num(1, 4), Text("5", 1), Cell(9), Num(count, 6), Cell(217)>>
<1>1. /\ Len(cells) = 6 /\ cells[1] = Cell(3) /\ cells[2] = Num(1, 4) /\ cells[3] = Text("5", 1)
      /\ cells[4] = Cell(9) /\ cells[5] = Num(count, 6) /\ cells[6] = Cell(217)
  OBVIOUS
<1>2. BatchTrailer(1, count) = Record(cells)
  BY DEF BatchTrailer
<1> HIDE DEF cells
<1>3. /\ cells[1].width = 3 /\ cells[2].width = 4 /\ cells[3].width = 1 /\ cells[4].width = 9
      /\ cells[5].width = 6 /\ cells[6].width = 217
  BY <1>1, CellIs
<1>4. PICK h : Holds(cells, h)
  BY <1>1, <1>3, RecordHolds
<1>5. /\ h[0] = 0 /\ h[1] = 3 /\ h[2] = 7 /\ h[3] = 8 /\ h[4] = 17
      /\ h[5] = 23 /\ h[6] = 240
  BY <1>1, <1>3, <1>4 DEF Holds
<1> QED BY <1>1, <1>2, <1>4, <1>5 DEF Holds, LineWidth

LEMMA FileTrailerIs ==
  ASSUME NEW batches, NEW count
  PROVE  IsFrame(FileTrailer(batches, count))
<1> DEFINE cells == <<Cell(3), Num(9999, 4), Text("9", 1), Cell(9), Num(batches, 6), Num(count, 6),
           Cell(211)>>
<1>1. /\ Len(cells) = 7 /\ cells[1] = Cell(3) /\ cells[2] = Num(9999, 4) /\ cells[3] = Text("9", 1)
      /\ cells[4] = Cell(9) /\ cells[5] = Num(batches, 6) /\ cells[6] = Num(count, 6) /\ cells[7] = Cell(211)
  OBVIOUS
<1>2. FileTrailer(batches, count) = Record(cells)
  BY DEF FileTrailer
<1> HIDE DEF cells
<1>3. /\ cells[1].width = 3 /\ cells[2].width = 4 /\ cells[3].width = 1 /\ cells[4].width = 9
      /\ cells[5].width = 6 /\ cells[6].width = 6 /\ cells[7].width = 211
  BY <1>1, CellIs
<1>4. PICK h : Holds(cells, h)
  BY <1>1, <1>3, RecordHolds
<1>5. /\ h[0] = 0 /\ h[1] = 3 /\ h[2] = 7 /\ h[3] = 8 /\ h[4] = 17
      /\ h[5] = 23 /\ h[6] = 29 /\ h[7] = 240
  BY <1>1, <1>3, <1>4 DEF Holds
<1>6. Slice(Record(cells), 13, 14) = Garbled
  BY <1>1, <1>4, <1>5 DEF Holds
<1> QED BY <1>1, <1>2, <1>4, <1>5, <1>6, GarbledIs DEF Holds, IsFrame, Line, IsA, ReadString, LineWidth

(* A segment B is whole when its document type is one byte.                *)
LEMMA SegmentBIs ==
  ASSUME NEW s, s.documentType \in Nat
  PROVE  /\ SegmentB(1, s).width = LineWidth <=> s.documentType = 1
         /\ s.documentType = 1 => IsB(SegmentB(1, s), s.sequence)
<1> DEFINE w == s.documentType
           cells == <<Cell(3), Num(1, 4), Text("3", 1), Num(s.sequence, 5), Text("B", 1),
                      Cell(3 + w + 222)>>
<1>1. /\ Len(cells) = 6 /\ cells[1] = Cell(3) /\ cells[2] = Num(1, 4) /\ cells[3] = Text("3", 1)
      /\ cells[4] = Num(s.sequence, 5) /\ cells[5] = Text("B", 1) /\ cells[6] = Cell(3 + w + 222)
  OBVIOUS
<1>2. SegmentB(1, s) = Record(cells)
  BY DEF SegmentB
<1> HIDE DEF cells
<1>3. /\ cells[1].width = 3 /\ cells[2].width = 4 /\ cells[3].width = 1 /\ cells[4].width = 5
      /\ cells[5].width = 1 /\ cells[6].width = w + 225
      /\ cells[4].read /\ cells[4].num = s.sequence % 10^5
      /\ cells[5].read /\ cells[5].text = "B"
  BY <1>1, CellIs
<1>4. PICK h : Holds(cells, h)
  <2>1. Len(cells) \in Nat /\ \A i \in 1..Len(cells) : cells[i].width \in Nat
    BY <1>1, <1>3
  <2> QED BY <2>1, RecordHolds
<1>5. h[0] = 0 /\ h[1] = 3 /\ h[2] = 7 /\ h[3] = 8 /\ h[4] = 13 /\ h[5] = 14 /\ h[6] = 239 + w
  BY <1>1, <1>3, <1>4 DEF Holds
<1>6. Slice(Record(cells), 13, 14) = Placed(cells[5], 13)
  <2>1. \A i \in 1..Len(cells) : h[i - 1] = h[5 - 1] => i = 5
    BY <1>1, <1>5
  <2> QED BY <1>1, <1>3, <1>4, <1>5, <2>1 DEF Holds
<1>7. Slice(Record(cells), 8, 13) = Placed(cells[4], 8)
  <2>1. \A i \in 1..Len(cells) : h[i - 1] = h[4 - 1] => i = 4
    BY <1>1, <1>5
  <2> QED BY <1>1, <1>3, <1>4, <1>5, <2>1 DEF Holds
<1>8. ReadString(Record(cells), 13, 14) = "B" /\ ReadNum(Record(cells), 8, 13) = s.sequence % 10^5
  BY <1>3, <1>6, <1>7 DEF ReadString, ReadNum, Placed
<1>9. /\ Record(cells).width = 239 + w
      /\ Record(cells) = [width |-> Record(cells).width, cells |-> Record(cells).cells]
  BY <1>1, <1>4, <1>5 DEF Holds
<1> QED BY <1>2, <1>8, <1>9 DEF IsB, Line, LineWidth

(* A segment A is the order of its payment.                                *)
LEMMA SegmentAIs ==
  ASSUME NEW p, NEW s, s.ourNumber = OurNumber[p], s.amount = Amount[p]
  PROVE  IsOrder(SegmentA(1, s), s.sequence, p)
<1> DEFINE cells == <<Cell(3), Num(1, 4), Text("3", 1), Num(s.sequence, 5), Text("A", 1), Cell(56),
                      Text(s.ourNumber, 20), Cell(29), Num(s.amount, 15), Cell(106)>>
<1>1. /\ Len(cells) = 10
      /\ cells[1] = Cell(3) /\ cells[2] = Num(1, 4) /\ cells[3] = Text("3", 1)
      /\ cells[4] = Num(s.sequence, 5) /\ cells[5] = Text("A", 1) /\ cells[6] = Cell(56)
      /\ cells[7] = Text(s.ourNumber, 20) /\ cells[8] = Cell(29)
      /\ cells[9] = Num(s.amount, 15) /\ cells[10] = Cell(106)
  OBVIOUS
<1>2. SegmentA(1, s) = Record(cells)
  BY DEF SegmentA
<1> HIDE DEF cells
<1>3. /\ cells[1].width = 3 /\ cells[2].width = 4 /\ cells[3].width = 1 /\ cells[4].width = 5
      /\ cells[5].width = 1 /\ cells[6].width = 56 /\ cells[7].width = 20 /\ cells[8].width = 29
      /\ cells[9].width = 15 /\ cells[10].width = 106
  BY <1>1, CellIs
<1>4. /\ cells[2].read /\ cells[2].num = 1 /\ cells[3].read /\ cells[3].text = "3"
      /\ cells[4].read /\ cells[4].num = s.sequence % 10^5
      /\ cells[5].read /\ cells[5].text = "A"
      /\ cells[7].read /\ cells[7].text = s.ourNumber
      /\ cells[9].read /\ cells[9].num = s.amount % AmountCeiling
  <2>1. 1 % 10^4 = 1
    OBVIOUS
  <2> QED BY <1>1, <2>1, CellIs
<1>5. PICK h : Holds(cells, h)
  <2>1. Len(cells) \in Nat
    BY <1>1
  <2>2. ASSUME NEW i \in 1..Len(cells) PROVE cells[i].width \in Nat
    BY <1>1, <1>3
  <2> QED BY <2>1, <2>2, RecordHolds
<1>6. /\ h[0] = 0 /\ h[1] = 3 /\ h[2] = 7 /\ h[3] = 8 /\ h[4] = 13 /\ h[5] = 14
      /\ h[6] = 70 /\ h[7] = 90 /\ h[8] = 119 /\ h[9] = 134 /\ h[10] = 240
  BY <1>1, <1>3, <1>5 DEF Holds
<1>7. ASSUME NEW k \in 1..10, cells[k].read
      PROVE  Slice(Record(cells), h[k - 1], h[k]) = Placed(cells[k], h[k - 1])
  <2>1. k \in 1..Len(cells) /\ \A i \in 1..Len(cells) : h[i - 1] = h[k - 1] => i = k
    BY <1>1, <1>6
  <2> QED BY <1>5, <1>7, <2>1 DEF Holds
<1>8. /\ Slice(Record(cells), 3, 7) = Placed(cells[2], 3)
      /\ Slice(Record(cells), 7, 8) = Placed(cells[3], 7)
      /\ Slice(Record(cells), 8, 13) = Placed(cells[4], 8)
      /\ Slice(Record(cells), 13, 14) = Placed(cells[5], 13)
      /\ Slice(Record(cells), 70, 90) = Placed(cells[7], 70)
      /\ Slice(Record(cells), 119, 134) = Placed(cells[9], 119)
  BY <1>4, <1>6, <1>7
<1>9. /\ ReadNum(Record(cells), 3, 7) = 1 /\ ReadString(Record(cells), 7, 8) = "3"
      /\ ReadNum(Record(cells), 8, 13) = s.sequence % 10^5 /\ IsA(Record(cells))
      /\ ReadString(Record(cells), 70, 90) = s.ourNumber
      /\ ReadNum(Record(cells), 119, 134) = s.amount % AmountCeiling
  BY <1>4, <1>8 DEF IsA, ReadNum, ReadString, Placed
<1>10. Line(Record(cells))
  BY <1>1, <1>5, <1>6 DEF Holds, Line, LineWidth
<1> QED BY <1>2, <1>9, <1>10 DEF IsOrder

-----------------------------------------------------------------------------
(* The exchange.                                                           *)

\* The bank's answer to the k-th order.
IsAnswer(l, k, p, codes) == IsOrder(l, k, p) /\ Slice(l, 230, 240).codes = codes

(* What the bank makes of an order: the same bytes, with its codes.        *)
LEMMA AnsweredIs ==
  ASSUME NEW l, NEW k, NEW p, IsOrder(l, k, p), NEW codes
  PROVE  IsAnswer(Answered(l, codes), k, p, codes)
<1> DEFINE a == Answered(l, codes)
           x == [Placed(Cell(10), 230) EXCEPT !.codes = codes]
<1>1. x.to = 240 /\ x.from = 230 /\ x.codes = codes
  <2>1. Cell(10).width = 10
    BY CellIs
  <2> QED BY <2>1 DEF Placed
<1>2. Line(a) /\ a.cells = {c \in l.cells : c.to <= 230} \cup {x}
  BY DEF IsOrder, Line, Answered
<1> HIDE DEF a, x
<1>3. ASSUME NEW from, NEW to \in Nat, to <= 230 PROVE Slice(a, from, to) = Slice(l, from, to)
  <2> DEFINE S == {c \in a.cells : c.from = from /\ c.to = to}
             R == {c \in l.cells : c.from = from /\ c.to = to}
  <2>1. S = R
    BY <1>1, <1>2, <1>3
  <2>2. Slice(a, from, to) = (IF S = {} THEN Garbled ELSE CHOOSE c \in S : TRUE)
    BY DEF Slice
  <2>3. Slice(l, from, to) = (IF R = {} THEN Garbled ELSE CHOOSE c \in R : TRUE)
    BY DEF Slice
  <2> HIDE DEF S, R
  <2> QED BY <2>1, <2>2, <2>3
<1>4. Slice(a, 230, 240) = x
  <2>1. {c \in a.cells : c.from = 230 /\ c.to = 240} = {x}
    BY <1>1, <1>2
  <2> QED BY <2>1 DEF Slice
<1>5. /\ Slice(a, 3, 7) = Slice(l, 3, 7) /\ Slice(a, 7, 8) = Slice(l, 7, 8)
      /\ Slice(a, 8, 13) = Slice(l, 8, 13)
      /\ Slice(a, 13, 14) = Slice(l, 13, 14) /\ Slice(a, 70, 90) = Slice(l, 70, 90)
      /\ Slice(a, 119, 134) = Slice(l, 119, 134)
  BY <1>3
<1>6. IsOrder(a, k, p)
  BY <1>2, <1>5 DEF IsOrder, IsA, ReadNum, ReadString
<1> QED BY <1>1, <1>4, <1>6 DEF IsAnswer, a

\* s is a sequence, of whatever it holds.
IsSeq(s) == s \in Seq({s[i] : i \in DOMAIN s})

(* Sequences, whose elements need no type here.                            *)
LEMMA SeqOverItself == ASSUME NEW S, NEW s \in Seq(S) PROVE IsSeq(s)
<1> DEFINE R == {s[i] : i \in DOMAIN s}
<1>1. Len(s) \in Nat /\ s = [i \in 1..Len(s) |-> s[i]] /\ \A i \in 1..Len(s) : s[i] \in R
  OBVIOUS
<1> HIDE DEF R
<1>2. s \in Seq(R)
  BY <1>1, IsASeq
<1> QED BY <1>2 DEF IsSeq, R

\* t is s and two more.
Continues(t, s, a, b) ==
  /\ IsSeq(t) /\ Len(t) = Len(s) + 2 /\ Len(s) \in Nat
  /\ \A i \in 1..Len(s) : t[i] = s[i]
  /\ t[Len(s) + 1] = a /\ t[Len(s) + 2] = b

LEMMA Longer ==
  ASSUME NEW s, IsSeq(s), NEW a, NEW b, NEW t, t = s \o <<a, b>>
  PROVE  Continues(t, s, a, b)
<1> DEFINE S == {s[i] : i \in DOMAIN s} \cup {a, b}
<1>1. s \in Seq(S) /\ <<a, b>> \in Seq(S)
  BY DEF IsSeq
<1> HIDE DEF S
<1>2. /\ Len(t) = Len(s) + 2 /\ Len(s) \in Nat
      /\ \A i \in 1..Len(s) : t[i] = s[i]
      /\ t[Len(s) + 1] = a /\ t[Len(s) + 2] = b
      /\ t \in Seq(S)
  BY <1>1
<1>3. IsSeq(t)
  BY <1>2, SeqOverItself
<1> QED BY <1>2, <1>3 DEF Continues

\* t is s and one more.
Adds(t, s, a) ==
  /\ IsSeq(t) /\ Len(t) = Len(s) + 1 /\ Len(s) \in Nat
  /\ \A i \in 1..Len(s) : t[i] = s[i]
  /\ t[Len(s) + 1] = a

LEMMA OneLonger ==
  ASSUME NEW s, IsSeq(s), NEW a, NEW t, t = Append(s, a)
  PROVE  Adds(t, s, a)
<1> DEFINE S == {s[i] : i \in DOMAIN s} \cup {a}
<1>1. s \in Seq(S) /\ a \in S
  BY DEF IsSeq
<1> HIDE DEF S
<1>2. /\ Len(t) = Len(s) + 1 /\ Len(s) \in Nat
      /\ \A i \in 1..Len(s) : t[i] = s[i]
      /\ t[Len(s) + 1] = a
      /\ t \in Seq(S)
  BY <1>1
<1>3. IsSeq(t)
  BY <1>2, SeqOverItself
<1> QED BY <1>2, <1>3 DEF Adds

\* Until a record is refused: the headers, the segments of the orders, the trailers.
FileOK ==
  /\ IsSeq(file) \/ stage = "stopped"
  /\ IsSeq(orders) /\ \A k \in 1..Len(orders) : orders[k] \in Payments
  /\ stage = "open" => Len(file) = 0 /\ Len(orders) = 0
  /\ stage = "stopped" => ~Fits
  /\ stage \in {"write", "bank", "decode"} =>
       /\ Fits
       /\ Len(file) = 2 * Len(orders) + (IF stage = "write" THEN 2 ELSE 4)
       /\ IsFrame(file[1]) /\ (stage # "write" => IsFrame(file[Len(file)]))
       /\ \A k \in 1..Len(orders) :
            IsOrder(file[2 * k + 1], k, orders[k]) /\ IsB(file[2 * k + 2], k)

\* The i-th answer in the return: sending puts a header before them all.
At(i) == IF stage = "decode" THEN 2 * i ELSE 2 * i - 1

ReturnedOK ==
  /\ IsSeq(returned) /\ IsSeq(answers)
  /\ stage \notin {"bank", "decode"} => Len(answers) = 0
  /\ Len(returned) = 2 * Len(answers) + (IF stage = "decode" THEN 2 ELSE 0)
  /\ \A i \in 1..Len(answers) :
       LET k == answers[i].order IN
       /\ k \in 1..Len(orders)
       /\ IsAnswer(returned[At(i)], k, orders[k], answers[i].codes)
       /\ IsFrame(returned[At(i) + 1])
  /\ stage = "decode" => IsFrame(returned[1]) /\ IsFrame(returned[Len(returned)])

\* The rows are the answers before the line that Decode reads next.
RowsOK ==
  /\ IsSeq(rows)
  /\ \A i \in 1..Len(rows) : rows[i] = ReturnLine(returned[2 * i])
  /\ IF stage = "decode"
       THEN /\ Len(rows) <= Len(answers)
            /\ \/ next \in {2 * Len(rows) + 1, 2 * Len(rows) + 2}
               \/ next = 2 * Len(rows) + 3 /\ Len(rows) = Len(answers)
       ELSE Len(rows) = 0 /\ next = 1

CnabInv ==
  /\ stage \in {"open", "write", "bank", "decode", "stopped"}
  /\ FileOK /\ ReturnedOK /\ RowsOK

LEMMA SegmentBIsFrame == ASSUME NEW l, NEW k, IsB(l, k) PROVE IsFrame(l)
BY DEF IsB, IsFrame, IsA

(* Two records, the first of them whole: the second decides.               *)
LEMMA TwoLines ==
  ASSUME IsSeq(file), NEW a, NEW b, a.width = LineWidth, NEW then, writeLines(<<a, b>>, then)
  PROVE  IF b.width = LineWidth
           THEN stage' = then /\ \E g : g = file' /\ Continues(g, file, a, b)
           ELSE stage' = "stopped"
<1> DEFINE lines == <<a, b>>
<1>1. Len(lines) = 2 /\ lines[1] = a /\ lines[2] = b /\ SubSeq(lines, 1, 2) = lines
  <2>1. lines \in Seq({a, b}) /\ Len(lines) = 2 /\ lines[1] = a /\ lines[2] = b
    OBVIOUS
  <2> HIDE DEF lines
  <2>2. SubSeq(lines, 1, Len(lines)) = lines
    BY <2>1, SubSeqFull
  <2> QED BY <2>1, <2>2
<1>2. writeLines(lines, then)
  OBVIOUS
<1> HIDE DEF lines
<1>3. PICK n \in 0..2 :
        /\ \A i \in 1..n : lines[i].width = LineWidth
        /\ n < 2 => lines[n + 1].width # LineWidth
        /\ file' = file \o SubSeq(lines, 1, n)
        /\ stage' = IF n < 2 THEN "stopped" ELSE then
  BY <1>1, <1>2 DEF writeLines
<1>4. CASE b.width # LineWidth
  <2>1. n # 2
    BY <1>1, <1>3, <1>4
  <2> QED BY <1>3, <1>4, <2>1
<1>5. CASE b.width = LineWidth
  <2>1. n = 2
    BY <1>1, <1>3, <1>5
  <2>2. stage' = then /\ file' = file \o <<a, b>>
    BY <1>1, <1>3, <2>1 DEF lines
  <2>3. PICK g : g = file' /\ g = file \o <<a, b>>
    BY <2>2
  <2>4. Continues(g, file, a, b)
    BY <2>3, Longer
  <2> QED BY <1>5, <2>2, <2>3, <2>4
<1> QED BY <1>4, <1>5

(* While the file is written nothing has come back yet.                    *)
LEMMA StillWriting ==
  ASSUME CnabInv, stage \in {"open", "write"}, stage' \in {"write", "bank", "stopped"},
         FileOK', UNCHANGED <<returned, answers, next, rows>>
  PROVE  CnabInv'
<1>1. /\ IsSeq(returned) /\ IsSeq(answers) /\ IsSeq(rows)
      /\ Len(answers) = 0 /\ Len(returned) = 0 /\ Len(rows) = 0 /\ next = 1
  BY DEF CnabInv, ReturnedOK, RowsOK
<1>2. ReturnedOK'
  BY <1>1 DEF ReturnedOK
<1>3. RowsOK'
  BY <1>1 DEF RowsOK
<1> QED BY <1>2, <1>3 DEF CnabInv

(* The headers.                                                            *)
LEMMA OpenPreserves == ASSUME CnabInv, NEW w \in HeaderWidths, Open(w) PROVE CnabInv'
<1>1. stage = "open" /\ forma' = w /\ UNCHANGED <<orders, returned, answers, next, rows>>
  BY DEF Open
<1>2. IsSeq(file) /\ Len(file) = 0 /\ IsSeq(orders) /\ Len(orders) = 0
  BY <1>1 DEF CnabInv, FileOK
<1>3. FileHeader.width = LineWidth /\ IsFrame(FileHeader)
  BY FileHeaderIs DEF IsFrame, Line
<1>4. BatchHeader(1, w).width = LineWidth <=> w = 4
  BY BatchHeaderIs, CnabAssumption
<1>5. IF w = 4
        THEN stage' = "write" /\ \E g : g = file' /\ Continues(g, file, FileHeader, BatchHeader(1, w))
        ELSE stage' = "stopped"
  <2>1. writeLines(<<FileHeader, BatchHeader(1, w)>>, "write")
    BY DEF Open
  <2> QED BY <1>2, <1>3, <1>4, <2>1, TwoLines
<1>6. Fits' <=> w = 4
  BY <1>1, <1>2 DEF Fits
<1>7. CASE w # 4
  <2>1. FileOK'
    BY <1>1, <1>2, <1>5, <1>6, <1>7 DEF FileOK
  <2> QED BY <1>1, <1>5, <1>7, <2>1, StillWriting
<1>8. CASE w = 4
  <2>1. PICK g : g = file' /\ Continues(g, file, FileHeader, BatchHeader(1, w))
    BY <1>5, <1>8
  <2>2. IsSeq(g) /\ Len(g) = 2 /\ g[1] = FileHeader
    BY <1>2, <2>1 DEF Continues
  <2>3. FileOK'
    BY <1>1, <1>2, <1>3, <1>5, <1>6, <1>8, <2>1, <2>2 DEF FileOK
  <2> QED BY <1>1, <1>5, <1>8, <2>3, StillWriting
<1> QED BY <1>7, <1>8

(* A payment's segments A and B.                                           *)
LEMMA PaymentPreserves == ASSUME CnabInv, NEW p \in Payments, WritePayment(p) PROVE CnabInv'
<1> DEFINE s == [sequence |-> Len(orders) + 1, ourNumber |-> OurNumber[p], amount |-> Amount[p],
                 documentType |-> DocumentType[p]]
           n == Len(orders)
<1>1. /\ stage = "write" /\ orders' = Append(orders, p)
      /\ writeLines(<<SegmentA(1, s), SegmentB(1, s)>>, "write")
      /\ UNCHANGED <<forma, returned, answers, next, rows>>
  BY DEF WritePayment
<1>2. /\ IsSeq(file) /\ IsSeq(orders) /\ \A k \in 1..n : orders[k] \in Payments
      /\ Fits /\ Len(file) = 2 * n + 2 /\ IsFrame(file[1])
      /\ \A k \in 1..n : IsOrder(file[2 * k + 1], k, orders[k]) /\ IsB(file[2 * k + 2], k)
  BY <1>1 DEF CnabInv, FileOK
<1>3. /\ IsOrder(SegmentA(1, s), n + 1, p)
      /\ SegmentB(1, s).width = LineWidth <=> DocumentType[p] = 1
      /\ DocumentType[p] = 1 => IsB(SegmentB(1, s), n + 1)
  <2>1. /\ s.ourNumber = OurNumber[p] /\ s.amount = Amount[p] /\ s.sequence = n + 1
        /\ s.documentType = DocumentType[p] /\ s.documentType \in Nat
    BY CnabAssumption
  <2> HIDE DEF s
  <2> QED BY <2>1, SegmentAIs, SegmentBIs
<1> HIDE DEF s
<1>4. PICK a, b : a = SegmentA(1, s) /\ b = SegmentB(1, s)
  OBVIOUS
<1>5. IF DocumentType[p] = 1
        THEN stage' = "write" /\ \E g : g = file' /\ Continues(g, file, a, b)
        ELSE stage' = "stopped"
  <2>1. a.width = LineWidth
    BY <1>3, <1>4 DEF IsOrder, Line
  <2> QED BY <1>1, <1>2, <1>3, <1>4, <2>1, TwoLines
<1>6. PICK o : o = orders' /\ Adds(o, orders, p)
  BY <1>1, <1>2, OneLonger
<1>7. IsSeq(o) /\ Len(o) = n + 1 /\ n \in Nat /\ o[n + 1] = p /\ \A k \in 1..n : o[k] = orders[k]
  BY <1>6 DEF Adds
<1>8. \A k \in 1..Len(o) : o[k] \in Payments
  BY <1>2, <1>7
<1>9. Fits' <=> DocumentType[p] = 1
  BY <1>1, <1>2, <1>6, <1>7 DEF Fits
<1>10. CASE DocumentType[p] # 1
  <2>1. FileOK'
    BY <1>5, <1>6, <1>7, <1>8, <1>9, <1>10 DEF FileOK
  <2> QED BY <1>1, <1>5, <1>10, <2>1, StillWriting
<1>11. CASE DocumentType[p] = 1
  <2>1. PICK g : g = file' /\ Continues(g, file, a, b)
    BY <1>5, <1>11
  <2>2. /\ IsSeq(g) /\ Len(g) = 2 * Len(o) + 2
        /\ g[2 * (n + 1) + 1] = a /\ g[2 * (n + 1) + 2] = b
        /\ \A i \in 1..(2 * n + 2) : g[i] = file[i]
    BY <1>2, <1>7, <2>1 DEF Continues
  <2>3. ASSUME NEW k \in 1..Len(o)
        PROVE  IsOrder(g[2 * k + 1], k, o[k]) /\ IsB(g[2 * k + 2], k)
    <3>1. CASE k = n + 1
      BY <1>3, <1>4, <1>7, <1>11, <2>2, <3>1
    <3>2. CASE k \in 1..n
      <4>1. 2 * k + 1 \in 1..(2 * n + 2) /\ 2 * k + 2 \in 1..(2 * n + 2)
        BY <1>7, <3>2
      <4>2. g[2 * k + 1] = file[2 * k + 1] /\ g[2 * k + 2] = file[2 * k + 2] /\ o[k] = orders[k]
        BY <1>7, <2>2, <3>2, <4>1
      <4> QED BY <1>2, <3>2, <4>2
    <3> QED BY <1>7, <3>1, <3>2
  <2>4. IsFrame(g[1])
    BY <1>2, <1>7, <2>2
  <2>5. FileOK'
    BY <1>5, <1>6, <1>7, <1>8, <1>9, <1>11, <2>1, <2>2, <2>3, <2>4 DEF FileOK
  <2> QED BY <1>1, <1>5, <1>11, <2>5, StillWriting
<1> QED BY <1>10, <1>11

(* The trailers.                                                           *)
LEMMA TrailersPreserve == ASSUME CnabInv, WriteTrailers PROVE CnabInv'
<1>1. stage = "write" /\ UNCHANGED <<forma, orders, returned, answers, next, rows>>
  BY DEF WriteTrailers
<1>2. PICK a, b : /\ a = BatchTrailer(1, Len(file) + 1) /\ b = FileTrailer(1, Len(file) + 2)
                  /\ writeLines(<<a, b>>, "bank")
  BY DEF WriteTrailers
<1>3. a.width = LineWidth /\ b.width = LineWidth /\ IsFrame(b)
  BY <1>2, BatchTrailerIs, FileTrailerIs DEF IsFrame, Line
<1>4. /\ IsSeq(file) /\ IsSeq(orders) /\ \A k \in 1..Len(orders) : orders[k] \in Payments
      /\ Fits /\ Len(file) = 2 * Len(orders) + 2 /\ IsFrame(file[1])
      /\ \A k \in 1..Len(orders) : IsOrder(file[2 * k + 1], k, orders[k]) /\ IsB(file[2 * k + 2], k)
  BY <1>1 DEF CnabInv, FileOK
<1>5. PICK g : g = file' /\ Continues(g, file, a, b) /\ stage' = "bank"
  BY <1>2, <1>3, <1>4, TwoLines
<1>6. /\ IsSeq(g) /\ Len(g) = 2 * Len(orders) + 4 /\ Len(orders) \in Nat
      /\ g[Len(g)] = b /\ \A i \in 1..(2 * Len(orders) + 2) : g[i] = file[i]
  <2>1. Len(orders) \in Nat
    BY <1>4 DEF IsSeq
  <2> QED BY <1>4, <1>5, <2>1 DEF Continues
<1>7. ASSUME NEW k \in 1..Len(orders)
      PROVE  IsOrder(g[2 * k + 1], k, orders[k]) /\ IsB(g[2 * k + 2], k)
  <2>1. g[2 * k + 1] = file[2 * k + 1] /\ g[2 * k + 2] = file[2 * k + 2]
    BY <1>6
  <2> QED BY <1>4, <2>1
<1>8. IsFrame(g[1]) /\ IsFrame(g[Len(g)])
  BY <1>3, <1>4, <1>6
<1>9. Fits'
  BY <1>1, <1>4 DEF Fits
<1>10. FileOK'
  BY <1>1, <1>4, <1>5, <1>6, <1>7, <1>8, <1>9 DEF FileOK
<1> QED BY <1>1, <1>5, <1>10, StillWriting

(* An answered segment A comes back with its segment B after it.           *)
LEMMA BankPreserves ==
  ASSUME CnabInv, NEW k \in 1..Len(orders), NEW codes, BankAnswers(k, codes)
  PROVE  CnabInv'
<1>1. stage = "bank" /\ UNCHANGED <<file, forma, orders, next, rows, stage>>
  BY DEF BankAnswers
<1> DEFINE n == Len(answers)
<1>2. PICK a, b : /\ a = Answered(file[2 * k + 1], codes) /\ b = file[2 * k + 2]
                  /\ returned' = returned \o <<a, b>>
  BY DEF BankAnswers
<1>3. IsAnswer(a, k, orders[k], codes) /\ IsFrame(b)
  <2>1. IsOrder(file[2 * k + 1], k, orders[k]) /\ IsB(b, k)
    BY <1>1, <1>2 DEF CnabInv, FileOK
  <2> QED BY <1>2, <2>1, AnsweredIs, SegmentBIsFrame
<1>4. /\ IsSeq(returned) /\ IsSeq(answers) /\ Len(returned) = 2 * n
      /\ \A i \in 1..n :
           /\ answers[i].order \in 1..Len(orders)
           /\ IsAnswer(returned[2 * i - 1], answers[i].order, orders[answers[i].order], answers[i].codes)
           /\ IsFrame(returned[2 * i])
  <2>1. /\ IsSeq(returned) /\ IsSeq(answers) /\ Len(returned) = 2 * n + 0
        /\ \A i \in 1..n :
             /\ answers[i].order \in 1..Len(orders)
             /\ IsAnswer(returned[2 * i - 1], answers[i].order, orders[answers[i].order], answers[i].codes)
             /\ IsFrame(returned[2 * i - 1 + 1])
    BY <1>1 DEF CnabInv, ReturnedOK, At
  <2>2. n \in Nat
    BY <2>1 DEF IsSeq
  <2>3. ASSUME NEW i \in 1..n PROVE IsFrame(returned[2 * i])
    <3>1. IsFrame(returned[2 * i - 1 + 1]) /\ 2 * i - 1 + 1 = 2 * i
      BY <2>1, <2>2
    <3> QED BY <3>1
  <2>4. Len(returned) = 2 * n
    BY <2>1, <2>2
  <2> HIDE DEF n
  <2> QED BY <2>1, <2>3, <2>4
<1> DEFINE answer == [order |-> k, codes |-> codes]
<1>5. PICK g, t : g = returned' /\ t = answers' /\ Continues(g, returned, a, b) /\ Adds(t, answers, answer)
  BY <1>2, <1>4, Longer, OneLonger DEF BankAnswers
<1>6. answer.order = k /\ answer.codes = codes
  OBVIOUS
<1> HIDE DEF answer
<1>7. /\ IsSeq(g) /\ IsSeq(t) /\ n \in Nat /\ Len(t) = n + 1 /\ Len(g) = 2 * (n + 1)
      /\ t[n + 1] = answer /\ \A i \in 1..n : t[i] = answers[i]
      /\ g[2 * (n + 1) - 1] = a /\ g[2 * (n + 1)] = b /\ \A i \in 1..(2 * n) : g[i] = returned[i]
  BY <1>4, <1>5 DEF Continues, Adds
<1>8. ASSUME NEW i \in 1..Len(t)
      PROVE  /\ t[i].order \in 1..Len(orders)
             /\ IsAnswer(g[2 * i - 1], t[i].order, orders[t[i].order], t[i].codes)
             /\ IsFrame(g[2 * i - 1 + 1])
  <2>1. 2 * i - 1 + 1 = 2 * i
    BY <1>7
  <2>2. CASE i = n + 1
    BY <1>3, <1>6, <1>7, <2>1, <2>2
  <2>3. CASE i \in 1..n
    <3>1. 2 * i - 1 \in 1..(2 * n) /\ 2 * i \in 1..(2 * n)
      BY <1>7, <2>3
    <3>2. g[2 * i - 1] = returned[2 * i - 1] /\ g[2 * i] = returned[2 * i] /\ t[i] = answers[i]
      BY <1>7, <2>3, <3>1
    <3> QED BY <1>4, <2>1, <2>3, <3>2
  <2> QED BY <1>7, <2>2, <2>3
<1>9. ReturnedOK'
  <2>1. Len(g) = 2 * Len(t) + 0
    BY <1>7
  <2> QED BY <1>1, <1>5, <1>7, <1>8, <2>1 DEF ReturnedOK, At
<1>10. RowsOK'
  <2>1. IsSeq(rows) /\ Len(rows) = 0 /\ next = 1
    BY <1>1 DEF RowsOK, CnabInv
  <2> QED BY <1>1, <2>1 DEF RowsOK
<1>11. FileOK'
  BY <1>1 DEF FileOK, CnabInv, Fits
<1> QED BY <1>1, <1>9, <1>10, <1>11 DEF CnabInv

(* The header of the return moves every answer on by one.                  *)
LEMMA SendPreserves == ASSUME CnabInv, BankSends PROVE CnabInv'
<1>1. stage = "bank" /\ stage' = "decode" /\ UNCHANGED <<file, forma, orders, answers, next, rows>>
  BY DEF BankSends
<1> DEFINE n == Len(answers)
<1>2. PICK first, last : /\ first = file[1] /\ last = file[Len(file)]
                         /\ returned' = <<first>> \o returned \o <<last>>
  BY DEF BankSends
<1>3. IsFrame(first) /\ IsFrame(last)
  BY <1>1, <1>2 DEF CnabInv, FileOK
<1>4. /\ IsSeq(returned) /\ IsSeq(answers) /\ Len(returned) = 2 * n + 0 /\ n \in Nat
      /\ \A i \in 1..n :
           /\ answers[i].order \in 1..Len(orders)
           /\ IsAnswer(returned[2 * i - 1], answers[i].order, orders[answers[i].order], answers[i].codes)
           /\ IsFrame(returned[2 * i - 1 + 1])
  <2>1. n \in Nat
    BY DEF CnabInv, ReturnedOK, IsSeq
  <2> QED BY <1>1, <2>1 DEF CnabInv, ReturnedOK, At
<1>5. PICK g : g = returned' /\ g = <<first>> \o returned \o <<last>>
  BY <1>2
<1>6. /\ IsSeq(g) /\ Len(g) = Len(returned) + 2
      /\ g[1] = first /\ g[Len(returned) + 2] = last
      /\ \A i \in 1..Len(returned) : g[i + 1] = returned[i]
  <2> DEFINE S == {returned[i] : i \in DOMAIN returned} \cup {first, last}
  <2>1. returned \in Seq(S) /\ <<first>> \in Seq(S) /\ <<last>> \in Seq(S) /\ Len(returned) \in Nat
    BY <1>4 DEF IsSeq
  <2> HIDE DEF S
  <2>2. PICK u : u = <<first>> \o returned
    OBVIOUS
  <2>3. /\ u \in Seq(S) /\ Len(u) = Len(returned) + 1 /\ u[1] = first
        /\ \A i \in 1..Len(returned) : u[i + 1] = returned[i]
    BY <2>1, <2>2
  <2>4. g = u \o <<last>>
    BY <1>5, <2>2
  <2>5. /\ g \in Seq(S) /\ Len(g) = Len(u) + 1 /\ g[Len(u) + 1] = last
        /\ \A i \in 1..Len(u) : g[i] = u[i]
    BY <2>1, <2>3, <2>4
  <2>6. IsSeq(g)
    BY <2>5, SeqOverItself
  <2>7. g[1] = first /\ \A i \in 1..Len(returned) : g[i + 1] = returned[i]
    BY <2>1, <2>3, <2>5
  <2> QED BY <2>1, <2>3, <2>5, <2>6, <2>7
<1>7. ASSUME NEW i \in 1..n
      PROVE  /\ IsAnswer(g[2 * i], answers[i].order, orders[answers[i].order], answers[i].codes)
             /\ IsFrame(g[2 * i + 1])
  <2>1. /\ 2 * i - 1 \in 1..Len(returned) /\ 2 * i - 1 + 1 = 2 * i
        /\ 2 * i \in 1..Len(returned)
    BY <1>4
  <2>2. g[2 * i] = returned[2 * i - 1] /\ g[2 * i + 1] = returned[2 * i]
    BY <1>6, <2>1
  <2> QED BY <1>4, <2>1, <2>2
<1>8. ReturnedOK'
  <2>1. returned' = g /\ IsSeq(g) /\ Len(g) = 2 * Len(answers) + 2
    BY <1>4, <1>5, <1>6
  <2>2. \A i \in 1..n : /\ answers[i].order \in 1..Len(orders)
                       /\ IsAnswer(returned'[2 * i], answers[i].order, orders[answers[i].order], answers[i].codes)
                       /\ IsFrame(returned'[2 * i + 1])
    BY <1>4, <1>7, <2>1
  <2>3. IsFrame(returned'[1]) /\ IsFrame(returned'[Len(returned')])
    BY <1>3, <1>4, <1>6, <2>1
  <2> QED BY <1>1, <1>4, <2>1, <2>2, <2>3 DEF ReturnedOK, At
<1>9. RowsOK'
  <2>1. IsSeq(rows) /\ Len(rows) = 0 /\ next = 1
    BY <1>1 DEF CnabInv, RowsOK
  <2> QED BY <1>1, <1>4, <2>1 DEF RowsOK
<1>10. FileOK'
  BY <1>1 DEF FileOK, CnabInv, Fits
<1> QED BY <1>1, <1>8, <1>9, <1>10 DEF CnabInv

(* A turn of Decode: a row is cut exactly from an answer.                  *)
LEMMA DecodePreserves == ASSUME CnabInv, Decode PROVE CnabInv'
<1>1. stage = "decode" /\ next <= Len(returned) /\ UNCHANGED <<file, forma, orders, returned, answers>>
  BY DEF Decode
<1>2. PICK k, n, l : k = Len(rows) /\ n = Len(answers) /\ l = returned[next]
  OBVIOUS
<1>3. /\ k \in Nat /\ n \in Nat /\ k <= n /\ Len(returned) = 2 * n + 2 /\ IsSeq(rows)
      /\ \A i \in 1..k : rows[i] = ReturnLine(returned[2 * i])
      /\ \A i \in 1..n :
           /\ IsAnswer(returned[2 * i], answers[i].order, orders[answers[i].order], answers[i].codes)
           /\ IsFrame(returned[2 * i + 1])
      /\ IsFrame(returned[1]) /\ IsFrame(returned[2 * n + 2])
  BY <1>1, <1>2 DEF CnabInv, RowsOK, ReturnedOK, At, IsSeq
<1>4. next \in {2 * k + 1, 2 * k + 2}
  BY <1>1, <1>2, <1>3 DEF CnabInv, RowsOK
<1>5. /\ Line(l)
      /\ IF next = 2 * k + 2 /\ k < n THEN IsA(l) /\ ReadString(l, 7, 8) = "3" ELSE ~IsA(l)
  <2>1. CASE next = 2 * k + 1 /\ k = 0
    BY <1>2, <1>3, <2>1 DEF IsFrame
  <2>2. CASE next = 2 * k + 1 /\ k # 0
    <3>1. k \in 1..n
      BY <1>3, <2>2
    <3>2. IsFrame(returned[2 * k + 1])
      BY <1>3, <3>1
    <3> QED BY <1>2, <2>2, <3>2 DEF IsFrame
  <2>3. CASE next = 2 * k + 2 /\ k < n
    <3>1. k + 1 \in 1..n /\ 2 * (k + 1) = next
      BY <1>3, <2>3
    <3> QED BY <1>2, <1>3, <2>3, <3>1 DEF IsAnswer, IsOrder
  <2>4. CASE next = 2 * k + 2 /\ k = n
    BY <1>2, <1>3, <2>4 DEF IsFrame
  <2> QED BY <1>3, <1>4, <2>1, <2>2, <2>3, <2>4
<1>6. /\ next' = next + 1 /\ stage' = stage
      /\ rows' = IF IsA(l) THEN Append(rows, ReturnLine(l)) ELSE rows
  BY <1>2, <1>5 DEF Decode, Line, IsA
<1>7. RowsOK'
  <2>1. CASE IsA(l)
    <3>1. next = 2 * (k + 1) /\ k < n /\ next' = 2 * (k + 1) + 1
      BY <1>3, <1>5, <1>6, <2>1
    <3>2. PICK g : g = rows' /\ Adds(g, rows, ReturnLine(l))
      BY <1>3, <1>6, <2>1, OneLonger
    <3>3. IsSeq(g) /\ Len(g) = k + 1 /\ g[k + 1] = ReturnLine(l) /\ \A i \in 1..k : g[i] = rows[i]
      BY <1>2, <3>2 DEF Adds
    <3>4. \A i \in 1..Len(g) : g[i] = ReturnLine(returned[2 * i])
      <4>1. ASSUME NEW i \in 1..Len(g) PROVE g[i] = ReturnLine(returned[2 * i])
        <5>1. CASE i = k + 1
          BY <1>2, <3>1, <3>3, <5>1
        <5>2. CASE i \in 1..k
          BY <1>3, <3>3, <5>2
        <5> QED BY <1>3, <3>3, <5>1, <5>2
      <4> QED BY <4>1
    <3> QED BY <1>1, <1>2, <1>3, <1>6, <3>1, <3>2, <3>3, <3>4 DEF RowsOK
  <2>2. CASE ~IsA(l)
    <3>1. rows' = rows
      BY <1>6, <2>2
    <3>2. next' = 2 * k + 2 \/ (next' = 2 * k + 3 /\ k = n)
      BY <1>3, <1>4, <1>5, <1>6, <2>2
    <3> QED BY <1>1, <1>2, <1>3, <1>6, <3>1, <3>2 DEF RowsOK
  <2> QED BY <2>1, <2>2
<1>8. FileOK'
  BY <1>1, <1>6 DEF FileOK, CnabInv, Fits
<1>9. ReturnedOK'
  BY <1>1, <1>6 DEF ReturnedOK, At, CnabInv
<1> QED BY <1>1, <1>6, <1>7, <1>8, <1>9 DEF CnabInv

(* Every step of the exchange keeps the invariant.                         *)
LEMMA CnabStep == CnabInv /\ [CnabNext]_cnabVars => CnabInv'
<1> SUFFICES ASSUME CnabInv, [CnabNext]_cnabVars PROVE CnabInv'
  OBVIOUS
<1>1. CASE \E w \in HeaderWidths : Open(w)
  BY <1>1, OpenPreserves
<1>2. CASE \E p \in Payments : WritePayment(p)
  BY <1>2, PaymentPreserves
<1>3. CASE WriteTrailers
  BY <1>3, TrailersPreserve
<1>4. CASE \E k \in 1..Len(orders), codes \in Fields : BankAnswers(k, codes)
  BY <1>4, BankPreserves
<1>5. CASE BankSends
  BY <1>5, SendPreserves
<1>6. CASE Decode
  BY <1>6, DecodePreserves
<1>7. CASE UNCHANGED cnabVars
  BY <1>7 DEF cnabVars, CnabInv, FileOK, Fits, ReturnedOK, At, RowsOK
<1> QED BY <1>1, <1>2, <1>3, <1>4, <1>5, <1>6, <1>7 DEF CnabNext

(* In every state of the exchange the remessa, the return and the rows     *)
(* have the shape that the encoder, the bank and Decode give them, whatever*)
(* the payments, their numbers, amounts and unpadded strings.              *)
THEOREM ExchangeInvariant == CnabSpec => []CnabInv
<1>1. CnabInit => CnabInv
  <2> SUFFICES ASSUME CnabInit PROVE CnabInv
    OBVIOUS
  <2>1. IsSeq(<<>>) /\ Len(<<>>) = 0
    BY DEF IsSeq
  <2> QED BY <2>1 DEF CnabInit, CnabInv, FileOK, ReturnedOK, RowsOK
<1> QED BY <1>1, CnabStep, PTL DEF CnabSpec

(* The encoder stops exactly at a string that it was given too long or too *)
(* short and does not pad; what reaches the bank has every order's segment *)
(* B right after its segment A (writeLine, WriteBatchHeader, WriteSegmentB)*)
THEOREM FilesAreWhole == CnabSpec => []RecordsAreWhole
<1>1. CnabInv => RecordsAreWhole
  <2> SUFFICES ASSUME CnabInv PROVE RecordsAreWhole
    OBVIOUS
  <2>1. stage # "open" => (stage = "stopped" <=> ~Fits)
    BY DEF CnabInv, FileOK
  <2>2. ASSUME stage \in {"bank", "decode"}
        PROVE  /\ Len(file) = 2 * Len(orders) + 4
               /\ \A k \in 1..Len(orders) :
                    Segment(file[2 * k + 1], "A", k) /\ Segment(file[2 * k + 2], "B", k)
    BY <2>2 DEF CnabInv, FileOK, Segment, IsOrder, IsB, Line, IsA
  <2> QED BY <2>1, <2>2 DEF RecordsAreWhole
<1> QED BY <1>1, ExchangeInvariant, PTL

(* Decode's rows are the bank's answers in their order, with their batch,  *)
(* sequence, number, amount and codes, and at the end of the file all of   *)
(* them, even if the orders share their numbers.                           *)
THEOREM RowsAnswer == CnabSpec => []RowsAreTheAnswers
<1>1. CnabInv => RowsAreTheAnswers
  <2> SUFFICES ASSUME CnabInv PROVE RowsAreTheAnswers
    OBVIOUS
  <2>1. Len(rows) \in Nat /\ Len(answers) \in Nat
    <3>1. IsSeq(rows) /\ IsSeq(answers)
      BY DEF CnabInv, RowsOK, ReturnedOK
    <3> QED BY <3>1 DEF IsSeq
  <2>2. Len(rows) <= Len(answers)
    BY <2>1 DEF CnabInv, RowsOK
  <2>3. ASSUME Done PROVE Len(rows) = Len(answers)
    <3>1. Len(returned) = 2 * Len(answers) + 2
      BY <2>3 DEF Done, CnabInv, ReturnedOK
    <3> QED BY <2>1, <2>2, <2>3, <3>1 DEF Done, CnabInv, RowsOK
  <2>4. ASSUME NEW i \in 1..Len(rows), NEW k, k = answers[i].order
        PROVE  rows[i] = [batch |-> 1, sequence |-> k % 10^5, ourNumber |-> OurNumber[orders[k]],
                          amount |-> Amount[orders[k]] % AmountCeiling, codes |-> answers[i].codes]
    <3>1. PICK l : l = returned[2 * i]
      OBVIOUS
    <3>2. stage = "decode" /\ rows[i] = ReturnLine(l) /\ i \in 1..Len(answers)
      BY <2>1, <2>2, <3>1 DEF CnabInv, RowsOK
    <3>3. IsAnswer(l, k, orders[k], answers[i].codes)
      BY <2>4, <3>1, <3>2 DEF CnabInv, ReturnedOK, At
    <3> QED BY <3>2, <3>3 DEF ReturnLine, IsAnswer, IsOrder
  <2> QED BY <2>2, <2>3, <2>4 DEF RowsAreTheAnswers
<1> QED BY <1>1, ExchangeInvariant, PTL
=============================================================================
