------------------------------ MODULE LogStream ------------------------------
(***************************************************************************)
(* The live log and the classifier's audit trail as a panel follows them:  *)
(* a bounded ring of entries that also hands each one to its subscribers   *)
(* without waiting for them (internal/ringbuf/broadcaster.go), and the     *)
(* event stream that subscribes, replays the ring if asked to and drops    *)
(* what both brought (streamSSE in internal/api/sse.go).                   *)
(*                                                                         *)
(* An entry is its sequence number.  Broadcaster.Clear has no caller in    *)
(* the program and is left out.                                            *)
(***************************************************************************)
EXTENDS Naturals, Sequences, SequencesExt

CONSTANTS
  Readers,     \* the streams
  Capacity,    \* entries in the ring (500 log lines, 200 decisions)
  BufSize,     \* entries in a subscriber's channel (100)
  MaxEntries   \* bound: entries added

ASSUME LogStreamAssumption == /\ Capacity \in Nat \ {0}
                              /\ BufSize \in Nat \ {0}
                              /\ MaxEntries \in Nat

VARIABLES
  seq,     \* the last sequence number given
  ring,    \* the entries kept, oldest first
  reader,  \* reader -> where its handler is, its channel, what it has written
  since,   \* reader -> the first entry it was promised (history variable)
  missed   \* reader -> the entries its full channel refused (history variable)

logVars == <<seq, ring, reader, since, missed>>

Away == [at |-> "away", history |-> FALSE, chan |-> <<>>, replay |-> <<>>, sent |-> <<>>]

LogInit ==
  /\ seq = 0 /\ ring = <<>>
  /\ reader = [r \in Readers |-> Away]
  /\ since = [r \in Readers |-> 0]
  /\ missed = [r \in Readers |-> {}]

Subscribed(r) == reader[r].at \notin {"away", "gone"}

\* Add: number the entry, keep it in place of the oldest one if the ring is
\* full, offer it to every subscriber; all under the lock.
Add ==
  /\ seq < MaxEntries
  /\ seq' = seq + 1
  /\ ring' = Append(IF Len(ring) < Capacity THEN ring ELSE Tail(ring), seq')
  /\ LET takes(r) == Subscribed(r) /\ Len(reader[r].chan) < BufSize
     IN /\ reader' = [r \in Readers |->
             IF takes(r) THEN [reader[r] EXCEPT !.chan = Append(@, seq')] ELSE reader[r]]
        /\ missed' = [r \in Readers |->
             IF Subscribed(r) /\ ~takes(r) THEN missed[r] \cup {seq'} ELSE missed[r]]
  /\ UNCHANGED since

\* (wrong variant: the overlap is not dropped)
WrittenAgain(sent, e) == Append(sent, e)

\* emit: an entry that is not newer than the last one written is skipped.
Written(sent, e) == IF sent # <<>> /\ e <= Last(sent) THEN sent ELSE Append(sent, e)

Subscribe(r) ==
  /\ reader[r].at = "away"
  /\ \E history \in BOOLEAN :
       reader' = [reader EXCEPT ![r].at = "subscribed", ![r].history = history]
  /\ since' = [since EXCEPT ![r] = seq + 1]
  /\ UNCHANGED <<seq, ring, missed>>

\* GetHistory copies the ring under the lock; the copy is written afterwards,
\* entry by entry, as fast as the client takes it.
ReadHistory(r) ==
  /\ reader[r].at = "subscribed"
  /\ IF reader[r].history
     THEN /\ reader' = [reader EXCEPT ![r].at = "replaying", ![r].replay = ring]
          /\ since' = [since EXCEPT ![r] = IF ring = <<>> THEN @ ELSE Head(ring)]
     ELSE /\ reader' = [reader EXCEPT ![r].at = "live"]
          /\ UNCHANGED since
  /\ UNCHANGED <<seq, ring, missed>>

Replay(r) ==
  /\ reader[r].at = "replaying" /\ reader[r].replay # <<>>
  /\ reader' = [reader EXCEPT ![r].sent = Written(@, Head(reader[r].replay)),
                              ![r].replay = Tail(@)]
  /\ UNCHANGED <<seq, ring, since, missed>>

\* (wrong variant: what queued up meanwhile is thrown away as seen)
GoLiveEmpty(r) ==
  /\ reader[r].at = "replaying" /\ reader[r].replay = <<>>
  /\ reader' = [reader EXCEPT ![r].at = "live", ![r].chan = <<>>]
  /\ UNCHANGED <<seq, ring, since, missed>>

GoLive(r) ==
  /\ reader[r].at = "replaying" /\ reader[r].replay = <<>>
  /\ reader' = [reader EXCEPT ![r].at = "live"]
  /\ UNCHANGED <<seq, ring, since, missed>>

Receive(r) ==
  /\ reader[r].at = "live" /\ reader[r].chan # <<>>
  /\ reader' = [reader EXCEPT ![r].sent = Written(@, Head(reader[r].chan)),
                              ![r].chan = Tail(@)]
  /\ UNCHANGED <<seq, ring, since, missed>>

\* The client is gone: cancel takes the subscription back and closes the
\* channel.  It is noticed only between two entries of the live part.
Leave(r) ==
  /\ reader[r].at = "live"
  /\ reader' = [reader EXCEPT ![r].at = "gone", ![r].chan = <<>>]
  /\ UNCHANGED <<seq, ring, since, missed>>

LogStep(r) == Subscribe(r) \/ ReadHistory(r) \/ Replay(r) \/ GoLive(r) \/ Receive(r)

LogNext == Add \/ \E r \in Readers : LogStep(r) \/ Leave(r)

LogSpec == LogInit /\ [][LogNext]_logVars

-----------------------------------------------------------------------------
\* A stream's entries come in order and none comes twice, although the ring
\* and the channel both hold those added while the ring was being replayed
\* (sse.go 34-46).
InOrderOnce ==
  \A r \in Readers : \A i, j \in DOMAIN reader[r].sent :
    i < j => reader[r].sent[i] < reader[r].sent[j]

\* Once live, a stream has a hole only where its own channel was full: every
\* other entry since the oldest of the ring it replayed, or since it
\* subscribed, is written or still queued (sse.go 24-66, broadcaster.go 43-61).
NoHole ==
  \A r \in Readers : reader[r].at = "live" =>
    since[r] .. seq \subseteq
      ToSet(reader[r].sent) \cup ToSet(reader[r].chan) \cup missed[r]

=============================================================================
