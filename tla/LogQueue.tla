------------------------------ MODULE LogQueue ------------------------------
(***************************************************************************)
(* The replicated log of one node: hedra/distributed/replication/          *)
(* log_queue.py, driven as replication_controller.py drives it.            *)
(*                                                                         *)
(* logs and _timestamps change together and hold the same entries, so one  *)
(* sequence stands for both, and size is its length.  An entry is its      *)
(* Snowflake id (milliseconds and sequence number) and its term; key and   *)
(* value are never looked at.  update() runs without an await; its loop is *)
(* one step per entry here, and no other operation comes between them.     *)
(***************************************************************************)
EXTENDS Integers, Sequences, FiniteSets, SequencesExt

CONSTANTS
    Timestamps,     \* Snowflake timestamps, in milliseconds
    Seqs,           \* Snowflake sequence numbers
    Terms,
    PruneMaxAge,    \* MERCURY_SYNC_RAFT_LOGS_PRUNE_MAX_AGE, in seconds
    PruneMaxCount,  \* MERCURY_SYNC_RAFT_LOGS_PRUNE_MAX_COUNT
    MsPerSecond,
    Forwarding,     \* batches forwarded by followers, which nobody sorts
    MaxBatch,       \* bound on the entries of one update
    MaxUpdates,     \* bound on the calls of update()
    MaxCommits,     \* bound on _commits
    MaxNow          \* bound on the clock

ASSUME LogAssumption ==
    /\ Timestamps \subseteq Nat \ {0} /\ Seqs \subseteq Nat /\ Terms \subseteq Nat
    /\ PruneMaxAge \in Nat /\ PruneMaxCount \in Nat /\ MsPerSecond \in Nat \ {0}
    /\ Forwarding \in BOOLEAN
    /\ MaxBatch \in Nat /\ MaxUpdates \in Nat /\ MaxCommits \in Nat /\ MaxNow \in Nat

VARIABLES
    logs,      \* logs and _timestamps
    index,     \* timestamp_index_map, positions counted from 0
    commits,   \* _commits
    term,      \* _term
    incoming,  \* the entries update() has still to go through
    filling,   \* update() found an empty log
    updates,   \* calls of update() so far
    now,       \* time.time(), in milliseconds
    repeated,  \* history: a timestamp came again while it was in the log
    pruned     \* history: prune() removed entries

queueVars == <<logs, index, commits, term>>
clockVars == <<updates, now, repeated, pruned>>
vars == <<queueVars, incoming, filling, clockVars>>

Entries == [ts : Timestamps, seq : Seqs, term : Terms]

TsOf(s) == {s[i].ts : i \in 1..Len(s)}

SortedByTs(s) == \A i, j \in 1..Len(s) : i < j => s[i].ts <= s[j].ts

Distinct(s) == \A i, j \in 1..Len(s) : i # j => s[i].ts # s[j].ts

(***************************************************************************)
(* The batches update() gets: receive_log_update sorts what it received;   *)
(* the leader's own entries are generated in order; entries forwarded to   *)
(* the leader arrive in any order, with ids of another node's clock.       *)
(***************************************************************************)
Batches ==
    {b \in UNION {[1..n -> Entries] : n \in 1..MaxBatch} :
        /\ Forwarding \/ SortedByTs(b)
        /\ IsInjective(b)}

Init ==
    /\ logs = <<>>
    /\ index = [t \in {} |-> 0]
    /\ commits = <<>>
    /\ term = 0
    /\ incoming = <<>>
    /\ filling = FALSE
    /\ updates = 0
    /\ now = 0
    /\ repeated = FALSE
    /\ pruned = FALSE

-----------------------------------------------------------------------------
(* update() *)

\* The term check; a batch of an older term is refused with an
\* InvalidTermError and changes nothing.
Update(batch) ==
    /\ incoming = <<>>
    /\ updates < MaxUpdates
    /\ updates' = updates + 1
    /\ repeated' = (repeated \/ ~Distinct(batch) \/ TsOf(batch) \cap TsOf(logs) # {})
    /\ Last(batch).term >= term
    /\ term' = Last(batch).term
    /\ incoming' = batch
    /\ filling' = (logs = <<>>)
    /\ UNCHANGED <<logs, index, commits, now, pruned>>

Entry == Head(incoming)

SetIndex(t, i) == [u \in DOMAIN index \cup {t} |-> IF u = t THEN i ELSE index[u]]

NextEntry ==
    /\ incoming' = Tail(incoming)
    /\ filling' = (filling /\ Len(incoming) > 1)
    /\ UNCHANGED <<term, commits, clockVars>>

\* An exception leaves the loop.
Raise == incoming' = <<>> /\ UNCHANGED <<logs, term, commits, filling, clockVars>>

\* Mutant: the position of the new entry is one short.
AddLastShort ==
    /\ logs' = Append(logs, Entry)
    /\ index' = SetIndex(Entry.ts, Len(logs) - 1)
    /\ NextEntry

AddLast ==
    /\ logs' = Append(logs, Entry)
    /\ index' = SetIndex(Entry.ts, Len(logs))
    /\ NextEntry

\* The loop for an empty log: the whole batch as it came.
FillEntry ==
    /\ incoming # <<>> /\ filling
    /\ AddLast

\* "We've received entries to append"
AppendEntry ==
    /\ incoming # <<>> /\ ~filling
    /\ Entry.ts > Last(logs).ts
    /\ AddLast

\* Mutant: the entry goes in before the last earlier one.
InsertsAtEarly(i) ==
    /\ \A j \in 1..Len(logs) : logs[j].ts < Entry.ts => j <= i + 1
    /\ i > 0 => logs[i + 1].ts < Entry.ts

\* "The insert index is at the index of last timestamp less than the entry
\* timestamp + 1", counted from 0; 0 when there is none.
InsertsAt(i) ==
    /\ \A j \in 1..Len(logs) : logs[j].ts < Entry.ts => j <= i
    /\ i > 0 => logs[i].ts < Entry.ts

\* Mutant: every position in the map is incremented.
ShiftedAll(i, n) ==
    LET idx == SetIndex(Entry.ts, i)
    IN  [t \in DOMAIN idx |-> IF n = 0 \/ t = Entry.ts THEN idx[t] ELSE idx[t] + 1]

\* How often timestamp t occurs in positions a to b of the log.
Occurrences(t, a, b) == Cardinality({j \in a..b : logs[j].ts = t})

\* The map once the positions of the first n entries from position i on were
\* incremented, one by one.
Shifted(i, n) ==
    LET idx == SetIndex(Entry.ts, i)
    IN  [t \in DOMAIN idx |-> idx[t] + Occurrences(t, i + 1, i + n)]

\* The positions behind the insertion whose timestamp the map has lost.
Unmapped(i) ==
    {j \in (i + 1)..Len(logs) : logs[j].ts \notin DOMAIN index \cup {Entry.ts}}

\* "We've received a missing entry so insert it in order.."
InsertEntry ==
    /\ incoming # <<>> /\ ~filling
    /\ Entry.ts < Last(logs).ts
    /\ \E i \in 0..(Len(logs) - 1) :
        /\ InsertsAt(i)
        /\ Unmapped(i) = {}
        /\ logs' = InsertAt(logs, i + 1, Entry)
        /\ index' = Shifted(i, Len(logs) - i)
    /\ NextEntry

\* timestamp_index_map[timestamp] += 1 raises KeyError half way.
InsertRaises ==
    /\ incoming # <<>> /\ ~filling
    /\ Entry.ts < Last(logs).ts
    /\ \E i \in 0..(Len(logs) - 1) :
        /\ InsertsAt(i)
        /\ \E j \in Unmapped(i) :
            /\ \A k \in Unmapped(i) : j <= k
            /\ index' = Shifted(i, j - i - 1)
    /\ Raise

Replaceable == Entry.ts \in DOMAIN index /\ index[Entry.ts] < Len(logs)

\* "We've receive an entry to replace."
ReplaceEntry ==
    /\ incoming # <<>> /\ ~filling
    /\ Entry.ts = Last(logs).ts
    /\ Replaceable
    /\ logs' = [logs EXCEPT ![index[Entry.ts] + 1] = Entry]
    /\ NextEntry
    /\ UNCHANGED index

\* The map has lost the last entry (KeyError) or points behind the log
\* (IndexError).
ReplaceRaises ==
    /\ incoming # <<>> /\ ~filling
    /\ Entry.ts = Last(logs).ts
    /\ ~Replaceable
    /\ Raise
    /\ UNCHANGED index

-----------------------------------------------------------------------------
(* The other operations *)

\* commit(), which _submit_logs_to_members calls once the members answered.
Commit ==
    /\ incoming = <<>>
    /\ logs # <<>>
    /\ Len(commits) < MaxCommits
    /\ commits' = Append(commits, Last(logs).ts)
    /\ UNCHANGED <<logs, index, term, incoming, filling, clockVars>>

\* latest(): what the leader sends to its members.
LatestIndex == IF commits = <<>> THEN 0 ELSE index[Last(commits)]

Latest == SubSeq(logs, LatestIndex + 1, Len(logs))

\* Entries prune() finds older than _prune_max_age, which is in seconds
\* while the timestamps are in milliseconds.
OldEntries == Cardinality({i \in 1..Len(logs) : now - logs[i].ts > PruneMaxAge})

PruneCount == IF OldEntries > PruneMaxCount THEN PruneMaxCount ELSE OldEntries

PruneAll ==
    /\ incoming = <<>>
    /\ PruneCount >= Len(logs)
    /\ logs' = <<>>
    /\ index' = [t \in {} |-> 0]
    /\ commits' = <<>>
    /\ pruned' = (pruned \/ logs # <<>>)
    /\ UNCHANGED <<term, incoming, filling, updates, now, repeated>>

\* The commits prune() keeps, in their order.
KeptCommits(first) ==
    LET kept == {i \in 1..Len(commits) : commits[i] > first}
        Rank(i) == Cardinality({k \in kept : k <= i})
    IN  [j \in 1..Cardinality(kept) |-> commits[CHOOSE i \in kept : Rank(i) = j]]

\* The oldest entries go; `if self.timestamp_index_map.get(timestamp)` spares
\* a timestamp at position 0, and the positions of the rest do not move.
PruneSome ==
    /\ incoming = <<>>
    /\ PruneCount < Len(logs)
    /\ logs' = SubSeq(logs, PruneCount + 1, Len(logs))
    /\ index' = Restrict(index, {t \in DOMAIN index :
                    ~(t \in TsOf(SubSeq(logs, 1, PruneCount)) /\ index[t] # 0)})
    /\ commits' = KeptCommits(logs[PruneCount + 1].ts)
    /\ pruned' = (pruned \/ PruneCount > 0)
    /\ UNCHANGED <<term, incoming, filling, updates, now, repeated>>

Tick ==
    /\ incoming = <<>>
    /\ now < MaxNow
    /\ now' = now + 1
    /\ UNCHANGED <<queueVars, incoming, filling, updates, repeated, pruned>>

Next ==
    \/ \E b \in Batches : Update(b)
    \/ FillEntry
    \/ AppendEntry
    \/ InsertEntry
    \/ InsertRaises
    \/ ReplaceEntry
    \/ ReplaceRaises
    \/ Commit
    \/ PruneAll
    \/ PruneSome
    \/ Tick

Spec == Init /\ [][Next]_vars

-----------------------------------------------------------------------------
\* The variables keep their types: in particular the map holds only
\* timestamps of entries and positions.
TypeOK ==
    /\ logs \in Seq(Entries)
    /\ DOMAIN index \subseteq Timestamps
    /\ \A t \in DOMAIN index : index[t] \in Nat
    /\ commits \in Seq(Timestamps)
    /\ term \in {0} \cup Terms
    /\ incoming \in Seq(Entries)
    /\ filling \in BOOLEAN
    /\ updates \in Nat /\ now \in Nat
    /\ repeated \in BOOLEAN /\ pruned \in BOOLEAN

\* The log stays in timestamp order, whatever is delivered twice or late and
\* although prune() leaves stale positions in the map: a stale position is
\* never one update() overwrites.
SortedLogs == SortedByTs(logs)

\* latest() finds the last commit in the map, if no two entries share a
\* timestamp: a commit outlives the pruning of the log only while its entry
\* is still there and has a position.
LatestDefined == ~repeated /\ commits # <<>> => Last(commits) \in DOMAIN index

\* An update never takes an entry out of the log: what it overwrites has the
\* same timestamp.
UpdateKeepsEntries == [][incoming # <<>> => TsOf(logs) \subseteq TsOf(logs')]_vars

\* With nothing delivered twice and nothing pruned, latest() has every entry
\* later than the last commit: those the members have not got.
UncommittedInLatest ==
    ~repeated /\ ~pruned /\ incoming = <<>> /\ commits # <<>> =>
        \A i \in 1..Len(logs) : logs[i].ts > Last(commits) => logs[i] \in ToSet(Latest)

\* update() inserts "a missing entry" (log_queue.py:123): no entry is in the
\* log twice.
NoDuplicateEntries == \A i, j \in 1..Len(logs) : i # j => logs[i] # logs[j]

\* prune() removes entries "older than our max prune age" (log_queue.py:196).
PrunedAreOld ==
    [][incoming = <<>> => \A i \in 1..Len(logs) :
        logs[i] \notin ToSet(logs') => now - logs[i].ts > PruneMaxAge * MsPerSecond]_vars
=============================================================================
