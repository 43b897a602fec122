----------------------------- MODULE Snowflake -----------------------------
(***************************************************************************)
(* Snowflake made: hedra/distributed/snowflake/snowflake_generator.py and   *)
(* snowflake.py, with the instance made the services give their generators. *)
(*                                                                         *)
(* An id is timestamp << 22 | instance << 12 | seq.  The widths are        *)
(* parameters, and the id is put together as the shifts and ORs do it: the *)
(* instance is not cut to the ten bits parse() gives it, so the bits it    *)
(* has beyond them are OR-ed into the timestamp.                           *)
(***************************************************************************)
EXTENDS Integers, Sequences, FiniteSets

CONSTANTS
    Generators,
    Instance,       \* the instance id of every generator
    SeqCap,         \* MAX_SEQ + 1, a power of two
    InstanceCap,    \* MAX_INSTANCE + 1, a power of two
    MaxNow,         \* bound on the clock
    MaxIds          \* bound on the made of a generator

ASSUME SnowflakeAssumption ==
    /\ Instance \in [Generators -> Nat]
    /\ SeqCap \in Nat \ {0} /\ InstanceCap \in Nat \ {0}
    /\ MaxNow \in Nat /\ MaxIds \in Nat

VARIABLES
    now,    \* int(time() * 1000)
    ts,     \* _ts
    seq,    \* _seq
    made,    \* the made made by every generator, in order
    times   \* history: the clock when each was made

snowflakeVars == <<now, ts, seq, made, times>>

\* x | y
BitOr(x, y) ==
    LET or[a \in Nat, b \in Nat] ==
            IF b = 0 THEN a
            ELSE 2 * or[a \div 2, b \div 2] + IF 1 \in {a % 2, b % 2} THEN 1 ELSE 0
    IN  IF y = 0 THEN x ELSE or[x, y]

\* The id made at time t with sequence number s.
Id(t, i, s) ==
    BitOr(t, i \div InstanceCap) * (InstanceCap * SeqCap) + (i % InstanceCap) * SeqCap + s

\* Snowflake.parse
Parse(id) ==
    [timestamp |-> id \div (InstanceCap * SeqCap),
     instance |-> (id \div SeqCap) % InstanceCap,
     seq |-> id % SeqCap]

SnowflakeInit ==
    /\ now = 0
    /\ ts = [g \in Generators |-> now]
    /\ seq = [g \in Generators |-> 0]
    /\ made = [g \in Generators |-> <<>>]
    /\ times = [g \in Generators |-> <<>>]

\* The clock of the host goes on, or is set back.
Tick ==
    /\ now' \in 0..MaxNow
    /\ UNCHANGED <<ts, seq, made, times>>

Makes(g) ==
    /\ Len(made[g]) < MaxIds
    /\ ts' = [ts EXCEPT ![g] = now]
    /\ made' = [made EXCEPT ![g] = Append(@, Id(now, Instance[g], seq'[g]))]
    /\ times' = [times EXCEPT ![g] = Append(@, now)]
    /\ UNCHANGED now

\* generate() in the millisecond of the last id.
GenerateInSame(g) ==
    /\ ts[g] = now
    /\ seq[g] # SeqCap - 1
    /\ seq' = [seq EXCEPT ![g] = @ + 1]
    /\ Makes(g)

\* Mutant: a clock set back is not noticed.
GenerateInNextAny(g) ==
    /\ ts[g] # now
    /\ seq' = [seq EXCEPT ![g] = 0]
    /\ Makes(g)

\* In a later one.
GenerateInNext(g) ==
    /\ ts[g] < now
    /\ seq' = [seq EXCEPT ![g] = 0]
    /\ Makes(g)

\* None: the sequence numbers are used up, or the clock was set back.
GenerateNone(g) ==
    /\ ts[g] > now \/ (ts[g] = now /\ seq[g] = SeqCap - 1)
    /\ UNCHANGED snowflakeVars

SnowflakeNext ==
    \/ Tick
    \/ \E g \in Generators : GenerateInSame(g) \/ GenerateInNext(g) \/ GenerateNone(g)

SnowflakeSpec == SnowflakeInit /\ [][SnowflakeNext]_snowflakeVars

-----------------------------------------------------------------------------
\* The variables keep their types; no sequence number reaches the instance bits.
SnowflakeTypeOK ==
    \A g \in Generators :
        /\ ts[g] \in 0..MaxNow
        /\ seq[g] \in 0..(SeqCap - 1)
        /\ \A i \in 1..Len(made[g]) : made[g][i] \in Nat
        /\ Len(times[g]) = Len(made[g])

\* The instance fits in the bits parse() gives it.
Fits(g) == Instance[g] < InstanceCap

\* The made of a generator increase strictly, also when the clock is set back
\* or stands still - as long as the instance fits its ten bits.
IdsIncrease ==
    \A g \in Generators : Fits(g) =>
        \A i, j \in 1..Len(made[g]) : i < j => made[g][i] < made[g][j]

\* Two nodes of different instance made never make the same entry id.
IdsDisjoint ==
    \A g, h \in Generators : Fits(g) /\ Fits(h) /\ Instance[g] # Instance[h] =>
        \A i \in 1..Len(made[g]), j \in 1..Len(made[h]) : made[g][i] # made[h][j]

\* Snowflake.parse gives back the time an id was made at, which is what
\* LogQueue and receive_log_update order entries by.
ParsedTime ==
    \A g \in Generators : Fits(g) =>
        \A i \in 1..Len(made[g]) : Parse(made[g][i]).timestamp = times[g][i]

\* "We can use the Snowflake ID to sort since all records come from the
\* leader" (replication_controller.py, receive_log_update): sorting the made
\* of one generator by their parsed timestamps keeps the order they were
\* made in.
SortableByTimestamp ==
    \A g \in Generators : \A i, j \in 1..Len(made[g]) :
        i < j => Parse(made[g][i]).timestamp <= Parse(made[g][j]).timestamp
=============================================================================
