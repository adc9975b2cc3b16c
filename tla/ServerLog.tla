----------------------------- MODULE ServerLog -----------------------------
(***************************************************************************)
(* The log of one server (src/server/log.rs): a vector of entries, each    *)
(* carrying its own index and the term in which a leader received it.  The *)
(* code looks entries up by the index they carry, never by their position, *)
(* and so do these operators.                                              *)
(***************************************************************************)
EXTENDS Integers, Sequences

\* ServerLogEntry.  A command is identified by the client request it came in.
LogEntry(index, term, command) ==
    [index |-> index, term |-> term, command |-> command]

LogEntries(Command) == [index : Nat, term : Nat, command : Command]

HasIndex(entries, i) == \E k \in DOMAIN entries : entries[k].index = i

\* The position of the first entry that carries index i.
PositionOf(entries, i) ==
    CHOOSE k \in DOMAIN entries :
        /\ entries[k].index = i
        /\ \A j \in 1 .. k - 1 : entries[j].index # i

\* ServerLog::last, mapped to the index of the entry or to the caller's default.
LastIndexOr(entries, default) ==
    IF entries = <<>> THEN default ELSE entries[Len(entries)].index

LastIndex(entries) == LastIndexOr(entries, 0)

\* ServerLog::entries_from: the entries from the one that carries index i on,
\* none when no entry does.
EntriesFrom(entries, i) ==
    IF HasIndex(entries, i)
    THEN SubSeq(entries, PositionOf(entries, i), Len(entries))
    ELSE <<>>

\* ServerLog::find with the matcher of the follower's consistency check.
Holds(entries, index, term) ==
    \E k \in DOMAIN entries :
        entries[k].index = index /\ entries[k].term = term

\* A variant with a bug: the new entry takes the index of the last one.
AppendAtLast(entries, term, command) ==
    Append(entries, LogEntry(LastIndex(entries), term, command))

\* ServerLog::append_cmd with the index Server::append_to_log computes.
AppendCommand(entries, term, command) ==
    Append(entries, LogEntry(LastIndex(entries) + 1, term, command))
=============================================================================
