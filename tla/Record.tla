-------------------------------- MODULE Record --------------------------------
(***************************************************************************)
(* The sessions dsniff saves (record.c): a DB_BTREE file, or memory        *)
(* without -r and -w, of encoded sessions under the MD5 of the addresses,  *)
(* the decoder's name and what it decoded.  Two keys are equal here        *)
(* exactly when these four are: no two sessions share a digest.            *)
(***************************************************************************)
EXTENDS Naturals, FiniteSets

CONSTANT
    TooLong         \* what does not fit the 2048 bytes of record_save's buffer

VARIABLE db         \* the sessions in the file or in memory

\* mutant: the source port is part of the key
KeyWithPort(rec) ==
    [src |-> rec.src, dst |-> rec.dst, sport |-> rec.sport, name |-> rec.name, data |-> rec.data]

\* record_hash
KeyOf(rec) == [src |-> rec.src, dst |-> rec.dst, name |-> rec.name, data |-> rec.data]

\* xdr_rec: whether the session fits the buffer
XdrRec(rec) == rec.data \notin TooLong

\* db->put with R_NOOVERWRITE: a key that is there keeps its session
Put(sessions, rec) ==
    IF \E old \in sessions : KeyOf(old) = KeyOf(rec) THEN sessions ELSE sessions \cup {rec}

\* record and record_save: a session that does not fit is given up silently
RecordSave(sessions, rec) == IF XdrRec(rec) THEN Put(sessions, rec) ELSE sessions

\* record_init at the next start: a file is opened as it was left (no O_TRUNC),
\* without one the sessions were in memory
RecordInit(sessions, opt) == IF opt.write THEN sessions ELSE {}

\* record: the session is printed unless it is to be written
PrintsWhenHeard(opt) == ~opt.read /\ ~opt.write
=============================================================================
