-------------------------- MODULE MCIntegrityJobs --------------------------
(* A game of two files, two contents with the same CRC32, and two DATs: one *)
(* entry is of the first content, one of both, and one is skipped.          *)
EXTENDS IntegrityJobs

MCFileOrder == <<"f1", "f2">>
MCOwner == [f1 |-> "g1", f2 |-> "g1"]
MCDigests == [a |-> [crc32 |-> "c", sha1 |-> "a"], b |-> [crc32 |-> "c", sha1 |-> "b"]]
MCEntries == [d1 |-> {"e1", "e3"}, d2 |-> {"e2"}]
MCDeclares == [e1 |-> [crc32 |-> "c", sha1 |-> "a"],
               e2 |-> [crc32 |-> "c", sha1 |-> "malformed"],
               e3 |-> [sha1 |-> "malformed"]]
=============================================================================
