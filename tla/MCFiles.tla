------------------------------ MODULE MCFiles -------------------------------
(* One file, two clients, a cache of two entries.                          *)
EXTENDS FileServer, TLC

CONSTANTS page, a, b

MCKey == [path: Paths, compression: {"zstd", "br"}, modified: 0 .. MaxTime]
MCData == [version: Version \ {0}, encoding: {"zstd", "br"}]
MCSize == [d \in Data |-> 1]

ClientSymmetry == Permutations(Clients)
=============================================================================
