----------------------------- MODULE FileServer -----------------------------
(***************************************************************************)
(* Static files (dyn_reply, src/http.rs) over the compression cache: what  *)
(* concurrent requests answer while the files under wwwroot are replaced.  *)
(*                                                                         *)
(* A request is suspended at each await, so other requests and file        *)
(* changes come between its stat, its cache lookups, its open and its      *)
(* insert.  Files are replaced by rename: an open file keeps its content,  *)
(* and what happens between the open and the insert touches nothing shared *)
(* and is one step with the insert.                                        *)
(***************************************************************************)
EXTENDS CompressionCache

CONSTANTS
  Paths,         \* files of the served domain
  Clients,       \* HTTP/1.1 connections: each has one request at a time
  Wants,         \* encodings a request may ask for: sets of "zstd", "br"
  Version,       \* contents of a file; 0 for no file
  SECOND,        \* clock ticks in a second, the resolution of an HTTP date
  MaxTime        \* bound: the clock stops here

VARIABLES
  file,          \* file[p]: its content and modification time
  now,           \* the clock that stamps file changes
  st,            \* st[c]: where c's request is suspended, and its locals
  reply,         \* reply[c]: the answer to c's last request
  copy,          \* copy[c]: the file c keeps, with its Last-Modified in
                 \* seconds and, as history, to the tick
  span           \* history: contents the requested file had since the request

fileVars == <<file, now, st, reply, copy, span>>

Idle == [pc |-> "idle"]
NoCopy == [path |-> "none"]
NoReply == [status |-> 0]
secs(t) == t \div SECOND

FileInit ==
  /\ file = [p \in Paths |-> [version |-> 1, modified |-> 0]]
  /\ now = 0
  /\ st = [c \in Clients |-> Idle]
  /\ reply = [c \in Clients |-> NoReply]
  /\ copy = [c \in Clients |-> NoCopy]
  /\ span = [c \in Clients |-> {}]

-----------------------------------------------------------------------------
(* The administrator, external: a file is replaced or removed.             *)
Change(p, v) ==
  /\ v # file[p].version
  /\ now > file[p].modified
  /\ file' = [file EXCEPT ![p] = [version |-> v, modified |-> now]]
  /\ span' = [c \in Clients |-> IF st[c] # Idle /\ st[c].path = p
                                THEN span[c] \cup {v} ELSE span[c]]
  /\ UNCHANGED <<now, st, reply, copy, cache, current_size>>

Clock ==
  /\ now < MaxTime
  /\ now' = now + 1
  /\ UNCHANGED <<file, st, reply, copy, span, cache, current_size>>

-----------------------------------------------------------------------------
(* A request: for a path, accepting some encodings, conditional if c has a *)
(* copy and wishes to revalidate it.  A request for another host is left   *)
(* to the next route and is not modelled further.                          *)
Request(c, p, want, conditional) ==
  /\ st[c] = Idle
  /\ conditional => copy[c] # NoCopy /\ copy[c].path = p
  /\ st' = [st EXCEPT ![c] = [pc |-> "stat", path |-> p, want |-> want,
                              conditional |-> conditional]]
  /\ reply' = [reply EXCEPT ![c] = NoReply]
  /\ span' = [span EXCEPT ![c] = {file[p].version}]
  /\ UNCHANGED <<file, now, copy, cache, current_size>>

Answer(c, r) ==
  /\ reply' = [reply EXCEPT ![c] = r]
  /\ st' = [st EXCEPT ![c] = Idle]

OK(c, version, enc) ==
  /\ Answer(c, [status |-> 200, version |-> version, encoding |-> enc, want |-> st[c].want])
  /\ copy' = [copy EXCEPT ![c] = [path |-> st[c].path, version |-> version,
                                  last_modified |-> secs(st[c].modified),
                                  modified |-> st[c].modified]]

(* tokio::fs::metadata: 404, 304, or on to the cache and the disk.         *)
NotModifiedSwapped(c) ==
  st[c].conditional /\ secs(file[st[c].path].modified) >= copy[c].last_modified
NotModified(c) ==
  st[c].conditional /\ secs(file[st[c].path].modified) <= copy[c].last_modified

Stat(c) ==
  /\ st[c].pc = "stat"
  /\ LET f == file[st[c].path]
         s == st[c]
     IN  IF f.version = 0 THEN Answer(c, [status |-> 404])
         ELSE IF NotModified(c) THEN Answer(c, [status |-> 304, version |-> copy[c].version,
                                                   dated |-> copy[c].modified,
                                                   modified |-> f.modified])
         ELSE /\ st' = [st EXCEPT ![c] =
                          [pc |-> IF "zstd" \in s.want THEN "zstd"
                                  ELSE IF "br" \in s.want THEN "br" ELSE "open",
                           path |-> s.path, want |-> s.want, modified |-> f.modified]]
              /\ UNCHANGED reply
  /\ UNCHANGED <<file, now, copy, span, cache, current_size>>

KeyOf(c, enc) == [path |-> st[c].path, compression |-> enc, modified |-> st[c].modified]

(* cache.write().await.get(..) for zstd, then for br, as far as wanted.    *)
Lookup(c, enc) ==
  /\ st[c].pc = enc
  /\ get(KeyOf(c, enc))
  /\ LET found == Found(KeyOf(c, enc))
     IN  IF found # NoData THEN OK(c, found.version, found.encoding)
         ELSE /\ st' = [st EXCEPT ![c].pc = IF enc = "zstd" /\ "br" \in st[c].want
                                            THEN "br" ELSE "open"]
              /\ UNCHANGED <<reply, copy>>
  /\ UNCHANGED <<file, now, span>>

(* File::open: the file may be gone by now.                                *)
Open(c) ==
  /\ st[c].pc = "open"
  /\ LET v == file[st[c].path].version
     IN  IF v = 0 THEN Answer(c, [status |-> 500])
         ELSE /\ st' = [st EXCEPT ![c] = [pc |-> "read", path |-> st[c].path,
                          want |-> st[c].want, modified |-> st[c].modified, raw |-> v]]
              /\ UNCHANGED reply
  /\ UNCHANGED <<file, now, copy, span, cache, current_size>>

(* read_to_end fails.                                                      *)
ReadFail(c) ==
  /\ st[c].pc = "read"
  /\ Answer(c, [status |-> 500])
  /\ UNCHANGED <<file, now, copy, span, cache, current_size>>

(* Read, compressed (br also if zstd fails) and put into the cache.        *)
Compress(c, enc) ==
  /\ st[c].pc = "read"
  /\ enc \in st[c].want
  /\ insert(KeyOf(c, enc), [version |-> st[c].raw, encoding |-> enc])
  /\ OK(c, st[c].raw, enc)
  /\ UNCHANGED <<file, now, span>>

(* Read; no encoding is wanted, or the compressors failed.                 *)
Plain(c) ==
  /\ st[c].pc = "read"
  /\ OK(c, st[c].raw, "identity")
  /\ UNCHANGED <<file, now, span, cache, current_size>>

Init == CacheInit /\ FileInit

Next ==
  \/ Clock
  \/ \E p \in Paths, v \in Version : Change(p, v)
  \/ \E c \in Clients :
       \/ \E p \in Paths, want \in Wants, b \in BOOLEAN : Request(c, p, want, b)
       \/ Stat(c) \/ Open(c) \/ ReadFail(c) \/ Plain(c)
       \/ \E enc \in {"zstd", "br"} : Lookup(c, enc) \/ Compress(c, enc)

vars == <<fileVars, cache, current_size>>

Spec == Init /\ [][Next]_vars

-----------------------------------------------------------------------------
(* A 200 answer, from the disk or from the cache, carries a content that   *)
(* the file had while the request was served, in an encoding that the      *)
(* client accepts; a 404 means that the file was absent meanwhile.         *)
ServedFresh ==
  \A c \in Clients :
    /\ reply[c].status = 200 =>
         /\ reply[c].version \in span[c]
         /\ reply[c].encoding \in reply[c].want \cup {"identity"}
    /\ reply[c].status = 404 => 0 \in span[c]

(* "304 if the client's cached copy is still current", as far as "HTTP     *)
(* dates have 1-second resolution" allows: the copy that a 304 confirms is *)
(* a content the file had while the request was served, unless the file    *)
(* was changed again in the very second of the copy's Last-Modified.       *)
NotModifiedIsCurrent ==
  \A c \in Clients : reply[c].status = 304 =>
    \/ reply[c].version \in span[c]
    \/ reply[c].dated < reply[c].modified /\ secs(reply[c].dated) = secs(reply[c].modified)
=============================================================================
