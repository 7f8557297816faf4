----------------------------- MODULE MlesHeader -----------------------------
(***************************************************************************)
(* The Mles protocol header (src/types.rs) and its authentication          *)
(* (src/auth.rs).  SipHash is external: a hash is represented by what it   *)
(* is computed from, so two are equal exactly when their inputs are (no    *)
(* collisions, and none is the number 0 that websocket.rs uses for "not    *)
(* connected").  The digest of an auth is computed from the bytes of uid,  *)
(* channel and secret with nothing between them: names that run together   *)
(* to the same bytes have the same digest.                                 *)
(***************************************************************************)
CONSTANTS
  Uids, Channels,   \* user and channel names (non-empty ASCII strings)
  Keys,             \* secrets a client may have computed its auth with
  MLES_KEY,         \* the server's environment variable, or NoKey if unset
  NoKey,            \* the digest of (uid, channel) alone uses this "secret"
  Bytes,            \* what a digest may be computed from
  concat,           \* concat[<<uid, channel, secret>>]: their bytes, run together
  Spellings,        \* ways to write the same u64 in hexadecimal
  Malformed,        \* a first frame that is not a header
  NoAuth            \* the header's auth field is absent (None)

(* The auth string: which u64 it parses to, and how it is spelled.  A      *)
(* string that does not parse is one with a digest nobody expects.         *)
Auth == [digest: Bytes, spelling: Spellings]

Header == [uid: Uids, channel: Channels, auth: Auth \cup {NoAuth}]

ASSUME HeaderAssumption ==
  /\ MLES_KEY \in Keys \cup {NoKey}
  /\ concat \in [Uids \X Channels \X (Keys \cup {NoKey}) -> Bytes]
  /\ NoAuth \notin Auth
  /\ Malformed \notin Header

(* derive(Hash) on MlesHeader hashes uid, channel and the auth option, the *)
(* auth as the string it is, not as the number it parses to.               *)
HashHeaderNoAuth(hdr) == [hdr EXCEPT !.auth = NoAuth]
HashHeader(hdr) == hdr

(* verify_auth: with MLES_KEY set an auth is required; without it, an auth *)
(* that is present must still be the digest of (uid, channel).             *)
verify_auth(hdr) ==
  IF hdr.auth = NoAuth
  THEN MLES_KEY = NoKey
  ELSE hdr.auth.digest = concat[<<hdr.uid, hdr.channel, MLES_KEY>>]
=============================================================================
