----------------------------- MODULE FlatRoutes ------------------------------
(***************************************************************************)
(* FlatRoutes: what the table of connection IDs promises to the router.    *)
(* One flat map from connection IDs to the path that owns each; an owner   *)
(* is never replaced, an empty ID is never taken, and a short header is    *)
(* matched by the longest registered ID it starts with.  H3Router uses its *)
(* routes in this way.                                                     *)
(***************************************************************************)
EXTENDS Integers, Sequences, SequencesExt

CONSTANTS
  Cids,          \* connection IDs: sequences of bytes, the empty one among them
  Headers,       \* the bytes after the first one of short headers
  Paths,         \* ids of paths
  None           \* no path

VARIABLES
  owner,         \* the path of each registered ID
  answer         \* what the last call returned

vars == <<owner, answer>>

Init == owner = <<>> /\ answer = None

Register(cid, path) ==
  LET free  == cid # <<>> /\ cid \notin DOMAIN owner
      taken == cid \in DOMAIN owner /\ owner[cid] = path
  IN  /\ owner' = IF free
                  THEN [c \in DOMAIN owner \cup {cid} |-> IF c = cid THEN path ELSE owner[c]]
                  ELSE owner
      /\ answer' = (free \/ taken)

Unregister(cid) ==
  /\ owner' = [c \in DOMAIN owner \ {cid} |-> owner[c]]
  /\ answer' = IF cid \in DOMAIN owner THEN owner[cid] ELSE None

Lookup(cid) ==
  /\ answer' = IF cid \in DOMAIN owner THEN owner[cid] ELSE None
  /\ UNCHANGED owner

\* The registered IDs that the header starts with.
Candidates(header) == {c \in DOMAIN owner : IsPrefix(c, header)}

Match(header) ==
  /\ \/ Candidates(header) = {} /\ answer' = None
     \/ \E c \in Candidates(header) :
          /\ \A other \in Candidates(header) : Len(other) <= Len(c)
          /\ answer' = owner[c]
  /\ UNCHANGED owner

Next ==
  \/ \E cid \in Cids, path \in Paths : Register(cid, path)
  \/ \E cid \in Cids : Unregister(cid) \/ Lookup(cid)
  \/ \E header \in Headers : Match(header)

Spec == Init /\ [][Next]_vars
=============================================================================
