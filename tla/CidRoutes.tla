------------------------------ MODULE CidRoutes ------------------------------
(***************************************************************************)
(* CidRoutes (src/src/h3_cid_routes.rs): the connection IDs of the HTTP/3  *)
(* router, kept by length so that a short header costs one lookup for each *)
(* length in use.  by_length maps a length to the map of the IDs of that   *)
(* length.  Every method is an action; `answer' is what it returned.       *)
(***************************************************************************)
EXTENDS Integers, Sequences, FiniteSets

CONSTANTS
  Cids,          \* connection IDs: sequences of bytes, the empty one among them
  Headers,       \* the bytes after the first one of short headers
  Paths,         \* ids of paths
  None           \* no path

VARIABLES by_length, answer

vars == <<by_length, answer>>

\* The lengths a table is keyed with.
Lengths == {Len(cid) : cid \in Cids}

TypeOK ==
  /\ DOMAIN by_length \subseteq Lengths
  /\ \A n \in DOMAIN by_length :
       /\ DOMAIN by_length[n] \subseteq {cid \in Cids : Len(cid) = n}
       /\ \A cid \in DOMAIN by_length[n] : by_length[n][cid] \in Paths

Init == by_length = <<>> /\ answer = None

\* by_length.get(&cid.len())?.get(cid)
Registered(cid) == Len(cid) \in DOMAIN by_length /\ cid \in DOMAIN by_length[Len(cid)]

\* entry(..).or_default(): the map of a length, made empty when it is missing.
OfLength(n) == IF n \in DOMAIN by_length THEN by_length[n] ELSE <<>>

With(map, key, value) ==
  [k \in DOMAIN map \cup {key} |-> IF k = key THEN value ELSE map[k]]

Without(map, key) == [k \in DOMAIN map \ {key} |-> map[k]]

InsertEmpty(cid) ==
  /\ cid = <<>>
  /\ answer' = FALSE
  /\ UNCHANGED by_length

InsertVacant(cid, path) ==
  /\ cid # <<>>
  /\ ~Registered(cid)
  /\ by_length' = With(by_length, Len(cid), With(OfLength(Len(cid)), cid, path))
  /\ answer' = TRUE

InsertOccupied(cid, path) ==
  /\ cid # <<>>
  /\ Registered(cid)
  /\ answer' = (by_length[Len(cid)][cid] = path)
  /\ UNCHANGED by_length

get(cid) ==
  /\ answer' = IF Registered(cid) THEN by_length[Len(cid)][cid] ELSE None
  /\ UNCHANGED by_length

\* Bugs: the length goes with its first ID; an empty map is kept.
ShrunkWhole(n, routes) == Without(by_length, n)
ShrunkNever(n, routes) == With(by_length, n, routes)

\* What is left of the table when the map of a length has become `routes'.
Shrunk(n, routes) ==
  IF DOMAIN routes = {} THEN Without(by_length, n) ELSE With(by_length, n, routes)

remove(cid) ==
  /\ answer' = IF Registered(cid) THEN by_length[Len(cid)][cid] ELSE None
  /\ by_length' = IF Len(cid) \in DOMAIN by_length
                  THEN Shrunk(Len(cid), Without(by_length[Len(cid)], cid))
                  ELSE by_length

\* range(..=bytes.len()).rev().find_map(..): of the lengths whose map holds the
\* header cut to that length, the longest.
Hits(header) ==
  {n \in DOMAIN by_length : n <= Len(header) /\ SubSeq(header, 1, n) \in DOMAIN by_length[n]}

match_prefix(header) ==
  IF Hits(header) = {} THEN None
  ELSE LET n == CHOOSE n \in Hits(header) : \A m \in Hits(header) : m <= n
       IN  by_length[n][SubSeq(header, 1, n)]

Match(header) == answer' = match_prefix(header) /\ UNCHANGED by_length

Next ==
  \/ \E cid \in Cids : InsertEmpty(cid) \/ get(cid) \/ remove(cid)
  \/ \E cid \in Cids, path \in Paths : InsertVacant(cid, path) \/ InsertOccupied(cid, path)
  \/ \E header \in Headers : Match(header)

Spec == Init /\ [][Next]_vars

-----------------------------------------------------------------------------
(* No length stays in the table without an ID of that length: otherwise    *)
(* every length ever seen, and lengths are chosen by peers, would go on    *)
(* costing a lookup for each short header.  Every ID is under its length.  *)
LengthsInUse == TypeOK /\ \A n \in DOMAIN by_length : DOMAIN by_length[n] # {}

-----------------------------------------------------------------------------
\* The table with its lengths forgotten.
Owner ==
  LET registered == UNION {DOMAIN by_length[n] : n \in DOMAIN by_length}
  IN  [cid \in registered |-> by_length[Len(cid)][cid]]

Flat == INSTANCE FlatRoutes WITH owner <- Owner

(* The index by length answers every call of insert, get, remove and       *)
(* match_prefix as the flat table of FlatRoutes would: an owner is kept,   *)
(* and the longest registered prefix wins.                                 *)
AnswersAsFlat == Flat!Spec
=============================================================================
