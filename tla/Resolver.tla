------------------------------- MODULE Resolver ------------------------------
(***************************************************************************)
(* Resolver (src/src/resolver.rs): one DNS resolver for all tasks, behind  *)
(* Arc<RwLock<Arc<TokioResolver>>>, and the task that puts the contents of *)
(* /etc/hosts into it every minute while lookups are under way.            *)
(*                                                                         *)
(* The resolvers are objects with a count of references: the shared one    *)
(* and those that lookups hold.  Arc::make_mut writes to the object itself *)
(* when nobody else holds it and to a copy otherwise.  The contents of the *)
(* hosts file are its version.  Both binaries call start_hosts_reload      *)
(* before the first lookup, so that shared() finds the resolver in every   *)
(* lookup.  Numeric addresses do not reach the resolver.                   *)
(***************************************************************************)
EXTENDS Integers, FiniteSets

CONSTANTS
  Lookups,       \* tasks that call lookup_host, again and again
  MaxVersion     \* bound: how often the hosts file changes

VARIABLES
  file,          \* version of /etc/hosts
  readable,      \* whether it can be opened and read
  hosts,         \* the hosts in each resolver object
  RESOLVER,      \* the object the OnceLock leads to, None before shared()
  reload,        \* the reload task: off, waiting, reading, read, or exited
  loaded,        \* what read_hosts returned
  snap,          \* the object each lookup holds, None outside of lookup_ip
  views,         \* history: the versions the lookup under way has consulted
  published,     \* history: the version last put into the shared resolver
  since          \* history: the version published when the lookup took its snapshot

task == <<reload, loaded>>
lookup == <<snap, views, since>>
vars == <<file, readable, hosts, RESOLVER, task, lookup, published>>

Versions == 0..MaxVersion
Objects == 1..(Cardinality(Lookups) + 2)
None == 0

TypeOK ==
  /\ file \in Versions /\ readable \in BOOLEAN
  /\ hosts \in [Objects -> Versions]
  /\ RESOLVER \in Objects \cup {None}
  /\ reload \in {"off", "waiting", "reading", "read", "exited"}
  /\ loaded \in Versions
  /\ snap \in [Lookups -> Objects \cup {None}]
  /\ views \in [Lookups -> SUBSET Versions]
  /\ published \in Versions /\ since \in [Lookups -> Versions]

Init ==
  /\ file = 1 /\ readable \in BOOLEAN
  /\ hosts = [o \in Objects |-> 0]
  /\ RESOLVER = None
  /\ reload = "off" /\ loaded = 0
  /\ snap = [l \in Lookups |-> None]
  /\ views = [l \in Lookups |-> {}]
  /\ published = 0 /\ since = [l \in Lookups |-> 0]

-----------------------------------------------------------------------------
(* The file system                                                         *)

FileChanges ==
  /\ file < MaxVersion
  /\ file' = file + 1
  /\ UNCHANGED <<readable, hosts, RESOLVER, task, lookup, published>>

FileComesAndGoes ==
  /\ readable' = ~readable
  /\ UNCHANGED <<file, hosts, RESOLVER, task, lookup, published>>

-----------------------------------------------------------------------------
(* start_hosts_reload                                                      *)

\* shared() builds the resolver with the hosts of the moment (none if the file
\* cannot be read), and the task is spawned.
Start ==
  /\ reload = "off"
  /\ RESOLVER' = 1
  /\ hosts' = [hosts EXCEPT ![1] = IF readable THEN file ELSE 0]
  /\ published' = hosts'[1]
  /\ reload' = "waiting"
  /\ UNCHANGED <<file, readable, loaded, lookup>>

\* The system's DNS configuration cannot be read: main returns.
StartFails ==
  /\ reload = "off"
  /\ reload' = "exited"
  /\ UNCHANGED <<file, readable, hosts, RESOLVER, loaded, lookup, published>>

-----------------------------------------------------------------------------
(* The reload task                                                         *)

Tick ==
  /\ reload = "waiting"
  /\ reload' = "reading"
  /\ UNCHANGED <<file, readable, hosts, RESOLVER, loaded, lookup, published>>

ReadHosts ==
  /\ reload = "reading" /\ readable
  /\ loaded' = file
  /\ reload' = "read"
  /\ UNCHANGED <<file, readable, hosts, RESOLVER, lookup, published>>

\* Bug: Hosts::default() is installed when the file cannot be read.
ReadHostsDefault ==
  /\ reload = "reading" /\ ~readable
  /\ loaded' = 0
  /\ reload' = "read"
  /\ UNCHANGED <<file, readable, hosts, RESOLVER, lookup, published>>

\* Bug: an error ends the loop.
ReadHostsEnds ==
  /\ reload = "reading" /\ ~readable
  /\ reload' = "ended"
  /\ UNCHANGED <<file, readable, hosts, RESOLVER, loaded, lookup, published>>

ReadHostsFails ==
  /\ reload = "reading" /\ ~readable
  /\ reload' = "waiting"
  /\ UNCHANGED <<file, readable, hosts, RESOLVER, loaded, lookup, published>>

\* Lookups that hold a resolver object.
Holders(o) == {l \in Lookups : snap[l] = o}

\* Arc::make_mut: the object to write to.  Bug: the shared one, whoever holds it.
MutInPlace(o) == o
MakeMut(o) ==
  IF Holders(o) = {}
  THEN o
  ELSE CHOOSE copy \in Objects : copy # o /\ Holders(copy) = {}

SetHosts ==
  /\ reload = "read"
  /\ RESOLVER' = MakeMut(RESOLVER)
  /\ hosts' = [hosts EXCEPT ![RESOLVER'] = loaded]
  /\ published' = loaded
  /\ reload' = "waiting"
  /\ UNCHANGED <<file, readable, loaded, lookup>>

-----------------------------------------------------------------------------
(* lookup_host                                                             *)

Snapshot(l) ==
  /\ RESOLVER # None /\ snap[l] = None
  /\ snap' = [snap EXCEPT ![l] = RESOLVER]
  /\ since' = [since EXCEPT ![l] = published]
  /\ UNCHANGED <<file, readable, hosts, RESOLVER, task, views, published>>

\* lookup_ip consults the hosts for each query it derives from the name.
Consult(l) ==
  /\ snap[l] # None
  /\ views' = [views EXCEPT ![l] = @ \cup {hosts[snap[l]]}]
  /\ UNCHANGED <<file, readable, hosts, RESOLVER, task, snap, since, published>>

\* The lookup returns, fails or is dropped with the task that awaits it.
Finish(l) ==
  /\ snap[l] # None
  /\ snap' = [snap EXCEPT ![l] = None]
  /\ views' = [views EXCEPT ![l] = {}]
  /\ since' = [since EXCEPT ![l] = 0]
  /\ UNCHANGED <<file, readable, hosts, RESOLVER, task, published>>

Reload == Tick \/ ReadHosts \/ ReadHostsFails \/ SetHosts

Next ==
  \/ FileChanges \/ FileComesAndGoes \/ Start \/ StartFails \/ Reload
  \/ \E l \in Lookups : Snapshot(l) \/ Consult(l) \/ Finish(l)

Spec == Init /\ [][Next]_vars

\* main goes on, the timer fires, the blocking read returns.  A lookup may last
\* for ever: nothing is assumed of it.
FairSpec == Spec /\ WF_vars(Start \/ StartFails) /\ WF_vars(Reload)

-----------------------------------------------------------------------------
(* A lookup sees one version of the hosts from its first query to its      *)
(* last, whatever reload_hosts does meanwhile, and it is the version that  *)
(* was installed when the lookup took its snapshot, not an older one.      *)
OneVersion == TypeOK /\ \A l \in Lookups : views[l] \subseteq {since[l]}

(* A reload that cannot read the file leaves the hosts as they are, and no *)
(* reload goes back to older hosts.                                        *)
HostsKept == [][published' >= published]_vars

(* When the hosts file stays readable, what it says reaches the resolver   *)
(* in the end and stays there, after any number of failed reloads and with *)
(* lookups that never end.                                                 *)
FileReaches ==
  <>[]readable => <>[](reload = "exited" \/ published = file)
=============================================================================
