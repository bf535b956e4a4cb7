------------------------------ MODULE SniLabels ------------------------------
(***************************************************************************)
(* SniLabels: Router::record_sni (sni-router-h3.rs), which counts every    *)
(* ClientHello that is routed under the name it asked for.  Clients choose *)
(* the names and every label lives as long as the process, so that the     *)
(* labels are limited; set_config changes which names count as configured. *)
(***************************************************************************)
EXTENDS Integers, FiniteSets, Functions

CONSTANTS
  Names,         \* names that clients may ask for
  Long,          \* those of them above MAX_SNI_METRIC_LABEL_BYTES
  Missing,       \* a ClientHello without a name, and none of them
  Configs,       \* for each configuration, the names its rules match
  MaxLabels,     \* MAX_SNI_METRIC_LABELS
  MaxHellos      \* bound: ClientHellos that are recorded

VARIABLES
  config,              \* the names that some rule of the configuration matches
  sni_metric_labels,   \* names that have a label
  sni,                 \* the counter of each label that has been used
  hellos               \* history: recorded ClientHellos by name

vars == <<config, sni_metric_labels, sni, hellos>>

Fixed == {"<other>", "<unknown>", "<missing>"}

TypeOK ==
  /\ config \in Configs
  /\ sni_metric_labels \subseteq Names
  /\ DOMAIN sni \subseteq Names \cup Fixed
  /\ hellos \in [Names \cup {Missing} -> 0..MaxHellos]

Init ==
  /\ config \in Configs
  /\ sni_metric_labels = {}
  /\ sni = <<>>
  /\ hellos = [n \in Names \cup {Missing} |-> 0]

\* The limits do not let the name have a label.  Bug: they apply to names that
\* have one already.
RefusedAgain(name) == name \in Long \/ Cardinality(sni_metric_labels) >= MaxLabels
Refused(name) ==
  \/ name \in Long
  \/ name \notin sni_metric_labels /\ Cardinality(sni_metric_labels) >= MaxLabels

Label(name) ==
  CASE name = Missing  -> "<missing>"
    [] name \in config -> IF Refused(name) THEN "<other>" ELSE name
    [] OTHER           -> "<unknown>"

\* The names that get a label, or keep it.
Labelled(name) == IF name \in config /\ ~Refused(name) THEN {name} ELSE {}

record_sni(name) ==
  LET label == Label(name)
      Count(l) == IF l \in DOMAIN sni THEN sni[l] ELSE 0
  IN  /\ hellos[name] < MaxHellos
      /\ sni_metric_labels' = sni_metric_labels \cup Labelled(name)
      /\ sni' = [l \in DOMAIN sni \cup {label} |->
                   IF l = label THEN Count(l) + 1 ELSE Count(l)]
      /\ hellos' = [hellos EXCEPT ![name] = @ + 1]
      /\ UNCHANGED config

\* Which names keep their label in a reload: set_config leaves the set alone.
\* Bug: it forgets the names that are no longer configured.
KeptConfigured(labels, new) == labels \cap new
Kept(labels, new) == labels

set_config(new) ==
  /\ config' = new
  /\ sni_metric_labels' = Kept(sni_metric_labels, new)
  /\ UNCHANGED <<sni, hellos>>

Next ==
  \/ \E name \in Names \cup {Missing} : record_sni(name)
  \/ \E new \in Configs : set_config(new)

Spec == Init /\ [][Next]_vars

-----------------------------------------------------------------------------
(* However many names clients ask for and however often the rules change,  *)
(* the metric has at most MAX_SNI_METRIC_LABELS series and the three fixed *)
(* ones, none for a long name, and no ClientHello goes uncounted.          *)
SeriesBounded ==
  /\ TypeOK
  /\ Cardinality(DOMAIN sni) <= MaxLabels + Cardinality(Fixed)
  /\ DOMAIN sni \cap Long = {}
  /\ SumFunctionOnSet(sni, DOMAIN sni) = SumFunctionOnSet(hellos, Names \cup {Missing})

(* A name that has a series of its own never again counts as <other>: not  *)
(* at the limit, and not after reloads that dropped its rule for a while.  *)
SeriesKept ==
  [][\A n \in (DOMAIN sni \cap Names) \ Fixed :
       (n \in config /\ hellos'[n] > hellos[n]) => sni'[n] = sni[n] + 1]_vars
=============================================================================
