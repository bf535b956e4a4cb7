------------------------------ MODULE MCReload ------------------------------
(***************************************************************************)
(* Reload for TLC.                                                         *)
(***************************************************************************)
EXTENDS Reload, MCMessages

MCTcpMessages == RuleMessages \cup TcpMessages
MCH3Messages == RuleMessages \cup TcpMessages \cup LbMessages
MCNames == {<<"a">>, <<"b">>, <<"a", "x">>, <<"x", "b">>, <<"x", "a", "x">>}
MCFixedEnv == CHOOSE e \in MCEnvs : H3!load_config(Base, e) /= {}

\* Two labels for four names, one of them too long and one that reads like a
\* fixed label, and configurations that match all, some and one of them.
MCSniNames == {"a", "b", "<other>", "long"}
MCMatches == {MCSniNames, {"a", "b"}, {"<other>"}}
=============================================================================
