---------------------------- MODULE MCSkillBroker ----------------------------
(* A managed agent a1 with two versions of its entry, one of agents.yaml, and *)
(* c1, a name that safeFileName turns into b1.  One skill: each is discovered, *)
(* registered and dropped by itself.                                          *)
EXTENDS SkillBroker, TLC

CONSTANTS a1, b1, c1, e1, e2, e3, e4, s

Names == [e \in Entry |-> CASE e = e3 -> b1 [] e = e4 -> c1 [] OTHER -> a1]
Blocks == [e \in Entry |-> IF e = e1 THEN {s} ELSE {}]
Offers == [e \in Entry |-> IF e \in {e1, e2} THEN {s} ELSE {}]
AgentsYaml == [x \in Agent |-> IF x = b1 THEN e3 ELSE None]
FileNames == [x \in Agent |-> IF x = c1 THEN b1 ELSE x]
AgentsYamlEmpty == [x \in Agent |-> None]
==============================================================================
