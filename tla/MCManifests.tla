----------------------------- MODULE MCManifests -----------------------------
(* Small instances of Manifests for TLC. *)
EXTENDS Manifests, TLC

CONSTANTS a1, a2, v1, v2, c1, c2

MCArtifacts == {a1, a2}
MCVersions == {v1, v2}
MCClients == {c1, c2}
NoSlots == [s \in {} |-> {}]
BothSlots == [s \in SlotNames |-> IF s = "blue" THEN {1} ELSE {2}]

\* A plain single-slot manifest, and a blue-green one.
Single(a, v) ==
  [app |-> "this", sound |-> TRUE, artifact |-> a, version |-> v, strategy |-> "unwritten",
   explicit |-> FALSE, strip |-> 0, fileName |-> FALSE, argv |-> "absolute", ports |-> {1}, slots |-> NoSlots,
   env |-> {"A"}, slotEnv |-> {}, secretEnv |-> {}, readiness |-> "tcp", slotReadiness |-> "",
   successes |-> 0, unitName |-> FALSE, restart |-> "", keepLast |-> 0, listen |-> 0,
   observe |-> Unwritten]

Double(a, v) ==
  [Single(a, v) EXCEPT !.ports = {}, !.slots = BothSlots, !.readiness = "",
                       !.slotReadiness = "tcp", !.listen = 3, !.slotEnv = {"B"}]

\* Each differs from the plain ones in what one or two rules look at.
Around(a, v) ==
  LET s == Single(a, v)  d == Double(a, v)
  IN {s, d, [s EXCEPT !.fileName = TRUE], [s EXCEPT !.strategy = "tar", !.strip = 1],
      [s EXCEPT !.strategy = "none", !.argv = "inside"], [d EXCEPT !.observe = 0],
      \* refused somewhere
      [s EXCEPT !.app = "other"], [s EXCEPT !.restart = "bogus"], [s EXCEPT !.strip = 1],
      [s EXCEPT !.argv = "escaping"], [s EXCEPT !.secretEnv = {"A"}], [s EXCEPT !.listen = 3],
      [d EXCEPT !.unitName = TRUE], [d EXCEPT !.listen = 1], [d EXCEPT !.ports = {4}],
      [d EXCEPT !.secretEnv = {"B"}], [d EXCEPT !.slots["green"] = {1}]}

MCDocuments == UNION {Around(a, v) : a \in MCArtifacts, v \in MCVersions}

MCSymmetry == Permutations(MCClients) \union Permutations(MCArtifacts) \union Permutations(MCVersions)
=============================================================================
