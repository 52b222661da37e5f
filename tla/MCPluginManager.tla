---------------------------- MODULE MCPluginManager ----------------------------
(* Instances of PluginManager. *)
EXTENDS PluginManager

CONSTANTS a, b, c

ThreePlugins == {a, b, c}

AtMostOne(S) == {T \in SUBSET S : Cardinality(T) <= 1}

(* Every graph of dependencies between three plugins, cycles included, in     *)
(* which at most one dependency is optional; at most one plugin is broken,    *)
(* not for this platform or switched off.                                    *)
Required == {r \in [Plugin -> SUBSET Plugin] : \A p \in Plugin : p \notin r[p]}
Wrong == {<<x, y, z>> \in AtMostOne(Plugin) \X AtMostOne(Plugin) \X AtMostOne(Plugin) :
            Cardinality(x) + Cardinality(y) + Cardinality(z) <= 1}
Optional(r) == AtMostOne({<<p, d>> \in Plugin \X Plugin : p # d /\ d \notin r[p]})

Described(r, o, w) ==
  [ requires |-> [p \in Plugin |-> IF p \in w[1] THEN {} ELSE r[p]],
    prefers  |-> [p \in Plugin |-> IF p \in w[1] THEN {} ELSE {d \in Plugin : <<p, d>> \in o}],
    broken |-> w[1], absent |-> w[2], settings |-> Plugin \ w[3] ]

Graphs == UNION {{Described(r, o, w) : o \in Optional(r), w \in Wrong} : r \in Required}
=============================================================================
