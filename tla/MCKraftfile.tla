---------------------------- MODULE MCKraftfile -----------------------------
(* Documents of Kraftfile for TLC: one item of any shape, or two of a few. *)
EXTENDS Kraftfile

Single == {<<w>> : w \in Words}
Texts  == {Empty} \cup Single \cup {v \o w : v, w \in {Empty} \cup Single}

TextItems == {[shape |-> "text", text |-> t] : t \in Texts \cup {<<"p", "a", "a">>}}

MapItems(values, names) ==
  {[shape |-> "map", keys |-> [k \in Keys |-> IF k = "name" THEN n ELSE f[k]]]
     : f \in [Keys \ {"name"} -> values], n \in names}

Few == {i \in TextItems : Len(i.text) = 2} \cup {[shape |-> "list"]}
         \cup {i \in MapItems({Empty, <<"p">>}, {Empty, <<"a">>}) :
                 i.keys.platform = Empty /\ i.keys.architecture = Empty}

SomeDocuments ==
  {<<>>}
    \cup {<<i>> : i \in TextItems \cup MapItems({Empty, <<"p", "a">>} \cup Single, {Empty, <<"p">>, <<"p", "a">>})}
    \cup {<<i, j>> : i, j \in Few}

=============================================================================
