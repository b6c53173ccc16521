-------------------------- MODULE MCServerLookup --------------------------
EXTENDS ServerLookup

Entry(p, d, v) == [key_prefix |-> p, dataset |-> d, version |-> v]

\* The second catalog has a prefix twice; the third replaces a version and adds a
\* dataset whose prefix is a part of a key of the first.
MCEntries ==
    <<<<Entry("a", "da", "v1")>>,
      <<Entry("a", "da", "v2"), Entry("a", "db", "w1")>>,
      <<Entry("a", "da", "v2"), Entry("b", "db", "w1")>>>>

MCKeys == {<<"a", "b", "k">>, <<"?", "k">>, <<"k">>}

AllKeys == MCKeys \union {Tail(k) : k \in MCKeys}

\* Of the dataset da the first version fails on b:k and the second has it; as a
\* snapshot the first has a key that shares the fingerprint of k.
MCAnswer ==
    [v \in {"v1", "v2", "w1"} |-> [k \in AllKeys |->
        CASE v = "v1" /\ k = <<"b", "k">> -> "error"
          [] v = "v1" /\ k = <<"k">> -> "miss_io"
          [] v = "v2" /\ k = <<"b", "k">> -> "hit"
          [] OTHER -> "miss"]]

MCArgs ==
    {[mode |-> "catalog", listeners |-> {"uds", "tcp"}, idle_timeout |-> TRUE],
     [mode |-> "snapshot", listeners |-> {"uds"}, idle_timeout |-> FALSE],
     [mode |-> "catalog", listeners |-> {}, idle_timeout |-> TRUE]}

CONSTANTS c1, c2
MCTransport == [c \in {c1, c2} |-> IF c = c1 THEN "uds" ELSE "tcp"]
=============================================================================
