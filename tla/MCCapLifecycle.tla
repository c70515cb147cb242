-------------------------- MODULE MCCapLifecycle --------------------------
EXTENDS CapLifecycle, Sequences

\* Every graph in which a message references some with smaller identifiers,
\* sent in that order or with a clock that runs back; a message without
\* references is a warning, and the last one may be a cancellation.
Graphs(n) ==
  {r \in [1..n -> SUBSET (1..n)] : \A m \in 1..n : r[m] \subseteq 1..(m - 1)}

FeedOf(n, sent, r, last) ==
  [m \in 1..n |-> [sent |-> sent[m], refs |-> r[m],
                   type |-> IF r[m] = {} THEN "alert"
                            ELSE IF m = n THEN last ELSE "update"]]

\* Series of updates that reference the first message and some later ones,
\* the kind that is renumbered most, and a second warning merged late.
Series == {<<{}, {1}, {1, 2}, {1, 3}>>, <<{}, {}, {1}, {1, 2}>>}

Feeds4 == {FeedOf(4, s, r, last) :
             s \in {<<1, 2, 3, 4>>, <<1, 3, 2, 3>>},
             r \in {g \in Graphs(4) : \A m \in 1..4 : Cardinality(g[m]) <= 2},
             last \in {"update", "cancel"}}

\* Two lifecycles that begin with messages 1 and 2, a chain and a star.
Trees == {g \in Graphs(4) : g[2] = {} /\ Cardinality(g[3]) = 1 /\ Cardinality(g[4]) = 1}
         \cup {<<{}, {1}, {2}, {3}>>, <<{}, {1}, {1}, {1}>>}

\* The series, and the trees with a clock that runs back.
CapFeeds == {FeedOf(4, <<1, 2, 3, 4>>, r, last) : r \in Series, last \in {"update", "cancel"}}
            \cup {FeedOf(4, <<1, 3, 2, 3>>, r, "update") : r \in Trees}

=============================================================================
