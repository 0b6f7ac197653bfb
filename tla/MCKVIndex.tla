----------------------------- MODULE MCKVIndex -----------------------------
\* Two pods and three prompts: two of two blocks that share the first, one of
\* that first block under a salt; one token does not fill a block.  The engine
\* hashes of two chains collide.
EXTENDS KVIndex

MCPrompts == {[salt |-> "", tokens |-> <<1, 1, 2, 2, 3>>],
              [salt |-> "", tokens |-> <<1, 1, 3, 3>>],
              [salt |-> "s", tokens |-> <<1, 1>>]}

MCHash(chain) ==
  LET last == chain[Len(chain)].tokens[1]
  IN  IF chain[1].extra = "s" THEN 3 ELSE last

Symmetry == Permutations(Pods)
=============================================================================
