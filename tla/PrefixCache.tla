----------------------------- MODULE PrefixCache -----------------------------
(***************************************************************************)
(* GRPromptPrefixCache: cached prefills in LRU order, found through a      *)
(* radix tree over the page-aligned tokens of each namespace.  A node is   *)
(* its namespace and its whole path from the root; its edge is the part of *)
(* the path below its parent.  The prefill itself is named by its key.     *)
(***************************************************************************)
EXTENDS SeqSelect, FiniteSets, SequencesExt, FiniteSetsExt, Functions

CONSTANTS
    Namespace,     \* normalized extra keys
    Prompt,        \* token sequences of the requests
    Config         \* [entries |-> max_entries, tokens |-> max_tokens, page |-> page_size]

ASSUME ConfigAssumption ==
    Config \subseteq [entries : Nat, tokens : Nat, page : Nat \ {0}]
ASSUME PromptAssumption == Prompt \subseteq Seq(Int)

VARIABLES
    entries,       \* keys of the OrderedDict, least recently used first
    tree,          \* [nodes -> source_entry]
    config,        \* max_entries, max_tokens and page_size
    totals,        \* total_tokens and total_tree_tokens
    repaged        \* the last configure changed the page size

\* A history variable, which no step depends on: the keys used (matched or inserted)
\* since the cache was last cleared or configured, in the order of their last use.
VARIABLE recent

prefixVars == <<entries, tree, config, totals, repaged, recent>>

Keys == [ns : Namespace, tokens : Prompt]

Aligned(t, page) == SubSeq(t, 1, (Len(t) \div page) * page)
Common(s, t) == Max({n \in 0 .. Min({Len(s), Len(t)}) : SubSeq(s, 1, n) = SubSeq(t, 1, n)})
CommonPages(s, t, page) == (Common(s, t) \div page) * page
Total(s) ==
    LET sum[n \in 0 .. Len(s)] == IF n = 0 THEN 0 ELSE sum[n - 1] + s[n]
    IN  sum[Len(s)]
Tokens(q) == Total([i \in 1 .. Len(q) |-> Len(q[i].tokens)])
TreeTokens(q, page) == Total([i \in 1 .. Len(q) |-> Len(Aligned(q[i].tokens, page))])
-----------------------------------------------------------------------------
(* The radix tree.                                                         *)

\* Where the walk along t ends: the last node whose path is a prefix of t, and
\* the child of that node, if any, that shares the next page with t.
Reached(tr, ns, t) ==
    LET on == {Len(n.path) : n \in {m \in DOMAIN tr : m.ns = ns /\ IsPrefix(m.path, t)}}
    IN  SubSeq(t, 1, Max(on \cup {0}))
Below(tr, ns, t, page) ==
    LET n == Len(Reached(tr, ns, t))
    IN  {m \in DOMAIN tr : m.ns = ns /\ CommonPages(m.path, t, page) > n}
Child(tr, ns, t, page) == CHOOSE m \in Below(tr, ns, t, page) :
    \A o \in Below(tr, ns, t, page) : Len(m.path) <= Len(o.path)

With(tr, ns, path, k) ==
    [m \in DOMAIN tr \cup {[ns |-> ns, path |-> path]} |->
        IF m.ns = ns /\ m.path = path THEN k ELSE tr[m]]

\* _insert_entry: a new leaf, a node that gets a newer source, or a split.
InsertEntry(tr, k, page) ==
    LET t == Aligned(k.tokens, page)
        c == Child(tr, k.ns, t, page)
        at == SubSeq(t, 1, CommonPages(c.path, t, page))
    IN  IF t = <<>> THEN tr
        ELSE IF t = Reached(tr, k.ns, t) \/ Below(tr, k.ns, t, page) = {}
        THEN With(tr, k.ns, t, k)
        ELSE With(With(tr, k.ns, at, tr[c]), k.ns, t, k)

Rebuild(q, page) ==
    LET built[n \in 0 .. Len(q)] ==
            IF n = 0 THEN << >> ELSE InsertEntry(built[n - 1], q[n], page)
    IN  built[Len(q)]

\* Mutant: the token budget is forgotten.
KeptEntriesOnly(q, total, c) == SubSeq(q, Max({0, Len(q) - c.entries}) + 1, Len(q))

\* _enforce_capacity drops from the old end, and decides on the counter total.
Kept(q, total, c) ==
    LET fits(n) == Len(q) - n <= c.entries /\ total - Tokens(SubSeq(q, 1, n)) <= c.tokens
    IN  SubSeq(q, Min({n \in 0 .. Len(q) : fits(n)}) + 1, Len(q))
Dropped(q, kept) == SubSeq(q, 1, Len(q) - Len(kept))

MoveToEnd(q, k) == Append(Without(q, {k}), k)
-----------------------------------------------------------------------------
(* match.                                                                  *)

NoMatch == [len |-> 0, exact |-> FALSE, source |-> "none"]

Match(ns, t) ==
    LET key == [ns |-> ns, tokens |-> t]
        a == Aligned(t, config.page)
        c == Child(tree, ns, a, config.page)
        n == Reached(tree, ns, a)
    IN  IF Contains(entries, key)
        THEN [len |-> Len(t), exact |-> TRUE, source |-> key]
        ELSE IF Below(tree, ns, a, config.page) # {}
        THEN [len |-> CommonPages(c.path, a, config.page), exact |-> FALSE, source |-> tree[c]]
        ELSE IF n # <<>>
        THEN [len |-> Len(n), exact |-> FALSE, source |-> tree[[ns |-> ns, path |-> n]]]
        ELSE NoMatch

-----------------------------------------------------------------------------
(* Operations.                                                             *)

Init ==
    /\ entries = <<>> /\ tree = << >>
    /\ config \in Config
    /\ totals = [tokens |-> 0, treeTokens |-> 0]
    /\ repaged = FALSE /\ recent = <<>>

UsedLast(k) == recent' = Append(Without(recent, {k}), k)

\* Mutant: a hit leaves its entry where it is.
UseForgets(ns, t) ==
    /\ Match(ns, t) # NoMatch
    /\ UsedLast(Match(ns, t).source)
    /\ UNCHANGED <<entries, tree, config, totals, repaged>>

Use(ns, t) ==
    /\ Match(ns, t) # NoMatch
    /\ entries' = MoveToEnd(entries, Match(ns, t).source)
    /\ UsedLast(Match(ns, t).source)
    /\ UNCHANGED <<tree, config, totals, repaged>>

\* What an entry sequence adds to total_tokens and total_tree_tokens.
Counted(q, page) == [tokens |-> Tokens(q), treeTokens |-> TreeTokens(q, page)]
Plus(n, m) == [f \in DOMAIN n |-> n[f] + m[f]]
Minus(n, m) == [f \in DOMAIN n |-> n[f] - m[f]]

\* Mutant: the replaced entry stays counted.
AddedTwice(k) == Plus(totals, Counted(<<k>>, config.page))

\* The totals once the entry that insert replaces is gone and the new one counted.
Added(k) ==
    IF Contains(entries, k) THEN totals
    ELSE Plus(totals, Counted(<<k>>, config.page))

Insert(ns, t) ==
    LET k == [ns |-> ns, tokens |-> t]
        q == MoveToEnd(entries, k)
        kept == Kept(q, Added(k).tokens, config)
    IN  /\ t # <<>> /\ config.entries > 0 /\ Len(t) <= config.tokens
        /\ entries' = kept
        /\ totals' = Minus(Added(k), Counted(Dropped(q, kept), config.page))
        /\ tree' = Rebuild(kept, config.page)
        /\ repaged' = FALSE
        /\ UsedLast(k)
        /\ UNCHANGED config

\* How many of the keys used are not cached any more.
Older == Len(recent) - Len(entries)

\* configure: another page size realigns every entry and skips the capacity
\* check; otherwise the entries beyond the new capacity are dropped.
Realign(c) ==
    /\ UNCHANGED entries
    /\ totals' = [totals EXCEPT !.treeTokens = TreeTokens(entries, c.page)]
    /\ tree' = Rebuild(entries, c.page)

\* Mutant: the tree is left as it was.
ShrinkStale(c) ==
    LET kept == Kept(entries, totals.tokens, c)
    IN  /\ entries' = kept
        /\ totals' = Minus(totals, Counted(Dropped(entries, kept), c.page))
        /\ UNCHANGED tree

Shrink(c) ==
    LET kept == Kept(entries, totals.tokens, c)
    IN  /\ entries' = kept
        /\ totals' = Minus(totals, Counted(Dropped(entries, kept), c.page))
        /\ tree' = IF kept = entries THEN tree ELSE Rebuild(kept, c.page)

Configure(c) ==
    /\ config' = c
    /\ repaged' = (c.page # config.page)
    /\ recent' = SubSeq(recent, Older + 1, Len(recent))
    /\ \/ c.page # config.page /\ Realign(c)
       \/ c.page = config.page /\ Shrink(c)

Clear ==
    /\ entries' = <<>> /\ tree' = << >> /\ recent' = <<>>
    /\ totals' = [tokens |-> 0, treeTokens |-> 0]
    /\ UNCHANGED <<config, repaged>>

Next ==
    \/ \E ns \in Namespace, t \in Prompt : Use(ns, t) \/ Insert(ns, t)
    \/ \E c \in Config : Configure(c)
    \/ Clear

Spec == Init /\ [][Next]_prefixVars
-----------------------------------------------------------------------------
(* Properties.                                                             *)

\* What a match is to return, from the entries alone: the whole prompt when it is
\* cached in its namespace, else the most whole pages shared with an entry there.
LongestShared(ns, t) ==
    IF Contains(entries, [ns |-> ns, tokens |-> t]) THEN Len(t)
    ELSE Max({0} \cup {CommonPages(k.tokens, Aligned(t, config.page), config.page) :
                         k \in {e \in Range(entries) : e.ns = ns}})

\* The radix walk finds the longest shared prefix, and the entry it returns is
\* cached, of the same namespace, and really has that prefix.
MatchIsLongest ==
    \A ns \in Namespace, t \in Prompt :
        LET m == Match(ns, t)
        IN  /\ m.len = LongestShared(ns, t)
            /\ m # NoMatch => /\ m.source \in Range(entries) /\ m.source.ns = ns
                              /\ Common(m.source.tokens, t) >= m.len

\* The counters that capacity is decided on are the sums over the entries.
TotalsMatch == totals = Counted(entries, config.page)

\* LRU-bounded: the cache holds no more than its limits, except after a
\* configure that also changed the page size, until the next insert or configure.
Fits(q) == Len(q) <= config.entries /\ Tokens(q) <= config.tokens
WithinLimits == repaged \/ Fits(entries)

\* Least recently used (the move_to_end of a hit and of an insert, and the drops of
\* _enforce_capacity): the entries are the keys used last, in the order of their last
\* use, and as many of them as fit: with the next older one they would exceed a limit.
\* A configure starts over from the entries it finds.
KeepsTheNewest ==
    /\ IsSuffix(entries, recent)
    /\ repaged => Older = 0
    /\ Older > 0 => ~ Fits(<<recent[Older]>> \o entries)
=============================================================================
