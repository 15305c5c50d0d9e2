---------------------------- MODULE AhoCorasick ----------------------------
(***************************************************************************)
(* The Aho-Corasick trie of src/datastructure/ahocorasick_v2.go.           *)
(*                                                                         *)
(* The trie is an arena of nodes 0..MaxNodes-1 (node 0 is the root made   *)
(* by newTrie); a pointer is a node number and nil is Nil.  A node that    *)
(* is not yet allocated holds the values newTrieNode gives a fresh node,   *)
(* so allocating node `size` only moves the `size` counter.                *)
(*                                                                         *)
(* The caller drives the package-private API in the documented order:      *)
(* addPattern any number of times, buildFailureLinks, then any number of   *)
(* searches.  MaxBuilds > 1 lets the caller call buildFailureLinks again,  *)
(* which nothing in the code prevents.                                     *)
(*                                                                         *)
(* A rune is a member of Sym; a pattern or a text is the sequence of runes *)
(* its `for _, ch := range` loop yields.                                   *)
(***************************************************************************)
EXTENDS Naturals, Sequences, FiniteSets, SequencesExt

CONSTANTS
  Sym,          \* the runes patterns and texts are made of
  Words,        \* the patterns a caller may pass to addPattern
  Texts,        \* the texts a caller may pass to search
  MaxPatterns,  \* bound on the number of addPattern calls
  MaxBuilds     \* bound on the number of buildFailureLinks calls

ASSUME /\ Words \subseteq Seq(Sym) /\ Texts \subseteq Seq(Sym)
       /\ MaxPatterns \in Nat /\ MaxBuilds \in Nat \ {0}

Root == 0
Nil  == -1

\* Every addPattern call allocates at most one node per rune.
MaxNodes == 1 + MaxPatterns * (CHOOSE m \in {Len(w) : w \in Words} :
                                  \A w \in Words : Len(w) <= m)
Node == 0 .. MaxNodes - 1

VARIABLES
  children,      \* children[n][c]: the child of n on rune c, or Nil
  failure,       \* failure[n]: the failure link of n, or Nil
  outputs,       \* outputs[n]: the []string slice of n
  isEndOfWord,   \* isEndOfWord[n]
  size,          \* nodes 0..size-1 are allocated
  queue,         \* the BFS queue of a running buildFailureLinks
  pc,            \* the caller: "adding", "building" or "built"
  builds,        \* number of buildFailureLinks calls so far
  added,         \* the patterns passed to addPattern, in order
  spc,           \* the searcher: "idle" or "scan"
  text,          \* the text of the running search
  pos,           \* runes of text consumed so far
  currentState,  \* search's currentState
  foundPatterns  \* search's result slice so far

trie   == <<children, failure, outputs, isEndOfWord, size>>
vars   == <<children, failure, outputs, isEndOfWord, size, queue, pc,
            builds, added, spc, text, pos, currentState, foundPatterns>>

-----------------------------------------------------------------------------
(* Helpers                                                                 *)

\* The children of n: the values of the map n.children.
Kids(n) == {children[n][c] : c \in Sym} \ {Nil}

\* The loop `for f != nil && f.children[c] == nil { f = f.failure }`,
\* shared by buildFailureLinks and search.
RECURSIVE FailWalk(_, _)
FailWalk(f, c) ==
  IF f = Nil \/ children[f][c] # Nil THEN f ELSE FailWalk(failure[f], c)

\* addPattern's walk from node n along the runes `rest`, creating a node
\* whenever the transition is absent.  Returns the updated children map,
\* the new arena size and the node the walk ends at.
\* (mutant) addPattern without the `if _, ok := ...; !ok` check: every
\* rune allocates a fresh child, replacing the existing one.
RECURSIVE InsertAlwaysNew(_, _, _, _)
InsertAlwaysNew(ch, sz, n, rest) ==
  IF rest = <<>> THEN [children |-> ch, size |-> sz, node |-> n]
  ELSE InsertAlwaysNew([ch EXCEPT ![n][Head(rest)] = sz], sz + 1, sz, Tail(rest))
RECURSIVE Insert(_, _, _, _)
Insert(ch, sz, n, rest) ==
  IF rest = <<>> THEN [children |-> ch, size |-> sz, node |-> n]
  ELSE IF ch[n][Head(rest)] # Nil
       THEN Insert(ch, sz, ch[n][Head(rest)], Tail(rest))
       ELSE Insert([ch EXCEPT ![n][Head(rest)] = sz], sz + 1, sz, Tail(rest))

-----------------------------------------------------------------------------
(* Operations                                                              *)

Init ==
  /\ children    = [n \in Node |-> [c \in Sym |-> Nil]]
  /\ failure     = [n \in Node |-> Nil]
  /\ outputs     = [n \in Node |-> <<>>]
  /\ isEndOfWord = [n \in Node |-> FALSE]
  /\ size  = 1
  /\ queue = <<>>
  /\ pc = "adding"
  /\ builds = 0
  /\ added = <<>>
  /\ spc = "idle"
  /\ text = <<>>
  /\ pos = 0
  /\ currentState = Root
  /\ foundPatterns = <<>>

\* addPattern(pattern): walk/extend the trie, mark the last node as the
\* end of a word and append the pattern to its outputs.
AddPattern(p) ==
  /\ pc = "adding"
  /\ Len(added) < MaxPatterns
  /\ LET r == Insert(children, size, Root, p) IN
       /\ children' = r.children
       /\ size' = r.size
       /\ isEndOfWord' = [isEndOfWord EXCEPT ![r.node] = TRUE]
       /\ outputs' = [outputs EXCEPT ![r.node] = Append(@, p)]
  /\ added' = Append(added, p)
  /\ UNCHANGED <<failure, queue, pc, builds, spc, text, pos, currentState,
                 foundPatterns>>

\* buildFailureLinks, first loop: the root's children fail back to the
\* root and are queued in map iteration order, which Go leaves unspecified.
BuildStart ==
  /\ pc \in {"adding", "built"}
  /\ builds < MaxBuilds
  /\ spc = "idle"
  /\ failure' = [n \in Node |-> IF n \in Kids(Root) THEN Root ELSE failure[n]]
  /\ \E order \in SetToSeqs(Kids(Root)) :
       /\ queue' = order
       /\ pc' = IF order = <<>> THEN "built" ELSE "building"
  /\ builds' = builds + 1
  /\ UNCHANGED <<children, outputs, isEndOfWord, size, added, spc, text, pos,
                 currentState, foundPatterns>>

\* The node that child (of current, on rune key) fails to, and whether the
\* failure chain found a node with a key transition (failNode != nil).
\* (mutant) the child fails to failNode itself, not to its key child.
FailTargetNoStep(current, key) ==
  LET fn == FailWalk(failure[current], key)
  IN IF fn # Nil THEN fn ELSE Root
FailTarget(current, key) ==
  LET fn == FailWalk(failure[current], key)
  IN IF fn # Nil THEN children[fn][key] ELSE Root
Merges(current, key) == FailWalk(failure[current], key) # Nil

\* child.outputs = append(child.outputs, child.failure.outputs...)
\* (mutant) the child's slice is replaced by its failure target's.
MergedOutputsReplace(child, target) == outputs[target]
MergedOutputs(child, target) == outputs[child] \o outputs[target]

\* buildFailureLinks, one iteration of the queue loop: pop current and, for
\* each of its children in map order, queue it, set its failure link and
\* append the failure target's outputs to its own.  No child reads a
\* sibling's link or outputs (the failure target is shallower), so the
\* children are handled in one step; only the queue order depends on the
\* map order.
BuildStep ==
  /\ pc = "building"
  /\ queue # <<>>
  /\ LET current == Head(queue)
         KeyOf(n) == CHOOSE c \in Sym : children[current][c] = n
     IN
     /\ failure' = [n \in Node |->
                      IF n \in Kids(current) THEN FailTarget(current, KeyOf(n))
                                             ELSE failure[n]]
     /\ outputs' = [n \in Node |->
                      IF n \in Kids(current) /\ Merges(current, KeyOf(n))
                      THEN MergedOutputs(n, FailTarget(current, KeyOf(n)))
                      ELSE outputs[n]]
     /\ \E order \in SetToSeqs(Kids(current)) :
          /\ queue' = Tail(queue) \o order
          /\ pc' = IF queue' = <<>> THEN "built" ELSE "building"
  /\ UNCHANGED <<children, isEndOfWord, size, builds, added, spc, text, pos,
                 currentState, foundPatterns>>

\* search(text): the caller starts a search on the built trie.
SearchBegin(t) ==
  /\ pc = "built"
  /\ spc = "idle"
  /\ spc' = "scan"
  /\ text' = t
  /\ pos' = 0
  /\ currentState' = Root
  /\ foundPatterns' = <<>>
  /\ UNCHANGED <<trie, queue, pc, builds, added>>

\* search's failure-link loop for rune ch from state s.
\* (mutant) the loop treats reaching the root like running past it, so the
\* root's own transition on ch is never tried.
SearchFallbackStopsAtRoot(s, ch) ==
  IF FailWalk(s, ch) = Root THEN Nil ELSE FailWalk(s, ch)
SearchFallback(s, ch) == FailWalk(s, ch)

\* What search appends after moving from cs to nx: nx's outputs, but only
\* when nx itself is the end of a word.
\* (mutant) the check and append read the node before the move.
ReportedBeforeMove(cs, nx) ==
  IF isEndOfWord[cs] THEN outputs[cs] ELSE <<>>
Reported(cs, nx) == IF isEndOfWord[nx] THEN outputs[nx] ELSE <<>>

\* (mutant) search's loop without `currentState = t` before `continue`.
SearchStepNoReset ==
  /\ spc = "scan"
  /\ pos < Len(text)
  /\ LET ch == text[pos + 1]
         cs == SearchFallback(currentState, ch)
     IN \/ /\ cs = Nil
           /\ currentState' = cs
           /\ UNCHANGED foundPatterns
        \/ /\ cs # Nil
           /\ currentState' = children[cs][ch]
           /\ foundPatterns' = foundPatterns \o Reported(cs, children[cs][ch])
  /\ pos' = pos + 1
  /\ UNCHANGED <<trie, queue, pc, builds, added, spc, text>>

\* One iteration of search's rune loop: follow failure links until a node
\* has a transition on ch; if none (the chain ran past the root) reset to
\* the root and continue; otherwise move to the child and append what it
\* reports.
SearchStep ==
  /\ spc = "scan"
  /\ pos < Len(text)
  /\ LET ch == text[pos + 1]
         cs == SearchFallback(currentState, ch)
     IN \/ /\ cs = Nil
           /\ currentState' = Root
           /\ UNCHANGED foundPatterns
        \/ /\ cs # Nil
           /\ currentState' = children[cs][ch]
           /\ foundPatterns' = foundPatterns \o Reported(cs, children[cs][ch])
  /\ pos' = pos + 1
  /\ UNCHANGED <<trie, queue, pc, builds, added, spc, text>>

\* search returns foundPatterns once every rune is consumed.
SearchEnd ==
  /\ spc = "scan"
  /\ pos = Len(text)
  /\ spc' = "idle"
  /\ UNCHANGED <<trie, queue, pc, builds, added, text, pos, currentState,
                 foundPatterns>>

Next ==
  \/ \E p \in Words : AddPattern(p)
  \/ BuildStart
  \/ BuildStep
  \/ \E t \in Texts : SearchBegin(t)
  \/ SearchStep
  \/ SearchEnd

Spec == Init /\ [][Next]_vars

-----------------------------------------------------------------------------
(* What the trie spells                                                    *)

\* The runes on the path of child edges from the root to n (a node no edge
\* reaches spells <<>>, like the root).
RECURSIVE Str(_)
Str(n) ==
  LET In == {e \in Node \X Sym : children[e[1]][e[2]] = n}
  IN IF n = Root \/ In = {} THEN <<>>
     ELSE LET e == CHOOSE e \in In : TRUE IN Append(Str(e[1]), e[2])

Allocated   == 0 .. size - 1
TrieStrings == {Str(n) : n \in Allocated}

\* The longest suffix of s that the trie spells (the root spells <<>>).
LongestSuffixIn(s, S) ==
  CHOOSE u \in Suffixes(s) \cap S :
    \A v \in Suffixes(s) \cap S : Len(v) <= Len(u)

\* How many addPattern calls passed w.
Count(w, seq) == Cardinality({i \in DOMAIN seq : seq[i] = w})

-----------------------------------------------------------------------------
(* Properties                                                              *)

TypeOK ==
  /\ children \in [Node -> [Sym -> Node \cup {Nil}]]
  /\ failure \in [Node -> Node \cup {Nil}]
  /\ outputs \in [Node -> Seq(Words)]
  /\ isEndOfWord \in [Node -> BOOLEAN]
  /\ size \in 1 .. MaxNodes
  /\ queue \in Seq(Node)
  /\ pc \in {"adding", "building", "built"}
  /\ builds \in 0 .. MaxBuilds
  /\ added \in Seq(Words)
  /\ spc \in {"idle", "scan"}
  /\ text \in Texts \cup {<<>>}
  /\ pos \in 0 .. Len(text)
  /\ currentState \in Node
  /\ foundPatterns \in Seq(Words)

\* addPattern keeps the arena a prefix tree: the allocated nodes spell
\* exactly the prefixes of the added patterns, each one by one node, and a
\* node is the end of a word iff it spells an added pattern.
TrieIsPrefixTree ==
  /\ TrieStrings = {<<>>} \cup UNION {Prefixes(p) : p \in ToSet(added)}
  /\ Cardinality(TrieStrings) = size
  /\ \A n \in Allocated : isEndOfWord[n] <=> Str(n) \in ToSet(added)

\* Once buildFailureLinks has returned, every non-root node fails to the
\* node of the longest proper suffix of its string that the trie spells,
\* whatever order the maps were iterated in.
FailureLinksLongestSuffix ==
  pc = "built" =>
    /\ failure[Root] = Nil
    /\ \A n \in Allocated \ {Root} :
         /\ failure[n] \in Allocated
         /\ Str(failure[n]) =
              LongestSuffixIn(Str(n), TrieStrings \ {Str(n)})

\* Once buildFailureLinks has returned, the outputs slice of a node holds
\* every addPattern call whose pattern is a suffix of the node's string,
\* once per call: the merge along failure links is complete and appends
\* nothing twice.  The empty pattern stays on the root only.
OutputClosure ==
  pc = "built" =>
    \A n \in Allocated, w \in Words :
      Count(w, outputs[n]) =
        IF IsSuffix(w, Str(n)) /\ (w # <<>> \/ n = Root)
        THEN Count(w, added) ELSE 0

\* During search, after consuming text[1..pos], currentState is the node of
\* the longest suffix of the consumed text that the trie spells.  This is
\* what makes search's reset to the root (when the failure chain runs past
\* it) lose nothing: the root has no transition on that rune either.
SearchTracksLongestSuffix ==
  spc = "scan" =>
    Str(currentState) = LongestSuffixIn(SubSeq(text, 1, pos), TrieStrings)

\* A search step appends only patterns that end at the rune just consumed.
SearchReportsOnlyEndingHere ==
  [][spc = "scan" /\ pos' = pos + 1 =>
       /\ IsPrefix(foundPatterns, foundPatterns')
       /\ \A i \in Len(foundPatterns) + 1 .. Len(foundPatterns') :
            IsSuffix(foundPatterns'[i], SubSeq(text, 1, pos'))]_vars

\* When search returns, every non-empty added pattern that occurs in the
\* text is in the result (spec: matchedPatterns = {p : p occurs in T}).
SearchFindsEveryOccurrence ==
  (spc = "scan" /\ pos = Len(text)) =>
    \A p \in ToSet(added) \ {<<>>} :
      p \in SubSeqs(text) => p \in ToSet(foundPatterns)

=============================================================================
