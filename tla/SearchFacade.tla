---------------------------- MODULE SearchFacade ----------------------------
(***************************************************************************)
(* The search facade of src/search/searchutils.go: ContainsString(s),     *)
(* ContainsString(s)Byte and ContainsWhichStrings(Byte).  Each call builds *)
(* a fresh matcher with ahocorasick.NewStringMatcher from its targets and  *)
(* asks it Contains or Match once, so every facade function is a pure      *)
(* operator of its arguments.                                              *)
(*                                                                         *)
(* NewStringMatcher, Contains and Match live in a package that is not in   *)
(* the repository; they are taken from spec.md 4.2, 4.3 and 6:             *)
(* Contains is true iff some pattern occurs as a contiguous substring,     *)
(* and Match reports each distinct occurring pattern once, as an index     *)
(* into the dictionary.                                                    *)
(*                                                                         *)
(* A string is the sequence of runes it decodes to.  []byte(data) keeps    *)
(* the bytes and the matcher decodes them again, which gives back the same *)
(* runes for valid UTF-8, so the byte overloads take the same sequence.    *)
(***************************************************************************)
EXTENDS Naturals, Sequences, FiniteSets, SequencesExt

\* p occurs in data as a contiguous run of runes (the empty string occurs
\* in every text).
Occurs(p, data) == p \in SubSeqs(data)

\* ahocorasick.NewStringMatcher(dictionary): the matcher is determined by
\* its dictionary.
NewStringMatcher(dictionary) == [dictionary |-> dictionary]

\* matcher.Contains(in): does any dictionary word occur in in.
MatcherContains(m, in) ==
  \E i \in DOMAIN m.dictionary : Occurs(m.dictionary[i], in)

\* matcher.Match(in): for each distinct dictionary word that occurs in in,
\* the first index that holds it, in increasing order.
MatcherMatch(m, in) ==
  LET d    == m.dictionary
      hits == {i \in DOMAIN d :
                 /\ Occurs(d[i], in)
                 /\ \A j \in 1 .. i - 1 : d[j] # d[i]}
  IN SetToSortSeq(hits, <)

ContainsString(data, target) ==
  MatcherContains(NewStringMatcher(<<target>>), data)

ContainsStringByte(data, target) ==
  MatcherContains(NewStringMatcher(<<target>>), data)

ContainsStrings(data, targets) ==
  MatcherContains(NewStringMatcher(targets), data)

ContainsStringsByte(data, targets) ==
  MatcherContains(NewStringMatcher(targets), data)

\* found := make([]string, len(hits)); found[i] = target[hits[i]].
TranslateHits(target, hits) ==
  [i \in DOMAIN hits |-> target[hits[i]]]

ContainsWhichStrings(data, target) ==
  TranslateHits(target, MatcherMatch(NewStringMatcher(target), data))

ContainsWhichStringsByte(data, target) ==
  TranslateHits(target, MatcherMatch(NewStringMatcher(target), data))

=============================================================================
