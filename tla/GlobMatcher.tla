----------------------------- MODULE GlobMatcher -----------------------------
(***************************************************************************)
(* The glob matcher of dd-trace-sampling (glob_matcher.rs): a backtracking *)
(* loop over the bytes of the lowercased pattern and subject, with a cache *)
(* of earlier results that threads share.                                  *)
(*                                                                         *)
(* A string is a sequence of characters, a character has one lower case    *)
(* and a sequence of bytes.  The reference, GlobMatch, is the language the *)
(* comment of GlobMatcher describes.                                       *)
(***************************************************************************)
EXTENDS Integers, Sequences

CONSTANTS
  Matchers,   \* threads that match
  Patterns,   \* patterns of rules
  Subjects,   \* names, services, resources and values of tags
  Lower,      \* the lower case of a character
  Bytes,      \* the UTF-8 bytes of a character
  CacheSize,  \* entries of the cache
  MaxMatches   \* bound: calls of matches

VARIABLES
  pattern_lower,  \* the pattern
  cache,          \* LruCache, the latest entry first
  matching,       \* the matches call of each thread
  matched         \* history: calls of matches

globVars == <<pattern_lower, cache, matching, matched>>

Seqs == INSTANCE SequencesExt

-----------------------------------------------------------------------------
(* Strings *)

to_lowercase(str) == [i \in DOMAIN str |-> Lower[str[i]]]
as_bytes(str) == Seqs!FlattenSeq([i \in DOMAIN str |-> Bytes[str[i]]])

\* The rest of a pattern from place i on matches that of a subject from j on,
\* where m says it of the places after them.
RestMatches(m, pattern, subject, i, j) ==
  IF i > Len(pattern) THEN j > Len(subject)
  ELSE \/ pattern[i] = "*" /\ (m[<<i + 1, j>>] \/ (j <= Len(subject) /\ m[<<i, j + 1>>]))
       \/ /\ pattern[i] # "*" /\ j <= Len(subject)
          /\ pattern[i] \in {"?", subject[j]} /\ m[<<i + 1, j + 1>>]

\* The language of globs on sequences of characters or of bytes
GlobRest(pattern, subject) ==
  LET m[places \in (1..Len(pattern) + 1) \X (1..Len(subject) + 1)] ==
        RestMatches(m, pattern, subject, places[1], places[2])
  IN m

GlobMatch(pattern, subject) == GlobRest(pattern, subject)[<<1, 1>>]

\* A character has a lower case and some bytes, patterns and subjects are strings.
StringsHaveBytes ==
  /\ CacheSize \in Nat
  /\ Lower \in [DOMAIN Lower -> DOMAIN Lower]
  /\ Bytes \in [DOMAIN Lower -> Seq(UNION {{Bytes[c][i] : i \in DOMAIN Bytes[c]} : c \in DOMAIN Lower})]
  /\ Patterns \cup Subjects \subseteq Seq(DOMAIN Lower)

\* Where every character in lower case is one byte, as in ASCII
OneByteEach == \A c \in DOMAIN Lower : Bytes[Lower[c]] = <<Lower[c]>>

-----------------------------------------------------------------------------
(* State *)

Idle == [pc |-> "idle", subject |-> <<>>, px |-> 0, sx |-> 0, next_px |-> 0,
         next_sx |-> 0, result |-> FALSE]

GlobInit ==
  /\ \E pattern \in Patterns : pattern_lower = to_lowercase(pattern)
  /\ cache = <<>>
  /\ matching = [th \in Matchers |-> Idle]
  /\ matched = 0

Pattern == as_bytes(pattern_lower)
Subject(th) == as_bytes(matching[th].subject)

Goto(th, next) == matching' = [matching EXCEPT ![th] = next]
AnswerMatch(th, result) == Goto(th, [matching[th] EXCEPT !.pc = "returns", !.result = result])

-----------------------------------------------------------------------------
(* The cache *)

Cached(subject) == {i \in DOMAIN cache : cache[i].subject = subject}

\* Every subject has one entry at most.
Others(subject) ==
  IF Cached(subject) = {} THEN cache
  ELSE Seqs!RemoveAt(cache, CHOOSE i \in Cached(subject) : TRUE)

Touched(entry) == <<entry>> \o Others(entry.subject)

\* LruCache::get moves the entry to the front.
CacheHit(th) ==
  \E i \in Cached(matching[th].subject) :
    /\ cache' = Touched(cache[i])
    /\ AnswerMatch(th, cache[i].result)

\* Mutant: the entry is stored under the pattern.
PutUnderPattern(th, result) ==
  cache' = <<[subject |-> pattern_lower, result |-> result]>>

\* LruCache::put makes room for a new entry at the end.
CachePut(th, result) ==
  LET entries == Touched([subject |-> matching[th].subject, result |-> result])
  IN cache' = SubSeq(entries, 1, IF Len(entries) < CacheSize THEN Len(entries) ELSE CacheSize)

-----------------------------------------------------------------------------
(* matches *)

\* The subject is lowercased and the short cuts are taken before the cache.
glob_matches(th, subject) ==
  /\ matching[th].pc = "idle"
  /\ matched < MaxMatches
  /\ matched' = matched + 1
  /\ LET lower == to_lowercase(subject)
         next  == [Idle EXCEPT !.subject = lower, !.pc = "returns"]
     IN \/ pattern_lower = <<"*">> /\ Goto(th, [next EXCEPT !.result = TRUE])
        \/ pattern_lower = lower /\ Goto(th, [next EXCEPT !.result = TRUE])
        \/ /\ pattern_lower \notin {<<"*">>, lower}
           /\ ~Seqs!Contains(pattern_lower, "*") /\ ~Seqs!Contains(pattern_lower, "?")
           /\ Goto(th, next)
        \/ /\ pattern_lower \notin {<<"*">>, lower}
           /\ Seqs!Contains(pattern_lower, "*") \/ Seqs!Contains(pattern_lower, "?")
           /\ Goto(th, [next EXCEPT !.pc = "cache"])
  /\ UNCHANGED <<pattern_lower, cache>>

LookUp(th) ==
  /\ matching[th].pc = "cache"
  /\ \/ CacheHit(th)
     \/ /\ Cached(matching[th].subject) = {}
        /\ Goto(th, [matching[th] EXCEPT !.pc = "loop"])
        /\ UNCHANGED cache
  /\ UNCHANGED <<pattern_lower, matched>>

\* A star: first it stands for nothing, later for one more byte.
Star(c) == [c EXCEPT !.next_px = c.px, !.next_sx = c.sx + 1, !.px = c.px + 1]

\* Mutant: the loop comes back to the star with what it has not yet consumed.
BacktrackPatternOnly(c) == [c EXCEPT !.px = c.next_px]

Backtrack(c) == [c EXCEPT !.px = c.next_px, !.sx = c.next_sx]

\* One round of the loop; positions count from zero as in the code.
Round(th) ==
  LET c        == matching[th]
      moreP    == c.px < Len(Pattern)
      moreS    == c.sx < Len(Subject(th))
      star     == moreP /\ Pattern[c.px + 1] = "*"
      consumes == moreP /\ moreS /\ ~star
                  /\ Pattern[c.px + 1] \in {"?", Subject(th)[c.sx + 1]}
  IN /\ c.pc = "loop"
     /\ moreP \/ moreS
     /\ \/ star /\ Goto(th, Star(c)) /\ UNCHANGED cache
        \/ /\ consumes
           /\ Goto(th, [c EXCEPT !.px = c.px + 1, !.sx = c.sx + 1])
           /\ UNCHANGED cache
        \/ /\ ~star /\ ~consumes
           /\ 0 < c.next_sx /\ c.next_sx <= Len(Subject(th))
           /\ Goto(th, Backtrack(c)) /\ UNCHANGED cache
        \/ /\ ~star /\ ~consumes
           /\ ~(0 < c.next_sx /\ c.next_sx <= Len(Subject(th)))
           /\ CachePut(th, FALSE) /\ AnswerMatch(th, FALSE)
     /\ UNCHANGED <<pattern_lower, matched>>

\* Both strings have been consumed.
Consumed(th) ==
  /\ matching[th].pc = "loop"
  /\ matching[th].px >= Len(Pattern) /\ matching[th].sx >= Len(Subject(th))
  /\ CachePut(th, TRUE) /\ AnswerMatch(th, TRUE)
  /\ UNCHANGED <<pattern_lower, matched>>

Return(th) ==
  /\ matching[th].pc = "returns"
  /\ Goto(th, Idle)
  /\ UNCHANGED <<pattern_lower, cache, matched>>

Runs(th) == LookUp(th) \/ Round(th) \/ Consumed(th) \/ Return(th)

GlobNext == \E th \in Matchers : Runs(th) \/ \E subject \in Subjects : glob_matches(th, subject)

GlobSpec == GlobInit /\ [][GlobNext]_globVars

-----------------------------------------------------------------------------
(* Properties *)

\* The answer is the language of globs on characters: * stands for any, also no,
\* characters, ? for one, case counts for nothing (glob_matcher.rs 11-13).  It
\* holds where every character is one byte.
MatchesGlob ==
  \A th \in Matchers : matching[th].pc = "returns" =>
    matching[th].result = GlobMatch(pattern_lower, matching[th].subject)

\* The loop remembers the last star only, and that is enough: the subject
\* matches if the rest does from here or from the place it would come back to
\* (glob_matcher.rs 84-119).
LastStarSuffices ==
  \A th \in Matchers : matching[th].pc = "loop" =>
    LET c    == matching[th]
        rest == GlobRest(Pattern, Subject(th))
    IN rest[<<1, 1>>] = \/ rest[<<c.px + 1, c.sx + 1>>]
                        \/ /\ c.next_sx \in 1..Len(Subject(th))
                           /\ rest[<<c.next_px + 1, c.next_sx + 1>>]

\* What the cache answers is what the loop would, whoever put it there and
\* whatever was thrown out before (glob_matcher.rs 75-81, 121-139).
CacheAgrees ==
  \A i \in DOMAIN cache :
    cache[i].result = GlobMatch(Pattern, as_bytes(cache[i].subject))

\* Loop and cache decide the language of globs, in every thread.
GlobsDecided == MatchesGlob /\ LastStarSuffices /\ CacheAgrees

=============================================================================
