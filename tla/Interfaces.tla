----------------------------- MODULE Interfaces -----------------------------
(***************************************************************************)
(* Which network interfaces are counted (monitor/net/mod.rs): the built-in *)
(* exclusions, then the patterns of --include-nics and of --exclude-nics.  *)
(* A pattern is read into terms; the terms are matched with two rows of a  *)
(* table, one term a step.                                                 *)
(***************************************************************************)
EXTENDS Integers, Sequences, SequencesExt, FiniteSets

CONSTANTS
    NicPatterns,    \* the patterns a list may hold: sequences of characters
    NicNames,       \* the names of the interfaces
    BuiltIn,        \* EXCLUDED_PREFIXES
    Alphabet,       \* the characters in their order, as a sequence
    MaxPatterns     \* the longest list of a configuration

\* Patterns and names are sequences of characters.
ASSUME NicsAssumption ==
    /\ \A s \in NicPatterns \cup NicNames : s \in Seq(Range(s))
    /\ MaxPatterns \in Nat

VARIABLES
    nic,        \* the name asked about
    include,    \* include_nics
    exclude,    \* exclude_nics
    list,       \* whose patterns are tried: "start", "include", "exclude", "done"
    tried,      \* the number of the pattern being tried
    terms,      \* its terms not matched yet
    row,        \* previous: the lengths of the name's beginnings matched
    counted     \* the verdict: is the interface counted?

ifVars == <<nic, include, exclude, list, tried, terms, row, counted>>

Separator == "/"
NoChar == ""
NicTerm(kind, ch) == [kind |-> kind, ch |-> ch, negated |-> FALSE, ranges |-> {}]
Malformed == <<NicTerm("malformed", NoChar)>>

-----------------------------------------------------------------------------
\* A pattern read up to some character: where the loop is, the terms pushed, and
\* of a class under way its negation, its ranges, and the start of the next one.
Parser(at, pushed, negated, ranges, lo) ==
    [at |-> at, terms |-> pushed, negated |-> negated, ranges |-> ranges, lo |-> lo]

Opening == Parser("term", <<>>, FALSE, {}, NoChar)
Pushed(p, term) == Parser("term", Append(p.terms, term), FALSE, {}, NoChar)
ClassPushed(p) ==
    Pushed(p, [kind |-> "class", ch |-> NoChar, negated |-> p.negated, ranges |-> p.ranges])
At(p, at) == Parser(at, p.terms, p.negated, p.ranges, p.lo)
Negated(p) == Parser("class", p.terms, TRUE, p.ranges, p.lo)
RangeFrom(p, ch) == Parser("range", p.terms, p.negated, p.ranges, ch)
RangeTo(p, ch) == Parser("class", p.terms, p.negated, p.ranges \cup {<<p.lo, ch>>}, p.lo)

\* Within a class: "]" ends it, but not before there is a range; a backslash
\* hides the next character; "-" and "]" start no range.
InBrackets(p, ch) ==
    CASE ch = "]" /\ p.ranges # {} -> ClassPushed(p)
      [] ch = "]" /\ p.ranges = {} -> At(p, "bad")
      [] ch = "-" -> At(p, "bad")
      [] ch = "\\" -> At(p, "hidden")
      [] OTHER -> RangeFrom(p, ch)

\* One character more; "^" negates right behind the bracket only, and "-" makes
\* a range of two ends.
ReadChar(p, ch) ==
    CASE p.at = "term" ->
            CASE ch = "*" -> Pushed(p, NicTerm("star", NoChar))
              [] ch = "?" -> Pushed(p, NicTerm("any", NoChar))
              [] ch = "\\" -> At(p, "literal")
              [] ch = "[" -> At(p, "open")
              [] OTHER -> Pushed(p, NicTerm("literal", ch))
      [] p.at = "literal" -> Pushed(p, NicTerm("literal", ch))
      [] p.at = "open" ->
            IF ch = "^" THEN Negated(p) ELSE InBrackets(p, ch)
      [] p.at = "class" -> InBrackets(p, ch)
      [] p.at = "hidden" -> RangeFrom(p, ch)
      [] p.at = "range" -> IF ch = "-" THEN At(p, "end") ELSE InBrackets(RangeTo(p, p.lo), ch)
      [] p.at = "end" ->
            CASE ch \in {"-", "]"} -> At(p, "bad")
              [] ch = "\\" -> At(p, "hiddenEnd")
              [] OTHER -> RangeTo(p, ch)
      [] p.at = "hiddenEnd" -> RangeTo(p, ch)
      [] OTHER -> p

\* The terms of a pattern; no name matches one that ends within a term.
TermsOf(s) ==
    LET p == FoldLeft(ReadChar, Opening, s)
    IN  IF p.at = "term" THEN p.terms ELSE Malformed

Rank(ch) == CHOOSE i \in DOMAIN Alphabet : Alphabet[i] = ch

InClass(term, ch) ==
    (\E range \in term.ranges : Rank(range[1]) <= Rank(ch) /\ Rank(ch) <= Rank(range[2]))
        # term.negated

\* One character of the name against one term that is not a star.  A class
\* may hold the separator.
Accepts(term, ch) ==
    \/ term.kind = "any" /\ ch # Separator
    \/ term.kind = "literal" /\ ch = term.ch
    \/ term.kind = "class" /\ InClass(term, ch)

\* Mutant: the star is carried on through separators.
StarAcross(from, j) == \E i \in from : i <= j

\* A star goes on from a beginning matched, up to a separator.
StarFrom(from, j) ==
    \E i \in from : i <= j /\ \A k \in i + 1 .. j : nic[k] # Separator

\* The row of the table after one more term.
NextRow(from, term) ==
    {j \in 0 .. Len(nic) :
        IF term.kind = "star" THEN StarFrom(from, j)
        ELSE j > 0 /\ j - 1 \in from /\ Accepts(term, nic[j])}

-----------------------------------------------------------------------------
ListOf(name) == IF name = "include" THEN include ELSE exclude

Lists == UNION {[1 .. n -> NicPatterns] : n \in 0 .. MaxPatterns}

IfInit ==
    /\ nic \in NicNames
    /\ include \in Lists /\ exclude \in Lists
    /\ list = "start" /\ tried = 0
    /\ terms = <<>> /\ row = {} /\ counted = FALSE

Verdict(yes) ==
    /\ counted' = yes
    /\ list' = "done" /\ tried' = 0 /\ terms' = <<>> /\ row' = {}

Try(name, n) ==
    /\ list' = name /\ tried' = n
    /\ terms' = TermsOf(ListOf(name)[n])
    /\ row' = {0}
    /\ UNCHANGED counted

\* No inclusion matched: the exclusions come, then whether there was a list.
TryExclude ==
    \/ exclude # <<>> /\ Try("exclude", 1)
    \/ exclude = <<>> /\ Verdict(include = <<>>)

IncludeNic ==
    /\ list = "start"
    /\ IF \E prefix \in BuiltIn : IsPrefix(prefix, nic) THEN Verdict(FALSE)
       ELSE \/ include # <<>> /\ Try("include", 1)
            \/ include = <<>> /\ TryExclude

MatchTerm ==
    /\ list \in {"include", "exclude"} /\ terms # <<>>
    /\ row' = NextRow(row, Head(terms))
    /\ terms' = Tail(terms)
    /\ UNCHANGED <<list, tried, counted>>

PatternDone ==
    /\ list \in {"include", "exclude"} /\ terms = <<>>
    /\ IF Len(nic) \in row THEN Verdict(list = "include")
       ELSE \/ tried < Len(ListOf(list)) /\ Try(list, tried + 1)
            \/ tried = Len(ListOf(list)) /\ list = "include" /\ TryExclude
            \/ tried = Len(ListOf(list)) /\ list = "exclude" /\ Verdict(include = <<>>)

IfNext ==
    /\ IncludeNic \/ MatchTerm \/ PatternDone
    /\ UNCHANGED <<nic, include, exclude>>

IfSpec == IfInit /\ [][IfNext]_ifVars

IfTypeOK ==
    /\ list \in {"start", "include", "exclude", "done"}
    /\ tried \in 0 .. MaxPatterns
    /\ row \subseteq 0 .. Len(nic)
    /\ counted \in BOOLEAN

-----------------------------------------------------------------------------
\* What a pattern means: the name falls into pieces, one per term, none of a
\* star's with a separator, each other of one character its term accepts.
Piece(term, name, i, j) ==
    IF term.kind = "star" THEN i <= j /\ \A k \in i + 1 .. j : name[k] # Separator
    ELSE j = i + 1 /\ Accepts(term, name[j])

Reaches(all, k, name, j) ==
    \E cut \in [0 .. k -> 0 .. Len(name)] :
        /\ cut[0] = 0 /\ cut[k] = j
        /\ \A t \in 1 .. k : Piece(all[t], name, cut[t - 1], cut[t])

Means(pattern, name) ==
    LET all == TermsOf(pattern) IN Reaches(all, Len(all), name, Len(name))

\* The table says what the pattern means, and an interface is counted if no
\* built-in exclusion holds and a pattern includes it, or nothing excludes it
\* and nothing is listed to include (include_nic, nic_pattern_match).
NicsChosen ==
    list = "done" =>
        LET Matched(patterns) == \E i \in DOMAIN patterns : Means(patterns[i], nic)
        IN  counted <=> /\ ~\E prefix \in BuiltIn : IsPrefix(prefix, nic)
                        /\ Matched(include) \/ (include = <<>> /\ ~Matched(exclude))

=============================================================================
