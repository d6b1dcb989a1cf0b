---------------------------- MODULE PreProc_proofs ---------------------------
(***************************************************************************)
(* What the two passes over the rules compute, for rule lists of any       *)
(* length and shape: theorems of the specification PreProc.                *)
(***************************************************************************)
EXTENDS PreProcProps, FiniteSetTheorems, TLAPS

-----------------------------------------------------------------------------
(* The rule list as a list of places.                                      *)

Lists(rs, r, p, e) ==
  /\ r \in DOMAIN rs
  /\ p \in DOMAIN rs[r].patterns
  /\ e \in DOMAIN rs[r].patterns[p].elems

(* What a rule list consists of.                                           *)
LEMMA RuleListParts ==
  ASSUME NEW rs \in Seq(Rule)
  PROVE  /\ Len(rs) \in Nat /\ DOMAIN rs = 1 .. Len(rs)
         /\ \A r \in DOMAIN rs :
              /\ rs[r] = [name |-> rs[r].name, patterns |-> rs[r].patterns]
              /\ rs[r].name \in Symbols
              /\ rs[r].patterns \in Seq(Pattern)
              /\ Len(rs[r].patterns) \in Nat
              /\ DOMAIN rs[r].patterns = 1 .. Len(rs[r].patterns)
<1>1. \A x \in Rule : /\ x = [name |-> x.name, patterns |-> x.patterns]
                      /\ x.name \in Symbols /\ x.patterns \in Seq(Pattern)
  BY DEF Rule
<1>2. DOMAIN rs = 1 .. Len(rs) /\ \A r \in DOMAIN rs : rs[r] \in Rule
  OBVIOUS
<1> QED BY <1>1, <1>2

(* What a pattern of a rule list consists of.                              *)
LEMMA PatternParts ==
  ASSUME NEW rs \in Seq(Rule), NEW r \in DOMAIN rs,
         NEW p \in DOMAIN rs[r].patterns
  PROVE  /\ rs[r].patterns[p] = [elems |-> rs[r].patterns[p].elems,
                                 code |-> rs[r].patterns[p].code]
         /\ rs[r].patterns[p].elems \in Seq(PatElem)
         /\ rs[r].patterns[p].code \in Blocks \cup {NullText}
         /\ Len(rs[r].patterns[p].elems) \in Nat
         /\ DOMAIN rs[r].patterns[p].elems = 1 .. Len(rs[r].patterns[p].elems)
<1>1. \A x \in Pattern : /\ x = [elems |-> x.elems, code |-> x.code]
                         /\ x.elems \in Seq(PatElem)
                         /\ x.code \in Blocks \cup {NullText}
  BY DEF Pattern
<1>2. rs[r].patterns \in Seq(Pattern)
  BY RuleListParts
<1>3. rs[r].patterns[p] \in Pattern
  BY <1>2
<1> QED BY <1>1, <1>3

(* The places of a rule list.                                              *)
PlacesOf(rs) ==
  UNION {UNION {{<<r, p, e>> : e \in DOMAIN rs[r].patterns[p].elems} :
                p \in DOMAIN rs[r].patterns} : r \in DOMAIN rs}

(* The places are the triples of a rule, a pattern and an element.         *)
LEMMA PlacesOfAre ==
  ASSUME NEW rs
  PROVE  /\ \A w \in PlacesOf(rs) :
              w = <<w[1], w[2], w[3]>> /\ Lists(rs, w[1], w[2], w[3])
         /\ \A r, p, e : Lists(rs, r, p, e) => <<r, p, e>> \in PlacesOf(rs)
<1> DEFINE InPattern(r, p) == {<<r, p, e>> : e \in DOMAIN rs[r].patterns[p].elems}
           InRule(r) == UNION {InPattern(r, p) : p \in DOMAIN rs[r].patterns}
<1>1. \A w : w \in PlacesOf(rs) <=> \E r \in DOMAIN rs : w \in InRule(r)
  BY DEF PlacesOf
<1>2. \A r, w : w \in InRule(r) <=>
        \E p \in DOMAIN rs[r].patterns : w \in InPattern(r, p)
  OBVIOUS
<1>3. \A r, p, w : w \in InPattern(r, p) <=>
        \E e \in DOMAIN rs[r].patterns[p].elems : w = <<r, p, e>>
  OBVIOUS
<1> HIDE DEF InPattern, InRule
<1>4. ASSUME NEW w \in PlacesOf(rs)
      PROVE  w = <<w[1], w[2], w[3]>> /\ Lists(rs, w[1], w[2], w[3])
  <2>1. PICK r \in DOMAIN rs : w \in InRule(r)
    BY <1>1
  <2>2. PICK p \in DOMAIN rs[r].patterns : w \in InPattern(r, p)
    BY <1>2, <2>1
  <2>3. PICK e \in DOMAIN rs[r].patterns[p].elems : w = <<r, p, e>>
    BY <1>3, <2>2
  <2> QED BY <2>3 DEF Lists
<1>5. ASSUME NEW r, NEW p, NEW e, Lists(rs, r, p, e)
      PROVE  <<r, p, e>> \in PlacesOf(rs)
  BY <1>1, <1>2, <1>3, <1>5 DEF Lists
<1> QED BY <1>4, <1>5

(* The same of the rules that the passes work on.                          *)
LEMMA PlacesAre ==
  /\ \A w \in Places : w = <<w[1], w[2], w[3]>> /\ Lists(rules, w[1], w[2], w[3])
  /\ \A r, p, e : Lists(rules, r, p, e) => <<r, p, e>> \in Places
<1>1. Places = PlacesOf(rules)
  BY DEF Places, PlacesOf
<1> QED BY <1>1, PlacesOfAre

-----------------------------------------------------------------------------
(* Setting a flag.                                                         *)

(* Two rule lists that differ in flags only.                               *)
SameShape(rs, ss) ==
  /\ Len(rs) = Len(ss)
  /\ \A r \in 1 .. Len(ss) :
       /\ rs[r].name = ss[r].name
       /\ Len(rs[r].patterns) = Len(ss[r].patterns)
       /\ \A p \in 1 .. Len(ss[r].patterns) :
            /\ rs[r].patterns[p].code = ss[r].patterns[p].code
            /\ Len(rs[r].patterns[p].elems) = Len(ss[r].patterns[p].elems)
            /\ \A e \in 1 .. Len(ss[r].patterns[p].elems) :
                 rs[r].patterns[p].elems[e].str = ss[r].patterns[p].elems[e].str

(* The flag of one element is set.                                         *)
LEMMA FlaggedElem ==
  ASSUME NEW x \in PatElem
  PROVE  /\ [x EXCEPT !.is_terminal = TRUE] = [str |-> x.str, is_terminal |-> TRUE]
         /\ [str |-> x.str, is_terminal |-> TRUE] \in PatElem
<1>1. PICK a \in Symbols, b \in BOOLEAN : x = [str |-> a, is_terminal |-> b]
  BY DEF PatElem
<1>2. [x EXCEPT !.is_terminal = TRUE] = [str |-> x.str, is_terminal |-> TRUE]
  <2>1. \A v : [x EXCEPT !.is_terminal = v] = [str |-> x.str, is_terminal |-> v]
    BY <1>1
  <2> QED BY <2>1
<1>3. [str |-> x.str, is_terminal |-> TRUE] \in PatElem
  <2>1. x.str \in Symbols /\ TRUE \in BOOLEAN
    BY <1>1
  <2> QED BY <2>1, Zenon DEF PatElem
<1> QED BY <1>2, <1>3

(* The patterns of a rule are replaced.                                    *)
LEMMA ChangedRule ==
  ASSUME NEW x \in Rule, NEW ps \in Seq(Pattern)
  PROVE  /\ [x EXCEPT !.patterns = ps] = [name |-> x.name, patterns |-> ps]
         /\ [name |-> x.name, patterns |-> ps] \in Rule
<1>1. PICK a \in Symbols, b \in Seq(Pattern) : x = [name |-> a, patterns |-> b]
  BY DEF Rule
<1> QED BY <1>1 DEF Rule

(* What the assignment through the cursor makes of each list it is in.     *)
LEMMA FlaggedIs ==
  ASSUME rules \in Seq(Rule), NEW r, NEW p, NEW e, cur = [r |-> r, p |-> p, e |-> e],
         Lists(rules, r, p, e)
  PROVE  \E el, es, pat, ps, rl :
           /\ el = [str |-> rules[r].patterns[p].elems[e].str, is_terminal |-> TRUE]
           /\ es = [rules[r].patterns[p].elems EXCEPT ![e] = el]
           /\ pat = [elems |-> es, code |-> rules[r].patterns[p].code]
           /\ ps = [rules[r].patterns EXCEPT ![p] = pat]
           /\ rl = [name |-> rules[r].name, patterns |-> ps]
           /\ Flagged = [rules EXCEPT ![r] = rl]
           /\ el \in PatElem /\ es \in Seq(PatElem) /\ pat \in Pattern
           /\ ps \in Seq(Pattern) /\ rl \in Rule
<1> DEFINE el0 == rules[r].patterns[p].elems[e]
           el == [el0 EXCEPT !.is_terminal = TRUE]
           es0 == rules[r].patterns[p].elems
           es == [es0 EXCEPT ![e] = el]
           pat0 == rules[r].patterns[p]
           pat == [pat0 EXCEPT !.elems = es]
           ps0 == rules[r].patterns
           ps == [ps0 EXCEPT ![p] = pat]
           rl0 == rules[r]
           rl == [rl0 EXCEPT !.patterns = ps]
<1>1. Flagged = [rules EXCEPT ![r] = rl]
  BY DEF Flagged
<1>2. /\ rl0 = [name |-> rl0.name, patterns |-> ps0] /\ rl0.name \in Symbols
      /\ ps0 \in Seq(Pattern)
  BY RuleListParts DEF Lists
<1>3. /\ pat0 = [elems |-> es0, code |-> pat0.code] /\ es0 \in Seq(PatElem)
      /\ pat0.code \in Blocks \cup {NullText}
  BY PatternParts DEF Lists
<1>4. el0 \in PatElem
  BY <1>3 DEF Lists
<1>5. el = [str |-> el0.str, is_terminal |-> TRUE] /\ el \in PatElem
  BY <1>4, FlaggedElem
<1> HIDE DEF el
<1>6. es \in Seq(PatElem)
  BY <1>3, <1>5 DEF Lists
<1> HIDE DEF es
<1>7. pat = [elems |-> es, code |-> pat0.code] /\ pat \in Pattern
  BY <1>3, <1>6 DEF Pattern
<1> HIDE DEF pat
<1>8. ps \in Seq(Pattern)
  BY <1>2, <1>7 DEF Lists
<1> HIDE DEF ps
<1>9. rl = [name |-> rl0.name, patterns |-> ps] /\ rl \in Rule
  <2>1. rl0 \in Rule
    BY DEF Lists
  <2> QED BY <1>8, <2>1, ChangedRule
<1> HIDE DEF rl
<1> QED BY <1>1, <1>5, <1>6, <1>7, <1>8, <1>9 DEF el, es, pat, ps, rl

(* One item of a list is replaced.                                         *)
LEMMA ReplacedItem ==
  ASSUME NEW S, NEW s \in Seq(S), NEW i \in DOMAIN s, NEW x \in S,
         NEW t, t = [s EXCEPT ![i] = x]
  PROVE  /\ t \in Seq(S) /\ Len(t) = Len(s) /\ t[i] = x
         /\ \A j \in DOMAIN s : j # i => t[j] = s[j]
OBVIOUS

(* It sets the flag at the cursor and changes nothing else.                *)
LEMMA FlagsOnePlace ==
  ASSUME rules \in Seq(Rule), NEW r, NEW p, NEW e, cur = [r |-> r, p |-> p, e |-> e],
         Lists(rules, r, p, e)
  PROVE  /\ Flagged \in Seq(Rule)
         /\ SameShape(Flagged, rules)
         /\ \A a, b, c : Lists(rules, a, b, c) =>
              (Flagged[a].patterns[b].elems[c].is_terminal
                 <=> \/ rules[a].patterns[b].elems[c].is_terminal
                     \/ a = r /\ b = p /\ c = e)
<1> DEFINE F == Flagged
<1>1. PICK el, es, pat, ps, rl :
           /\ el = [str |-> rules[r].patterns[p].elems[e].str, is_terminal |-> TRUE]
           /\ es = [rules[r].patterns[p].elems EXCEPT ![e] = el]
           /\ pat = [elems |-> es, code |-> rules[r].patterns[p].code]
           /\ ps = [rules[r].patterns EXCEPT ![p] = pat]
           /\ rl = [name |-> rules[r].name, patterns |-> ps]
           /\ F = [rules EXCEPT ![r] = rl]
           /\ el \in PatElem /\ es \in Seq(PatElem) /\ pat \in Pattern
           /\ ps \in Seq(Pattern) /\ rl \in Rule
  BY FlaggedIs
<1> HIDE DEF F
<1>2. r \in DOMAIN rules /\ p \in DOMAIN rules[r].patterns
      /\ e \in DOMAIN rules[r].patterns[p].elems
  BY DEF Lists
<1>3. /\ F \in Seq(Rule) /\ Len(F) = Len(rules) /\ F[r] = rl
      /\ \A a \in DOMAIN rules : a # r => F[a] = rules[a]
  <2>1. /\ rules \in Seq(Rule) /\ r \in DOMAIN rules /\ rl \in Rule
        /\ F = [rules EXCEPT ![r] = rl]
    BY <1>1, <1>2
  <2> QED BY <2>1, ReplacedItem
<1>4. /\ Len(ps) = Len(rules[r].patterns) /\ ps[p] = pat
      /\ \A b \in DOMAIN rules[r].patterns : b # p => ps[b] = rules[r].patterns[b]
  <2>1. /\ rules[r].patterns \in Seq(Pattern) /\ p \in DOMAIN rules[r].patterns
        /\ pat \in Pattern /\ ps = [rules[r].patterns EXCEPT ![p] = pat]
    BY <1>1, <1>2, RuleListParts
  <2> QED BY <2>1, ReplacedItem
<1>5. /\ Len(es) = Len(rules[r].patterns[p].elems) /\ es[e] = el
      /\ \A c \in DOMAIN rules[r].patterns[p].elems :
           c # e => es[c] = rules[r].patterns[p].elems[c]
  <2>1. /\ rules[r].patterns[p].elems \in Seq(PatElem)
        /\ e \in DOMAIN rules[r].patterns[p].elems /\ el \in PatElem
        /\ es = [rules[r].patterns[p].elems EXCEPT ![e] = el]
    BY <1>1, <1>2, PatternParts
  <2> QED BY <2>1, ReplacedItem
<1>6. rl.name = rules[r].name /\ rl.patterns = ps
      /\ pat.elems = es /\ pat.code = rules[r].patterns[p].code
      /\ el.str = rules[r].patterns[p].elems[e].str /\ el.is_terminal = TRUE
  BY <1>1
<1>7. SameShape(F, rules)
  <2>1. ASSUME NEW a \in 1 .. Len(rules)
        PROVE  /\ F[a].name = rules[a].name
               /\ Len(F[a].patterns) = Len(rules[a].patterns)
    BY <1>3, <1>4, <1>6, <2>1, RuleListParts
  <2>2. ASSUME NEW a \in 1 .. Len(rules), NEW b \in 1 .. Len(rules[a].patterns)
        PROVE  /\ F[a].patterns[b].code = rules[a].patterns[b].code
               /\ Len(F[a].patterns[b].elems) = Len(rules[a].patterns[b].elems)
               /\ \A c \in 1 .. Len(rules[a].patterns[b].elems) :
                    F[a].patterns[b].elems[c].str = rules[a].patterns[b].elems[c].str
    <3>1. a \in DOMAIN rules /\ b \in DOMAIN rules[a].patterns
      BY RuleListParts
    <3>2. CASE a # r
      BY <1>3, <3>1, <3>2
    <3>3. CASE a = r /\ b # p
      BY <1>3, <1>4, <1>6, <3>1, <3>3
    <3>4. CASE a = r /\ b = p
      <4>1. DOMAIN rules[a].patterns[b].elems = 1 .. Len(rules[a].patterns[b].elems)
        BY <3>1, PatternParts
      <4>2. F[a].patterns[b] = pat /\ pat.elems = es
        BY <1>3, <1>4, <1>6, <3>4
      <4>3. /\ pat.code = rules[a].patterns[b].code
            /\ Len(es) = Len(rules[a].patterns[b].elems)
        BY <1>5, <1>6, <3>4
      <4>4. \A c \in 1 .. Len(rules[a].patterns[b].elems) :
              es[c].str = rules[a].patterns[b].elems[c].str
        BY <1>5, <1>6, <3>4, <4>1
      <4> QED BY <4>2, <4>3, <4>4
    <3> QED BY <3>2, <3>3, <3>4
  <2> QED BY <1>3, <2>1, <2>2 DEF SameShape
<1>8. ASSUME NEW a, NEW b, NEW c, Lists(rules, a, b, c)
      PROVE  F[a].patterns[b].elems[c].is_terminal
               <=> \/ rules[a].patterns[b].elems[c].is_terminal
                   \/ a = r /\ b = p /\ c = e
  <2>1. a \in DOMAIN rules /\ b \in DOMAIN rules[a].patterns
        /\ c \in DOMAIN rules[a].patterns[b].elems
    BY <1>8 DEF Lists
  <2>2. CASE a # r
    BY <1>3, <2>1, <2>2
  <2>3. CASE a = r /\ b # p
    BY <1>3, <1>4, <1>6, <2>1, <2>3
  <2>4. CASE a = r /\ b = p
    BY <1>3, <1>4, <1>5, <1>6, <2>1, <2>4
  <2> QED BY <2>2, <2>3, <2>4
<1> QED BY <1>3, <1>7, <1>8 DEF F

-----------------------------------------------------------------------------
(* The walk of make_terms over the places.                                 *)

NPats(rs, r) == Len(rs[r].patterns)
NElems(rs, r, p) == Len(rs[r].patterns[p].elems)

FullRule(rs, r) ==
  NPats(rs, r) > 0 /\ \A p \in 1 .. NPats(rs, r) : NElems(rs, r, p) > 0

TypeOK ==
  /\ rules \in Seq(Rule)
  /\ terminals \in Seq(Symbols) /\ non_terminals \in Seq(Symbols)
  /\ errors \in Nat
  /\ phase \in {"non_terms", "terms", "done", "crash"}
  /\ cur \in [r : Nat, p : Nat, e : Nat]

(* The cursors are on a place, unless the list that they walk is empty,    *)
(* and no list that was walked so far is empty.                            *)
WalkIsRight ==
  /\ phase = "terms" =>
       /\ cur.r \in 1 .. Len(rules)
       /\ 1 <= cur.p /\ 1 <= cur.e
       /\ cur.p <= NPats(rules, cur.r) \/ (cur.p = 1 /\ NPats(rules, cur.r) = 0)
       /\ cur.e <= NElems(rules, cur.r, cur.p) \/ cur.e = 1
       /\ \A r \in 1 .. cur.r - 1 : FullRule(rules, r)
       /\ \A p \in 1 .. cur.p - 1 : NElems(rules, cur.r, p) > 0
  /\ phase = "done" =>
       Len(rules) > 0 /\ \A r \in 1 .. Len(rules) : FullRule(rules, r)
  /\ phase = "crash" => HasEmptyList

(* make_terms has been at this place, and has moved on.                    *)
PassedAt(r, p, e) ==
  \/ phase = "done"
  \/ /\ phase = "terms"
     /\ \/ r < cur.r
        \/ r = cur.r /\ p < cur.p
        \/ r = cur.r /\ p = cur.p /\ e < cur.e

IsHere(r, p, e) == r = cur.r /\ p = cur.p /\ e = cur.e

(* Numbers of patterns and elements, as numbers.                           *)
LEMMA NumbersAreNat ==
  ASSUME NEW rs \in Seq(Rule)
  PROVE  /\ Len(rs) \in Nat
         /\ \A r \in 1 .. Len(rs) :
              /\ NPats(rs, r) \in Nat
              /\ (NPats(rs, r) = 0 <=> rs[r].patterns = <<>>)
              /\ \A p \in 1 .. NPats(rs, r) :
                   /\ NElems(rs, r, p) \in Nat
                   /\ (NElems(rs, r, p) = 0 <=> rs[r].patterns[p].elems = <<>>)
<1>1. ASSUME NEW r \in 1 .. Len(rs)
      PROVE  NPats(rs, r) \in Nat /\ (NPats(rs, r) = 0 <=> rs[r].patterns = <<>>)
  <2>1. rs[r].patterns \in Seq(Pattern)
    BY RuleListParts
  <2> QED BY <2>1 DEF NPats
<1>2. ASSUME NEW r \in 1 .. Len(rs), NEW p \in 1 .. NPats(rs, r)
      PROVE  /\ NElems(rs, r, p) \in Nat
             /\ (NElems(rs, r, p) = 0 <=> rs[r].patterns[p].elems = <<>>)
  <2>1. r \in DOMAIN rs /\ p \in DOMAIN rs[r].patterns
    BY RuleListParts DEF NPats
  <2>2. rs[r].patterns[p].elems \in Seq(PatElem)
    BY <2>1, PatternParts
  <2> QED BY <2>2 DEF NElems
<1> QED BY <1>1, <1>2

(* The places in terms of these numbers.                                   *)
LEMMA ListsAre ==
  ASSUME NEW rs \in Seq(Rule)
  PROVE  \A r, p, e : Lists(rs, r, p, e) <=> /\ r \in 1 .. Len(rs)
                                            /\ p \in 1 .. NPats(rs, r)
                                            /\ e \in 1 .. NElems(rs, r, p)
<1>1. DOMAIN rs = 1 .. Len(rs)
  BY RuleListParts
<1>2. \A r \in DOMAIN rs : DOMAIN rs[r].patterns = 1 .. NPats(rs, r)
  BY RuleListParts DEF NPats
<1>3. \A r \in DOMAIN rs : \A p \in DOMAIN rs[r].patterns :
        DOMAIN rs[r].patterns[p].elems = 1 .. NElems(rs, r, p)
  BY PatternParts DEF NElems
<1> QED BY <1>1, <1>2, <1>3 DEF Lists

(* Flags do not change these numbers.                                      *)
LEMMA SameNumbers ==
  ASSUME NEW rs \in Seq(Rule), NEW ss \in Seq(Rule), SameShape(rs, ss)
  PROVE  /\ Len(rs) = Len(ss)
         /\ \A r \in 1 .. Len(ss) :
              /\ NPats(rs, r) = NPats(ss, r)
              /\ (FullRule(rs, r) <=> FullRule(ss, r))
              /\ \A p \in 1 .. NPats(ss, r) : NElems(rs, r, p) = NElems(ss, r, p)
         /\ \A r, p, e : Lists(rs, r, p, e) <=> Lists(ss, r, p, e)
<1>1. /\ Len(rs) = Len(ss)
      /\ \A r \in 1 .. Len(ss) :
           /\ NPats(rs, r) = NPats(ss, r)
           /\ \A p \in 1 .. NPats(ss, r) : NElems(rs, r, p) = NElems(ss, r, p)
  BY DEF SameShape, NPats, NElems
<1>2. \A r \in 1 .. Len(ss) : FullRule(rs, r) <=> FullRule(ss, r)
  BY <1>1 DEF FullRule
<1>3. \A r, p, e : Lists(rs, r, p, e) <=> Lists(ss, r, p, e)
  <2>1. \A r, p, e : Lists(rs, r, p, e) <=> /\ r \in 1 .. Len(rs)
                                           /\ p \in 1 .. NPats(rs, r)
                                           /\ e \in 1 .. NElems(rs, r, p)
    BY ListsAre
  <2>2. \A r, p, e : Lists(ss, r, p, e) <=> /\ r \in 1 .. Len(ss)
                                           /\ p \in 1 .. NPats(ss, r)
                                           /\ e \in 1 .. NElems(ss, r, p)
    BY ListsAre
  <2> QED BY <1>1, <2>1, <2>2
<1> QED BY <1>1, <1>2, <1>3

(* The moves of the cursors, as records.                                   *)
LEMMA CursorMoves ==
  ASSUME NEW c \in [r : Nat, p : Nat, e : Nat]
  PROVE  /\ c = [r |-> c.r, p |-> c.p, e |-> c.e]
         /\ c.r \in Nat /\ c.p \in Nat /\ c.e \in Nat
         /\ [c EXCEPT !.r = @ + 1] = [r |-> c.r + 1, p |-> c.p, e |-> c.e]
         /\ [c EXCEPT !.e = @ + 1] = [r |-> c.r, p |-> c.p, e |-> c.e + 1]
         /\ [c EXCEPT !.p = @ + 1, !.e = 1] = [r |-> c.r, p |-> c.p + 1, e |-> 1]
<1>1. PICK a \in Nat, b \in Nat, d \in Nat : c = [r |-> a, p |-> b, e |-> d]
  OBVIOUS
<1>2. c.r = a /\ c.p = b /\ c.e = d
  BY <1>1
<1>3. [c EXCEPT !.r = @ + 1] = [r |-> a + 1, p |-> b, e |-> d]
  BY <1>1
<1>4. [c EXCEPT !.e = @ + 1] = [r |-> a, p |-> b, e |-> d + 1]
  BY <1>1
<1>5. [c EXCEPT !.p = @ + 1, !.e = 1] = [r |-> a, p |-> b + 1, e |-> 1]
  <2> DEFINE x == [c EXCEPT !.p = @ + 1, !.e = 1]
             y == [r |-> a, p |-> b + 1, e |-> 1]
  <2>1. DOMAIN x = {"r", "p", "e"} /\ DOMAIN y = {"r", "p", "e"}
    BY <1>1
  <2>2. x.r = a /\ x.p = b + 1 /\ x.e = 1
    BY <1>1
  <2>3. x = [i \in {"r", "p", "e"} |-> x[i]] /\ y = [i \in {"r", "p", "e"} |-> y[i]]
    BY <2>1
  <2>4. y.r = a /\ y.p = b + 1 /\ y.e = 1
    OBVIOUS
  <2> HIDE DEF x, y
  <2>5. \A i \in {"r", "p", "e"} : x[i] = y[i]
    BY <2>2, <2>4
  <2>6. x = y
    BY <2>3, <2>5
  <2> QED BY <2>6 DEF x, y
<1> QED BY <1>1, <1>2, <1>3, <1>4, <1>5

(***************************************************************************)
(* NextElem moves the cursors behind the place where they are and behind   *)
(* no other, and it reaches the end when every place was visited.          *)
(***************************************************************************)
LEMMA NextElemWalks ==
  ASSUME TypeOK, WalkIsRight, phase = "terms", ~NothingToMatch, NextElem,
         rules' \in Seq(Rule), SameShape(rules', rules)
  PROVE  /\ Lists(rules, cur.r, cur.p, cur.e)
         /\ cur' \in [r : Nat, p : Nat, e : Nat]
         /\ phase' \in {"terms", "done"}
         /\ WalkIsRight'
         /\ \A r, p, e : Lists(rules, r, p, e) =>
              (PassedAt(r, p, e)' <=> PassedAt(r, p, e) \/ IsHere(r, p, e))
<1> DEFINE L == Len(rules)
           r0 == cur.r
           p0 == cur.p
           e0 == cur.e
           NP == NPats(rules, r0)
           NE == NElems(rules, r0, p0)
           r1 == cur'.r
           p1 == cur'.p
           e1 == cur'.e
<1>1. /\ rules \in Seq(Rule) /\ L \in Nat /\ r0 \in 1 .. L
      /\ p0 \in Nat /\ e0 \in Nat /\ 1 <= p0 /\ 1 <= e0
      /\ p0 <= NP \/ (p0 = 1 /\ NP = 0)
      /\ e0 <= NE \/ e0 = 1
      /\ \A r \in 1 .. r0 - 1 : FullRule(rules, r)
      /\ \A p \in 1 .. p0 - 1 : NElems(rules, r0, p) > 0
  BY NumbersAreNat DEF TypeOK, WalkIsRight
<1>2. NP \in Nat /\ NP > 0 /\ p0 \in 1 .. NP
  <2>1. NP \in Nat /\ (NP = 0 <=> rules[r0].patterns = <<>>)
    BY <1>1, NumbersAreNat
  <2>2. NP # 0
    BY <2>1 DEF NothingToMatch, WildLoop, Patterns
  <2> QED BY <1>1, <2>1, <2>2
<1>3. NE \in Nat /\ NE > 0 /\ e0 \in 1 .. NE
  <2>1. NE \in Nat /\ (NE = 0 <=> rules[r0].patterns[p0].elems = <<>>)
    BY <1>1, <1>2, NumbersAreNat
  <2>2. NE # 0
    BY <2>1 DEF NothingToMatch, WildLoop, Patterns, Elems
  <2> QED BY <1>1, <2>1, <2>2
<1>4. \A p \in 1 .. p0 : NElems(rules, r0, p) > 0
  BY <1>1, <1>3
<1>5. Len(Elems) = NE /\ Len(Patterns) = NP
  BY DEF Elems, Patterns, NElems, NPats
<1>6. \A r \in 1 .. L : NPats(rules, r) \in Nat
  BY <1>1, NumbersAreNat
<1>7. /\ cur = [r |-> r0, p |-> p0, e |-> e0]
      /\ \/ /\ e0 < NE
            /\ r1 = r0 /\ p1 = p0 /\ e1 = e0 + 1 /\ phase' = "terms"
         \/ /\ e0 >= NE /\ p0 < NP
            /\ r1 = r0 /\ p1 = p0 + 1 /\ e1 = 1 /\ phase' = "terms"
         \/ /\ e0 >= NE /\ p0 >= NP /\ r0 < L
            /\ r1 = r0 + 1 /\ p1 = 1 /\ e1 = 1 /\ phase' = "terms"
         \/ /\ e0 >= NE /\ p0 >= NP /\ r0 >= L
            /\ r1 = r0 /\ p1 = p0 /\ e1 = e0 /\ phase' = "done"
      /\ cur' \in [r : Nat, p : Nat, e : Nat]
  <2>1. cur \in [r : Nat, p : Nat, e : Nat]
    BY DEF TypeOK
  <2>2. /\ cur = [r |-> r0, p |-> p0, e |-> e0]
        /\ r0 \in Nat /\ p0 \in Nat /\ e0 \in Nat
        /\ [cur EXCEPT !.e = @ + 1] = [r |-> r0, p |-> p0, e |-> e0 + 1]
        /\ [cur EXCEPT !.p = @ + 1, !.e = 1] = [r |-> r0, p |-> p0 + 1, e |-> 1]
    BY <2>1, CursorMoves
  <2>3. CASE e0 < NE
    BY <1>5, <2>2, <2>3 DEF NextElem
  <2>4. CASE e0 >= NE /\ p0 < NP
    BY <1>1, <1>2, <1>3, <1>5, <2>2, <2>4
    DEF NextElem, MorePatterns, StartOfNextPattern
  <2>5. CASE e0 >= NE /\ p0 >= NP /\ r0 < L
    BY <1>1, <1>2, <1>3, <1>5, <2>2, <2>5 DEF NextElem, MorePatterns, StartOfNextRule
  <2>6. CASE e0 >= NE /\ p0 >= NP /\ r0 >= L
    BY <1>1, <1>2, <1>3, <1>5, <2>2, <2>6, <2>1 DEF NextElem, MorePatterns, WalkEnds
  <2> QED BY <1>1, <1>2, <1>3, <2>3, <2>4, <2>5, <2>6
<1>8. /\ Len(rules') = L
      /\ \A r \in 1 .. L :
           /\ NPats(rules', r) = NPats(rules, r)
           /\ (FullRule(rules', r) <=> FullRule(rules, r))
           /\ \A p \in 1 .. NPats(rules, r) :
                NElems(rules', r, p) = NElems(rules, r, p)
  BY <1>1, SameNumbers
<1>9. p0 >= NP => FullRule(rules, r0)
  BY <1>1, <1>2, <1>4 DEF FullRule
<1>10. \A r, p, e : Lists(rules, r, p, e) <=> /\ r \in 1 .. L
                                              /\ p \in 1 .. NPats(rules, r)
                                              /\ e \in 1 .. NElems(rules, r, p)
  BY <1>1, ListsAre
<1>11. Lists(rules, r0, p0, e0)
  BY <1>1, <1>2, <1>3, <1>10
<1>12. \A r \in 1 .. L : \A p \in 1 .. NPats(rules, r) : NElems(rules, r, p) \in Nat
  BY <1>1, NumbersAreNat
<1>13. ASSUME NEW r, NEW p, NEW e, Lists(rules, r, p, e)
       PROVE  PassedAt(r, p, e)' <=> PassedAt(r, p, e) \/ IsHere(r, p, e)
  <2>1. /\ r \in 1 .. L /\ p \in 1 .. NPats(rules, r)
        /\ e \in 1 .. NElems(rules, r, p)
        /\ NPats(rules, r) \in Nat /\ NElems(rules, r, p) \in Nat
    BY <1>6, <1>10, <1>12, <1>13
  <2>2. /\ PassedAt(r, p, e)
             <=> r < r0 \/ (r = r0 /\ p < p0) \/ (r = r0 /\ p = p0 /\ e < e0)
        /\ IsHere(r, p, e) <=> r = r0 /\ p = p0 /\ e = e0
    BY DEF PassedAt, IsHere
  <2>3. PassedAt(r, p, e)'
          <=> \/ phase' = "done"
              \/ /\ phase' = "terms"
                 /\ r < r1 \/ (r = r1 /\ p < p1) \/ (r = r1 /\ p = p1 /\ e < e1)
    BY DEF PassedAt
  <2> HIDE DEF L, r0, p0, e0, r1, p1, e1
  <2>4. CASE r # r0
    <3>1. r \in Nat /\ r0 \in Nat /\ L \in Nat /\ p \in Nat /\ e \in Nat /\ 1 <= p /\ 1 <= e
      BY <1>1, <2>1
    <3>2. PassedAt(r, p, e)' <=> r < r0
      <4>1. CASE e0 < NE
        BY <1>1, <1>2, <1>3, <1>7, <2>3, <2>4, <3>1, <4>1
      <4>2. CASE e0 >= NE /\ p0 < NP
        BY <1>1, <1>2, <1>3, <1>7, <2>3, <2>4, <3>1, <4>2
      <4>3. CASE e0 >= NE /\ p0 >= NP /\ r0 < L
        <5>1. r1 = r0 + 1 /\ p1 = 1 /\ e1 = 1 /\ phase' = "terms"
          BY <1>1, <1>2, <1>3, <1>7, <4>3
        <5> QED BY <2>3, <2>4, <3>1, <5>1
      <4>4. CASE e0 >= NE /\ p0 >= NP /\ r0 >= L
        <5>1. phase' = "done" /\ r0 = L
          BY <1>1, <1>2, <1>3, <1>7, <4>4
        <5> QED BY <2>1, <2>3, <2>4, <3>1, <5>1
      <4> QED BY <1>1, <1>2, <1>3, <4>1, <4>2, <4>3, <4>4
    <3> QED BY <2>2, <2>4, <3>1, <3>2
  <2>5. CASE r = r0 /\ p # p0
    BY <1>1, <1>2, <1>3, <1>7, <2>1, <2>2, <2>3, <2>5, SMTT(30)
  <2>6. CASE r = r0 /\ p = p0
    BY <1>1, <1>2, <1>3, <1>7, <2>1, <2>2, <2>3, <2>6, SMTT(30)
  <2> QED BY <2>4, <2>5, <2>6
<1>14. WalkIsRight'
  <2> HIDE DEF L, r0, p0, e0, r1, p1, e1
  <2>1. CASE phase' = "terms"
    <3>1. /\ r1 \in 1 .. L /\ p1 \in Nat /\ 1 <= p1 /\ 1 <= e1
          /\ p1 <= NPats(rules, r1) \/ (p1 = 1 /\ NPats(rules, r1) = 0)
          /\ e1 <= NElems(rules, r1, p1) \/ e1 = 1
          /\ \A r \in 1 .. r1 - 1 : FullRule(rules, r)
          /\ \A p \in 1 .. p1 - 1 : NElems(rules, r1, p) > 0
      <4>1. CASE e0 < NE
        <5>1. r1 = r0 /\ p1 = p0 /\ e1 = e0 + 1
          BY <1>1, <1>2, <1>3, <1>7, <4>1
        <5> QED BY <1>1, <1>2, <1>3, <4>1, <5>1
      <4>2. CASE e0 >= NE /\ p0 < NP
        <5>1. r1 = r0 /\ p1 = p0 + 1 /\ e1 = 1
          BY <1>1, <1>2, <1>3, <1>7, <4>2
        <5> QED BY <1>1, <1>2, <1>4, <4>2, <5>1
      <4>3. CASE e0 >= NE /\ p0 >= NP
        <5>1. r1 = r0 + 1 /\ p1 = 1 /\ e1 = 1 /\ r0 < L
          BY <1>1, <1>2, <1>3, <1>7, <2>1, <4>3
        <5>2. r1 \in 1 .. L /\ NPats(rules, r1) \in Nat
          BY <1>1, <1>6, <5>1
        <5>3. \A r \in 1 .. r1 - 1 : FullRule(rules, r)
          BY <1>1, <1>9, <4>3, <5>1
        <5>4. 1 <= NPats(rules, r1) \/ NPats(rules, r1) = 0
          BY <5>2
        <5> QED BY <5>1, <5>2, <5>3, <5>4
      <4> QED BY <1>2, <1>3, <4>1, <4>2, <4>3
    <3>2. /\ NPats(rules', r1) = NPats(rules, r1)
          /\ \A r \in 1 .. r1 - 1 : FullRule(rules', r)
      BY <1>1, <1>8, <3>1
    <3>3. e1 <= NElems(rules', r1, p1) \/ e1 = 1
      BY <1>1, <1>2, <1>7, <1>8, <2>1, <3>1
    <3>4. ASSUME NEW p \in 1 .. p1 - 1
          PROVE  NElems(rules', r1, p) > 0
      <4>1. p \in 1 .. NPats(rules, r1)
        <5>1. NPats(rules, r1) \in Nat
          BY <1>6, <3>1
        <5> QED BY <3>1, <5>1
      <4> QED BY <1>8, <3>1, <4>1
    <3> QED BY <1>8, <2>1, <3>1, <3>2, <3>3, <3>4 DEF WalkIsRight, L, r1, p1, e1
  <2>2. CASE phase' = "done"
    <3>1. L > 0 /\ r0 = L /\ FullRule(rules, r0)
      BY <1>1, <1>2, <1>7, <1>9, <2>2
    <3>2. \A r \in 1 .. L : FullRule(rules, r)
      BY <1>1, <3>1
    <3> QED BY <1>8, <2>2, <3>1, <3>2 DEF WalkIsRight, L
  <2> QED BY <1>7, <2>1, <2>2
<1> QED BY <1>7, <1>11, <1>13, <1>14

-----------------------------------------------------------------------------
(* What has been collected.                                                *)

NamesOf(rs, n) == {rs[r].name : r \in 1 .. n}
Duplicates(rs, n) == {r \in 1 .. n : \E q \in 1 .. r - 1 : rs[q].name = rs[r].name}

(* The rules before the cursor are listed, or were reported.               *)
NamesAreRight ==
  /\ phase = "non_terms" =>
       /\ cur.r \in 1 .. Len(rules) \/ (cur.r = 1 /\ Len(rules) = 0)
       /\ cur.p = 1 /\ cur.e = 1
       /\ terminals = <<>>
       /\ ToSet(non_terminals) = NamesOf(rules, cur.r - 1)
       /\ errors = Cardinality(Duplicates(rules, cur.r - 1))
  /\ phase \in {"terms", "done"} =>
       /\ ToSet(non_terminals) = RuleNames
       /\ errors = Cardinality(Duplicates(rules, Len(rules)))
  /\ phase # "crash" => IsInjective(non_terminals)

Passed(w) == PassedAt(w[1], w[2], w[3])

(* Every terminal was met, and is listed where it was met first.           *)
TerminalsAreMet ==
  \A i \in DOMAIN terminals :
    /\ terminals[i] \notin RuleNames
    /\ \E w \in Places : Passed(w) /\ FirstUse(w) /\ ElemAt(w).str = terminals[i]

MetIsListed ==
  \A w \in Places : Passed(w) /\ ElemAt(w).str \notin RuleNames =>
                      StrInLst(terminals, ElemAt(w).str)

FlagsAreRight ==
  \A w \in Places :
    ElemAt(w).is_terminal
      <=> Passed(w) /\ FirstUse(w) /\ ElemAt(w).str \notin RuleNames

InOrder ==
  \A i, j \in DOMAIN terminals : i < j =>
    \E v, w \in Places :
      /\ Before(v, w) /\ FirstUse(v) /\ FirstUse(w)
      /\ ElemAt(v).str = terminals[i] /\ ElemAt(w).str = terminals[j]

TermsAreRight ==
  phase # "crash" =>
    /\ TerminalsAreMet /\ MetIsListed /\ FlagsAreRight /\ InOrder
    /\ IsInjective(terminals)

IInv == TypeOK /\ WalkIsRight /\ NamesAreRight /\ TermsAreRight

(* A string occurs in a list when it is in its set.                        *)
LEMMA InListIsInSet ==
  ASSUME NEW lst, NEW s
  PROVE  StrInLst(lst, s) <=> s \in ToSet(lst)
BY DEF StrInLst, ToSet

(* A list with one more string.                                            *)
LEMMA OneMore ==
  ASSUME NEW lst \in Seq(Symbols), NEW s \in Symbols
  PROVE  /\ Append(lst, s) \in Seq(Symbols)
         /\ DOMAIN Append(lst, s) = DOMAIN lst \cup {Len(lst) + 1}
         /\ Append(lst, s)[Len(lst) + 1] = s
         /\ \A i \in DOMAIN lst : Append(lst, s)[i] = lst[i] /\ i < Len(lst) + 1
         /\ Len(lst) + 1 \notin DOMAIN lst
         /\ ToSet(Append(lst, s)) = ToSet(lst) \cup {s}
         /\ ~StrInLst(lst, s) /\ IsInjective(lst) => IsInjective(Append(lst, s))
<1> DEFINE l == Append(lst, s)
           n == Len(lst) + 1
<1>1. /\ l \in Seq(Symbols) /\ DOMAIN l = DOMAIN lst \cup {n} /\ l[n] = s
      /\ \A i \in DOMAIN lst : l[i] = lst[i] /\ i < n
      /\ n \notin DOMAIN lst
  OBVIOUS
<1> HIDE DEF l, n
<1>2. ToSet(l) = ToSet(lst) \cup {s}
  BY <1>1 DEF ToSet
<1>3. ~StrInLst(lst, s) /\ IsInjective(lst) => IsInjective(l)
  BY <1>1 DEF StrInLst, IsInjective
<1> QED BY <1>1, <1>2, <1>3 DEF l, n

(***************************************************************************)
(* One element: it is collected and flagged when it is a terminal that was *)
(* not met before, and passed over otherwise.                              *)
(***************************************************************************)
LEMMA ElemIsCollected ==
  ASSUME TermsAreRight, phase # "crash", terminals \in Seq(Symbols),
         ToSet(non_terminals) = RuleNames,
         NEW h \in Places, ~Passed(h), ElemAt(h).str \in Symbols,
         \A v \in Places : Passed(v) <=> Before(v, h),
         Places' = Places, RuleNames' = RuleNames,
         \A w \in Places : ElemAt(w)'.str = ElemAt(w).str,
         \A w \in Places : Passed(w)' <=> Passed(w) \/ w = h,
         \/ /\ IsTerm(ElemAt(h).str)
            /\ terminals' = Append(terminals, ElemAt(h).str)
            /\ \A w \in Places : ElemAt(w)'.is_terminal
                                   <=> ElemAt(w).is_terminal \/ w = h
         \/ /\ ~IsTerm(ElemAt(h).str)
            /\ terminals' = terminals
            /\ \A w \in Places : ElemAt(w)'.is_terminal <=> ElemAt(w).is_terminal
  PROVE  TermsAreRight' /\ terminals' \in Seq(Symbols)
<1> DEFINE x == ElemAt(h).str
<1>1. TerminalsAreMet /\ MetIsListed /\ FlagsAreRight /\ InOrder /\ IsInjective(terminals)
  BY DEF TermsAreRight
<1>2. \A w \in Places : FirstUse(w)' <=> FirstUse(w)
  BY DEF FirstUse
<1>3. IsTerm(x) <=> x \notin RuleNames /\ FirstUse(h)
  <2>1. IsTerm(x) <=> x \notin RuleNames /\ ~StrInLst(terminals, x)
    BY InListIsInSet DEF IsTerm
  <2>2. ASSUME x \notin RuleNames, FirstUse(h)
        PROVE  ~StrInLst(terminals, x)
    <3>1. SUFFICES ASSUME NEW i \in DOMAIN terminals, terminals[i] = x
                   PROVE  FALSE
      BY DEF StrInLst
    <3>2. PICK w \in Places : Passed(w) /\ ElemAt(w).str = x
      BY <1>1, <3>1 DEF TerminalsAreMet
    <3> QED BY <2>2, <3>2 DEF FirstUse
  <2>3. ASSUME x \notin RuleNames, ~FirstUse(h)
        PROVE  StrInLst(terminals, x)
    <3>1. PICK v \in Places : Before(v, h) /\ ElemAt(v).str = x
      BY <2>3 DEF FirstUse
    <3> QED BY <1>1, <2>3, <3>1 DEF MetIsListed
  <2> QED BY <2>1, <2>2, <2>3
<1>4. FlagsAreRight'
  <2> SUFFICES ASSUME NEW w \in Places
               PROVE  ElemAt(w)'.is_terminal
                        <=> Passed(w)' /\ FirstUse(w)' /\ ElemAt(w)'.str \notin RuleNames
    BY DEF FlagsAreRight
  <2>1. ElemAt(w).is_terminal
          <=> Passed(w) /\ FirstUse(w) /\ ElemAt(w).str \notin RuleNames
    BY <1>1 DEF FlagsAreRight
  <2> QED BY <1>2, <1>3, <2>1
<1>5. CASE ~IsTerm(x)
  <2>1. terminals' = terminals
    BY <1>5
  <2>2. TerminalsAreMet'
    BY <1>1, <1>2, <2>1 DEF TerminalsAreMet
  <2>3. MetIsListed'
    <3>1. x \notin RuleNames => StrInLst(terminals, x)
      BY <1>5, InListIsInSet DEF IsTerm
    <3> QED BY <1>1, <2>1, <3>1 DEF MetIsListed, StrInLst
  <2>4. InOrder'
    BY <1>1, <1>2, <2>1 DEF InOrder
  <2>5. IsInjective(terminals')
    BY <1>1, <2>1
  <2> QED BY <1>4, <2>1, <2>2, <2>3, <2>4, <2>5 DEF TermsAreRight
<1>6. CASE IsTerm(x)
  <2> DEFINE n == Len(terminals) + 1
  <2>1. terminals' = Append(terminals, x)
    BY <1>6
  <2>2. /\ terminals' \in Seq(Symbols)
        /\ DOMAIN terminals' = DOMAIN terminals \cup {n} /\ terminals'[n] = x
        /\ \A i \in DOMAIN terminals : terminals'[i] = terminals[i] /\ i < n
        /\ n \notin DOMAIN terminals
        /\ ~StrInLst(terminals, x) /\ IsInjective(terminals) => IsInjective(terminals')
    BY <2>1, OneMore
  <2>3. x \notin RuleNames /\ FirstUse(h) /\ ~StrInLst(terminals, x)
    BY <1>3, <1>6 DEF IsTerm
  <2> HIDE DEF n
  <2>4. TerminalsAreMet'
    <3> SUFFICES ASSUME NEW i \in DOMAIN terminals'
                 PROVE  /\ terminals'[i] \notin RuleNames
                        /\ \E w \in Places : Passed(w)' /\ FirstUse(w)'
                                              /\ ElemAt(w)'.str = terminals'[i]
      BY DEF TerminalsAreMet
    <3>1. CASE i = n
      BY <1>2, <2>2, <2>3, <3>1
    <3>2. CASE i \in DOMAIN terminals
      <4>1. terminals[i] \notin RuleNames /\ terminals'[i] = terminals[i]
        BY <1>1, <2>2, <3>2 DEF TerminalsAreMet
      <4>2. PICK w \in Places :
              Passed(w) /\ FirstUse(w) /\ ElemAt(w).str = terminals[i]
        BY <1>1, <3>2 DEF TerminalsAreMet
      <4> QED BY <1>2, <4>1, <4>2
    <3> QED BY <2>2, <3>1, <3>2
  <2>5. MetIsListed'
    <3> SUFFICES ASSUME NEW w \in Places, Passed(w)', ElemAt(w).str \notin RuleNames
                 PROVE  \E i \in DOMAIN terminals' : terminals'[i] = ElemAt(w).str
      BY DEF MetIsListed, StrInLst
    <3>1. CASE w = h
      BY <2>2, <3>1
    <3>2. CASE Passed(w)
      <4>1. PICK i \in DOMAIN terminals : terminals[i] = ElemAt(w).str
        BY <1>1, <3>2 DEF MetIsListed, StrInLst
      <4> QED BY <2>2, <4>1
    <3> QED BY <3>1, <3>2
  <2>6. InOrder'
    <3> SUFFICES ASSUME NEW i \in DOMAIN terminals', NEW j \in DOMAIN terminals', i < j
                 PROVE  \E v, w \in Places :
                          /\ Before(v, w) /\ FirstUse(v)' /\ FirstUse(w)'
                          /\ ElemAt(v)'.str = terminals'[i]
                          /\ ElemAt(w)'.str = terminals'[j]
      BY DEF InOrder, Before
    <3>1. CASE j \in DOMAIN terminals
      <4>1. i \in DOMAIN terminals
        BY <2>2, <3>1 DEF n
      <4>2. PICK v \in Places, w \in Places :
              /\ Before(v, w) /\ FirstUse(v) /\ FirstUse(w)
              /\ ElemAt(v).str = terminals[i] /\ ElemAt(w).str = terminals[j]
        BY <1>1, <3>1, <4>1 DEF InOrder
      <4> QED BY <1>2, <2>2, <3>1, <4>1, <4>2
    <3>2. CASE j = n
      <4>1. i \in DOMAIN terminals
        BY <2>2, <3>2 DEF n
      <4>2. PICK v \in Places : Passed(v) /\ FirstUse(v) /\ ElemAt(v).str = terminals[i]
        BY <1>1, <4>1 DEF TerminalsAreMet
      <4>3. Before(v, h) /\ FirstUse(v)' /\ FirstUse(h)'
        BY <1>2, <2>3, <4>2
      <4> QED BY <2>2, <3>2, <4>1, <4>2, <4>3
    <3> QED BY <2>2, <3>1, <3>2
  <2> QED BY <1>1, <1>4, <2>2, <2>3, <2>4, <2>5, <2>6 DEF TermsAreRight
<1> QED BY <1>5, <1>6

-----------------------------------------------------------------------------
(* The invariant: its beginning, and the steps of the two passes.          *)

(* The passes begin with empty lists, on rules as the parser made them.    *)
LEMMA PassesBegin ==
  ASSUME PreInit, rules \in Seq(Rule), Unflagged(rules), errors = 0
  PROVE  IInv
<1> USE DEF PreInit, Start
<1>1. TypeOK
  BY DEF TypeOK
<1>2. WalkIsRight
  BY DEF WalkIsRight
<1>3. NamesAreRight
  <2>1. 1 .. 0 = {} /\ Len(rules) \in Nat
    OBVIOUS
  <2>2. Duplicates(rules, 0) = {} /\ NamesOf(rules, 0) = {}
    BY <2>1 DEF Duplicates, NamesOf
  <2>3. ToSet(non_terminals) = {} /\ IsInjective(non_terminals)
    BY DEF ToSet, IsInjective
  <2>4. cur.r = 1 /\ cur.p = 1 /\ cur.e = 1 /\ cur.r - 1 = 0
    OBVIOUS
  <2>5. cur.r \in 1 .. Len(rules) \/ (cur.r = 1 /\ Len(rules) = 0)
    BY <2>1, <2>4
  <2> QED BY <2>2, <2>3, <2>4, <2>5, FS_EmptySet DEF NamesAreRight
<1>4. TermsAreRight
  <2>1. \A w \in Places : ~ElemAt(w).is_terminal
    BY PlacesAre DEF Unflagged, Lists, ElemAt
  <2>2. \A w : ~Passed(w)
    BY DEF Passed, PassedAt
  <2>3. TerminalsAreMet /\ MetIsListed /\ InOrder /\ IsInjective(terminals)
    BY <2>2 DEF TerminalsAreMet, MetIsListed, InOrder, IsInjective
  <2>4. FlagsAreRight
    BY <2>1, <2>2 DEF FlagsAreRight
  <2> QED BY <2>3, <2>4 DEF TermsAreRight
<1> QED BY <1>1, <1>2, <1>3, <1>4 DEF IInv

(* Where nothing was passed, nothing needs to be listed.                   *)
LEMMA NothingPassed ==
  ASSUME TermsAreRight, phase = "non_terms", terminals = <<>>,
         UNCHANGED <<rules, terminals>>, \A w \in Places : ~Passed(w)'
  PROVE  TermsAreRight'
<1>1. \A w \in Places : ~Passed(w)
  BY DEF Passed, PassedAt
<1>2. Places' = Places /\ RuleNames' = RuleNames /\ \A w : ElemAt(w)' = ElemAt(w)
  BY DEF Places, RuleNames, ElemAt
<1>3. \A w \in Places : ~ElemAt(w).is_terminal
  BY <1>1 DEF TermsAreRight, FlagsAreRight
<1>4. TerminalsAreMet' /\ MetIsListed' /\ InOrder' /\ IsInjective(terminals')
  BY <1>2 DEF TerminalsAreMet, MetIsListed, InOrder, IsInjective
<1>5. FlagsAreRight'
  BY <1>2, <1>3 DEF FlagsAreRight
<1> QED BY <1>4, <1>5 DEF TermsAreRight

(* make_non_terms: one rule is listed, or reported as a duplicate.         *)
LEMMA NamesStep ==
  ASSUME IInv, AddNonTerm \/ DuplicateRule
  PROVE  IInv'
<1> DEFINE k == cur.r
           s == rules[k].name
<1>1. /\ phase = "non_terms" /\ rules # <<>> /\ NextRule
      /\ UNCHANGED <<rules, terminals>>
      /\ terminals = <<>>
  BY DEF AddNonTerm, DuplicateRule, WildLoop, IInv, NamesAreRight
<1>2. /\ rules \in Seq(Rule) /\ non_terminals \in Seq(Symbols) /\ errors \in Nat
      /\ cur \in [r : Nat, p : Nat, e : Nat]
  BY DEF IInv, TypeOK
<1>3. /\ Len(rules) \in Nat /\ Len(rules) # 0 /\ DOMAIN rules = 1 .. Len(rules)
  BY <1>1, <1>2
<1>4. /\ k \in 1 .. Len(rules) /\ cur.p = 1 /\ cur.e = 1
      /\ ToSet(non_terminals) = NamesOf(rules, k - 1)
      /\ errors = Cardinality(Duplicates(rules, k - 1))
      /\ IsInjective(non_terminals)
  BY <1>1, <1>3 DEF IInv, NamesAreRight
<1>5. s \in Symbols
  BY <1>2, <1>3, <1>4, RuleListParts
<1>6. NamesOf(rules, k) = NamesOf(rules, k - 1) \cup {s}
  <2>1. 1 .. k = (1 .. k - 1) \cup {k}
    BY <1>3, <1>4
  <2> QED BY <2>1 DEF NamesOf
<1>7. StrInLst(non_terminals, s) <=> \E q \in 1 .. k - 1 : rules[q].name = s
  BY <1>4, InListIsInSet DEF NamesOf
<1>8. /\ ToSet(non_terminals') = NamesOf(rules, k) /\ IsInjective(non_terminals')
      /\ non_terminals' \in Seq(Symbols)
      /\ errors' \in Nat /\ errors' = Cardinality(Duplicates(rules, k))
  <2>1. k \in Nat /\ 1 .. k = (1 .. k - 1) \cup {k} /\ k \notin 1 .. k - 1
    BY <1>3, <1>4
  <2>2. CASE AddNonTerm
    <3>1. ~StrInLst(non_terminals, s) /\ non_terminals' = Append(non_terminals, s)
          /\ errors' = errors
      BY <2>2 DEF AddNonTerm, NamesWith
    <3>2. Duplicates(rules, k) = Duplicates(rules, k - 1)
      BY <1>7, <2>1, <3>1 DEF Duplicates
    <3>3. /\ non_terminals' \in Seq(Symbols)
          /\ ToSet(non_terminals') = ToSet(non_terminals) \cup {s}
          /\ IsInjective(non_terminals')
      BY <1>2, <1>4, <1>5, <3>1, OneMore
    <3> QED BY <1>2, <1>4, <1>6, <3>1, <3>2, <3>3
  <2>3. CASE DuplicateRule
    <3>1. StrInLst(non_terminals, s) /\ non_terminals' = non_terminals
          /\ errors' = errors + 1
      BY <2>3 DEF DuplicateRule, Reported
    <3>2. Duplicates(rules, k) = Duplicates(rules, k - 1) \cup {k} /\ k \notin Duplicates(rules, k - 1)
      BY <1>7, <2>1, <3>1 DEF Duplicates
    <3>3. IsFiniteSet(Duplicates(rules, k - 1))
      <4>1. IsFiniteSet(1 .. k - 1)
        BY <2>1, FS_Interval
      <4> QED BY <4>1, FS_Subset DEF Duplicates
    <3>4. Cardinality(Duplicates(rules, k)) = Cardinality(Duplicates(rules, k - 1)) + 1
      BY <3>2, <3>3, FS_AddElement
    <3>5. s \in NamesOf(rules, k - 1)
      BY <1>7, <3>1 DEF NamesOf
    <3>6. ToSet(non_terminals') = NamesOf(rules, k)
      BY <1>4, <1>6, <3>1, <3>5
    <3> QED BY <1>2, <1>4, <3>1, <3>4, <3>6
  <2> QED BY <2>2, <2>3
<1> HIDE DEF k
<1>10. CASE k < Len(rules)
  <2>1. phase' = "non_terms" /\ cur' = [cur EXCEPT !.r = @ + 1]
    BY <1>1, <1>10 DEF NextRule, k
  <2>2. cur' = [r |-> k + 1, p |-> 1, e |-> 1]
    BY <1>2, <1>4, <2>1, CursorMoves DEF k
  <2>3. k \in Nat /\ (k + 1) - 1 = k /\ k + 1 \in 1 .. Len(rules) /\ 1 \in Nat
    BY <1>3, <1>4, <1>10
  <2>4. TypeOK'
    BY <1>1, <1>2, <1>8, <2>1, <2>2, <2>3, SMTT(30) DEF TypeOK, IInv
  <2>5. WalkIsRight'
    BY <2>1 DEF WalkIsRight
  <2>6. cur'.r = k + 1 /\ cur'.p = 1 /\ cur'.e = 1 /\ cur'.r - 1 = k
    BY <2>2, <2>3
  <2>8. NamesAreRight'
    <3>1. rules' = rules /\ terminals' = <<>>
      BY <1>1
    <3>2. ToSet(non_terminals)' = NamesOf(rules', cur'.r - 1)
      BY <1>8, <2>6, <3>1 DEF ToSet
    <3>3. errors' = Cardinality(Duplicates(rules', cur'.r - 1))
      BY <1>8, <2>6, <3>1
    <3> QED BY <1>8, <2>1, <2>3, <2>6, <3>1, <3>2, <3>3 DEF NamesAreRight
  <2>9. TermsAreRight'
    <3>1. \A w : ~Passed(w)'
      BY <2>1 DEF Passed, PassedAt
    <3> QED BY <1>1, <3>1, NothingPassed DEF IInv
  <2> QED BY <2>4, <2>5, <2>8, <2>9 DEF IInv
<1>11. CASE ~(k < Len(rules))
  <2>1. phase' = "terms" /\ cur' = [r |-> 1, p |-> 1, e |-> 1]
    BY <1>1, <1>11 DEF NextRule, k, Start
  <2>2. k = Len(rules) /\ 1 \in Nat
    <3>1. Len(rules) \in Nat /\ k \in 1 .. Len(rules) /\ ~(k < Len(rules))
      BY <1>3, <1>4, <1>11
    <3> QED BY <3>1
  <2>3. TypeOK'
    BY <1>1, <1>2, <1>8, <2>1, <2>2 DEF TypeOK, IInv
  <2>4. WalkIsRight'
    <3>1. rules' = rules /\ cur'.r = 1 /\ cur'.p = 1 /\ cur'.e = 1
      BY <1>1, <2>1
    <3>2. 1 \in 1 .. Len(rules) /\ 1 .. 1 - 1 = {} /\ NPats(rules, 1) \in Nat
      BY <1>2, <1>3, NumbersAreNat
    <3>3. 1 <= NPats(rules, 1) \/ NPats(rules, 1) = 0
      BY <3>2
    <3> QED BY <2>1, <3>1, <3>2, <3>3 DEF WalkIsRight
  <2>5. NamesAreRight'
    <3>1. RuleNames' = NamesOf(rules, Len(rules)) /\ rules' = rules
      BY <1>1, <1>3 DEF RuleNames, NamesOf
    <3>2. errors' = Cardinality(Duplicates(rules', Len(rules')))
      BY <1>8, <2>2, <3>1
    <3>3. ToSet(non_terminals)' = RuleNames'
      BY <1>8, <2>2, <3>1 DEF ToSet
    <3> QED BY <1>8, <2>1, <3>2, <3>3 DEF NamesAreRight
  <2>6. TermsAreRight'
    <3>1. \A w \in Places : ~Passed(w)'
      <4> SUFFICES ASSUME NEW w \in Places
                   PROVE  ~Passed(w)'
        OBVIOUS
      <4>1. Lists(rules, w[1], w[2], w[3])
        BY PlacesAre
      <4>2. w[1] \in Nat /\ w[2] \in Nat /\ w[3] \in Nat
            /\ 1 <= w[1] /\ 1 <= w[2] /\ 1 <= w[3]
        <5>1. /\ w[1] \in 1 .. Len(rules) /\ w[2] \in 1 .. NPats(rules, w[1])
              /\ w[3] \in 1 .. NElems(rules, w[1], w[2])
          BY <1>2, <4>1, ListsAre
        <5> QED BY <5>1
      <4>3. cur'.r = 1 /\ cur'.p = 1 /\ cur'.e = 1 /\ phase' # "done"
        BY <2>1
      <4>4. ~PassedAt(w[1], w[2], w[3])'
        BY <4>2, <4>3 DEF PassedAt
      <4> QED BY <4>4 DEF Passed
    <3> QED BY <1>1, <3>1, NothingPassed DEF IInv
  <2> QED BY <2>3, <2>4, <2>5, <2>6 DEF IInv
<1> QED BY <1>10, <1>11

(* Where no list is empty, the cursors are on a place.                     *)
LEMMA CursorsOnPlace ==
  ASSUME TypeOK, WalkIsRight, phase = "terms", ~NothingToMatch
  PROVE  Lists(rules, cur.r, cur.p, cur.e)
<1> DEFINE NP == NPats(rules, cur.r)
           NE == NElems(rules, cur.r, cur.p)
<1>1. /\ rules \in Seq(Rule) /\ cur.r \in 1 .. Len(rules)
      /\ cur.p \in Nat /\ cur.e \in Nat /\ 1 <= cur.p /\ 1 <= cur.e
      /\ cur.p <= NP \/ (cur.p = 1 /\ NP = 0)
      /\ cur.e <= NE \/ cur.e = 1
  BY DEF TypeOK, WalkIsRight
<1>2. NP \in Nat /\ (NP = 0 <=> Patterns = <<>>)
  BY <1>1, NumbersAreNat DEF Patterns
<1>3. NP # 0
  BY <1>2 DEF NothingToMatch, WildLoop
<1>4. cur.p \in 1 .. NP
  BY <1>1, <1>2, <1>3
<1>5. NE \in Nat /\ (NE = 0 <=> Elems = <<>>)
  BY <1>1, <1>4, NumbersAreNat DEF Elems, Patterns
<1>6. NE # 0
  BY <1>5 DEF NothingToMatch, WildLoop
<1>7. cur.e \in 1 .. NE
  BY <1>1, <1>5, <1>6
<1> QED BY <1>1, <1>4, <1>7, ListsAre

(* Flags change no name and no place.                                      *)
LEMMA ShapeKeeps ==
  ASSUME rules \in Seq(Rule), rules' \in Seq(Rule), SameShape(rules', rules)
  PROVE  /\ Places' = Places /\ RuleNames' = RuleNames
         /\ Duplicates(rules', Len(rules')) = Duplicates(rules, Len(rules))
         /\ \A w \in Places : ElemAt(w)'.str = ElemAt(w).str
<1>1. /\ Len(rules') = Len(rules)
      /\ \A r, p, e : Lists(rules', r, p, e) <=> Lists(rules, r, p, e)
  BY SameNumbers
<1>2. Places' = Places
  <2>1. /\ \A w \in Places' : w = <<w[1], w[2], w[3]>> /\ Lists(rules', w[1], w[2], w[3])
        /\ \A r, p, e : Lists(rules', r, p, e) => <<r, p, e>> \in Places'
    <3>1. Places' = PlacesOf(rules')
      BY DEF Places, PlacesOf
    <3> QED BY <3>1, PlacesOfAre
  <2>3. \A w \in Places : w = <<w[1], w[2], w[3]>> /\ Lists(rules, w[1], w[2], w[3])
    BY PlacesAre
  <2>4. \A r, p, e : Lists(rules, r, p, e) => <<r, p, e>> \in Places
    BY PlacesAre
  <2>5. \A w \in Places' : w \in Places
    BY <1>1, <2>1, <2>4
  <2>6. \A w \in Places : w \in Places'
    BY <1>1, <2>1, <2>3
  <2> QED BY <2>5, <2>6
<1>3. \A r \in 1 .. Len(rules) : rules'[r].name = rules[r].name
  BY DEF SameShape
<1>4. DOMAIN rules = 1 .. Len(rules) /\ DOMAIN rules' = 1 .. Len(rules)
      /\ Len(rules) \in Nat
  BY <1>1
<1>5. RuleNames' = RuleNames
  BY <1>3, <1>4 DEF RuleNames
<1>6. Duplicates(rules', Len(rules')) = Duplicates(rules, Len(rules))
  <2>1. \A r \in 1 .. Len(rules) : \A q \in 1 .. r - 1 : q \in 1 .. Len(rules)
    BY <1>4
  <2> QED BY <1>1, <1>3, <2>1 DEF Duplicates
<1>7. \A w \in Places : ElemAt(w)'.str = ElemAt(w).str
  <2> SUFFICES ASSUME NEW w \in Places
               PROVE  ElemAt(w)'.str = ElemAt(w).str
    OBVIOUS
  <2>1. /\ w[1] \in 1 .. Len(rules) /\ w[2] \in 1 .. NPats(rules, w[1])
        /\ w[3] \in 1 .. NElems(rules, w[1], w[2])
    BY PlacesAre, ListsAre
  <2> QED BY <2>1 DEF SameShape, NPats, NElems, ElemAt
<1> QED BY <1>2, <1>5, <1>6, <1>7

(* make_terms: one element is collected or passed over.                    *)
LEMMA TermsStep ==
  ASSUME IInv, AddTerm \/ SkipTerm
  PROVE  IInv'
<1> DEFINE h == <<cur.r, cur.p, cur.e>>
<1>1. /\ TypeOK /\ WalkIsRight /\ NamesAreRight /\ TermsAreRight
      /\ phase = "terms" /\ ~NothingToMatch /\ NextElem
      /\ UNCHANGED <<non_terminals, errors>>
  BY DEF IInv, AddTerm, SkipTerm
<1>2. Lists(rules, cur.r, cur.p, cur.e)
  BY <1>1, CursorsOnPlace
<1>3. /\ rules \in Seq(Rule) /\ terminals \in Seq(Symbols)
      /\ non_terminals \in Seq(Symbols) /\ errors \in Nat
      /\ cur = [r |-> cur.r, p |-> cur.p, e |-> cur.e]
      /\ cur.r \in Nat /\ cur.p \in Nat /\ cur.e \in Nat
  BY <1>1, CursorMoves DEF TypeOK
<1>4. /\ rules' \in Seq(Rule) /\ SameShape(rules', rules)
      /\ AddTerm => \A a, b, c : Lists(rules, a, b, c) =>
           (rules'[a].patterns[b].elems[c].is_terminal
              <=> \/ rules[a].patterns[b].elems[c].is_terminal
                  \/ a = cur.r /\ b = cur.p /\ c = cur.e)
      /\ SkipTerm => rules' = rules
  <2>1. CASE AddTerm
    <3>1. rules' = Flagged
      BY <2>1 DEF AddTerm
    <3>2. ~SkipTerm
      BY <2>1 DEF AddTerm, SkipTerm
    <3> QED BY <1>2, <1>3, <3>1, <3>2, FlagsOnePlace
  <2>2. CASE SkipTerm
    <3>1. rules' = rules
      BY <2>2 DEF SkipTerm
    <3>2. ~AddTerm
      BY <2>2 DEF AddTerm, SkipTerm
    <3> QED BY <1>3, <3>1, <3>2 DEF SameShape
  <2> QED BY <2>1, <2>2
<1>5. /\ cur' \in [r : Nat, p : Nat, e : Nat]
      /\ phase' \in {"terms", "done"}
      /\ WalkIsRight'
      /\ \A r, p, e : Lists(rules, r, p, e) =>
           (PassedAt(r, p, e)' <=> PassedAt(r, p, e) \/ IsHere(r, p, e))
  BY <1>1, <1>4, NextElemWalks
<1>6. /\ Places' = Places /\ RuleNames' = RuleNames
      /\ Duplicates(rules', Len(rules')) = Duplicates(rules, Len(rules))
      /\ \A w \in Places : ElemAt(w)'.str = ElemAt(w).str
  BY <1>3, <1>4, ShapeKeeps
<1>7. h \in Places
  BY <1>2, PlacesAre
<1>8. \A w \in Places : /\ w = <<w[1], w[2], w[3]>> /\ Lists(rules, w[1], w[2], w[3])
                        /\ (w = h <=> IsHere(w[1], w[2], w[3]))
  BY PlacesAre DEF IsHere
<1>9. \A w \in Places : Passed(w)' <=> Passed(w) \/ w = h
  BY <1>5, <1>8 DEF Passed
<1>10. /\ \A w \in Places : Passed(w) <=> Before(w, h)
       /\ ~Passed(h)
  BY <1>1, <1>3 DEF Passed, PassedAt, Before
<1>11. ElemAt(h) = Elems[cur.e] /\ ElemAt(h).str \in Symbols
  <2>1. Elems \in Seq(PatElem) /\ cur.e \in DOMAIN Elems
    BY <1>2, <1>3, PatternParts DEF Elems, Patterns, Lists
  <2>2. Elems[cur.e] \in PatElem
    BY <2>1
  <2>3. ElemAt(h) = Elems[cur.e]
    BY DEF ElemAt, Elems, Patterns
  <2> QED BY <2>2, <2>3 DEF PatElem
<1>12. ToSet(non_terminals) = RuleNames
  BY <1>1 DEF NamesAreRight
<1>13. TermsAreRight' /\ terminals' \in Seq(Symbols)
  <2>1. CASE AddTerm
    <3>1. IsTerm(ElemAt(h).str) /\ terminals' = Append(terminals, ElemAt(h).str)
      BY <1>11, <2>1 DEF AddTerm
    <3>2. \A w \in Places : ElemAt(w)'.is_terminal
                              <=> ElemAt(w).is_terminal \/ w = h
      <4> SUFFICES ASSUME NEW w \in Places
                   PROVE  ElemAt(w)'.is_terminal <=> ElemAt(w).is_terminal \/ w = h
        OBVIOUS
      <4>1. /\ Lists(rules, w[1], w[2], w[3])
            /\ w = h <=> w[1] = cur.r /\ w[2] = cur.p /\ w[3] = cur.e
        BY <1>8 DEF IsHere
      <4>2. rules'[w[1]].patterns[w[2]].elems[w[3]].is_terminal
              <=> \/ rules[w[1]].patterns[w[2]].elems[w[3]].is_terminal
                  \/ w[1] = cur.r /\ w[2] = cur.p /\ w[3] = cur.e
        BY <1>4, <2>1, <4>1
      <4> QED BY <4>1, <4>2 DEF ElemAt
    <3> HIDE DEF h
    <3>3. phase # "crash"
      BY <1>1
    <3> QED BY <1>1, <1>3, <1>6, <1>7, <1>9, <1>10, <1>11, <1>12, <3>1, <3>2, <3>3,
               ElemIsCollected
  <2>2. CASE SkipTerm
    <3>1. ~IsTerm(ElemAt(h).str) /\ terminals' = terminals
      BY <1>11, <2>2 DEF SkipTerm
    <3>2. \A w \in Places : ElemAt(w)'.is_terminal <=> ElemAt(w).is_terminal
      BY <1>4, <2>2 DEF ElemAt
    <3> HIDE DEF h
    <3>3. phase # "crash"
      BY <1>1
    <3> QED BY <1>1, <1>3, <1>6, <1>7, <1>9, <1>10, <1>11, <1>12, <3>1, <3>2, <3>3,
               ElemIsCollected
  <2> QED BY <2>1, <2>2
<1>14. NamesAreRight'
  <2>1. ToSet(non_terminals)' = RuleNames' /\ IsInjective(non_terminals)'
    BY <1>1, <1>6, <1>12 DEF NamesAreRight, ToSet, IsInjective
  <2>2. errors' = Cardinality(Duplicates(rules', Len(rules')))
    BY <1>1, <1>6 DEF NamesAreRight
  <2> QED BY <1>5, <2>1, <2>2 DEF NamesAreRight
<1>15. TypeOK'
  BY <1>1, <1>3, <1>4, <1>5, <1>13 DEF TypeOK
<1> QED BY <1>5, <1>13, <1>14, <1>15 DEF IInv

(* The program is killed only where a list is empty.                       *)
LEMMA CrashStep ==
  ASSUME IInv, NoRules \/ EmptyPattern
  PROVE  IInv'
<1>1. phase' = "crash" /\ UNCHANGED <<rules, terminals, non_terminals, errors, cur>>
  BY DEF NoRules, EmptyPattern
<1>2. HasEmptyList
  <2>1. CASE NoRules
    BY <2>1 DEF NoRules, WildLoop, HasEmptyList
  <2>2. CASE EmptyPattern
    <3>1. phase = "terms" /\ NothingToMatch
      BY <2>2 DEF EmptyPattern
    <3>2. /\ rules \in Seq(Rule) /\ cur.r \in 1 .. Len(rules) /\ cur.p \in Nat /\ 1 <= cur.p
          /\ cur.p <= NPats(rules, cur.r) \/ (cur.p = 1 /\ NPats(rules, cur.r) = 0)
      BY <3>1 DEF IInv, TypeOK, WalkIsRight
    <3>3. cur.r \in DOMAIN rules
      BY <3>2
    <3>4. CASE Patterns = <<>>
      BY <3>3, <3>4 DEF HasEmptyList, Patterns
    <3>5. CASE Patterns # <<>>
      <4>1. NPats(rules, cur.r) \in Nat /\ NPats(rules, cur.r) # 0
        BY <3>2, <3>5, NumbersAreNat DEF Patterns
      <4>2. cur.p \in DOMAIN Patterns
        BY <3>2, <3>3, <4>1, RuleListParts DEF NPats, Patterns
      <4> QED BY <3>1, <3>3, <3>5, <4>2
              DEF NothingToMatch, WildLoop, HasEmptyList, Patterns, Elems
    <3> QED BY <3>4, <3>5
  <2> QED BY <2>1, <2>2
<1>3. HasEmptyList'
  BY <1>1, <1>2 DEF HasEmptyList
<1>4. TypeOK'
  BY <1>1 DEF IInv, TypeOK
<1> QED BY <1>1, <1>3, <1>4 DEF IInv, WalkIsRight, NamesAreRight, TermsAreRight

(* Every step of the passes keeps the invariant.                           *)
LEMMA PassStep ==
  ASSUME IInv, PreProcess
  PROVE  IInv'
BY NamesStep, TermsStep, CrashStep DEF PreProcess

(* Where nothing changes, nothing is lost.                                 *)
LEMMA PassesStand ==
  ASSUME IInv, UNCHANGED preVars
  PROVE  IInv'
<1>1. UNCHANGED <<rules, terminals, non_terminals, errors, phase, cur>>
  BY DEF preVars
<1>2. Places' = Places /\ RuleNames' = RuleNames /\ HasEmptyList' = HasEmptyList
  BY <1>1 DEF Places, RuleNames, HasEmptyList
<1>3. \A w : /\ ElemAt(w)' = ElemAt(w) /\ (Passed(w)' <=> Passed(w))
             /\ (FirstUse(w)' <=> FirstUse(w))
  BY <1>1, <1>2 DEF ElemAt, Passed, PassedAt, FirstUse
<1>4. TypeOK'
  BY <1>1 DEF IInv, TypeOK
<1>5. WalkIsRight'
  BY <1>1, <1>2 DEF IInv, WalkIsRight
<1>6. NamesAreRight'
  BY <1>1, <1>2 DEF IInv, NamesAreRight, ToSet, IsInjective
<1>7. TermsAreRight'
  <2>1. CASE phase = "crash"
    BY <1>1, <2>1 DEF TermsAreRight
  <2>2. CASE phase # "crash"
    <3>1. TerminalsAreMet /\ MetIsListed /\ FlagsAreRight /\ InOrder /\ IsInjective(terminals)
      BY <2>2 DEF IInv, TermsAreRight
    <3>2. TerminalsAreMet' /\ MetIsListed'
      BY <1>1, <1>2, <1>3, <3>1 DEF TerminalsAreMet, MetIsListed, StrInLst
    <3>3. FlagsAreRight' /\ InOrder' /\ IsInjective(terminals')
      BY <1>1, <1>2, <1>3, <3>1 DEF FlagsAreRight, InOrder
    <3> QED BY <3>2, <3>3 DEF TermsAreRight
  <2> QED BY <2>1, <2>2
<1> QED BY <1>4, <1>5, <1>6, <1>7 DEF IInv

(* The inductive invariant holds for every rule list of the parser.        *)
THEOREM Invariant == Spec => []IInv
<1>1. Init => IInv
  BY PassesBegin, InitialRulesAssumption DEF Init
<1>2. IInv /\ [Next]_preVars => IInv'
  <2> SUFFICES ASSUME IInv, [Next]_preVars PROVE IInv'
    OBVIOUS
  <2>1. CASE PreProcess
    BY <2>1, PassStep
  <2>2. CASE UNCHANGED preVars
    BY <2>2, PassesStand
  <2> QED BY <2>1, <2>2 DEF Next, Terminated
<1> QED BY <1>1, <1>2, PTL DEF Spec

-----------------------------------------------------------------------------
(* What the callers of the passes also rely on.                            *)

(* The rules that are left differ from the parser's in flags only.         *)
LEMMA PassKeepsShape ==
  ASSUME IInv, PreProcess
  PROVE  rules' \in Seq(Rule) /\ SameShape(rules', rules)
<1>1. rules \in Seq(Rule) /\ rules' \in Seq(Rule)
  BY PassStep DEF IInv, TypeOK
<1>2. CASE rules' = rules
  BY <1>1, <1>2 DEF SameShape
<1>3. CASE AddTerm
  <2>1. Lists(rules, cur.r, cur.p, cur.e)
    BY <1>3, CursorsOnPlace DEF IInv, AddTerm
  <2>2. cur = [r |-> cur.r, p |-> cur.p, e |-> cur.e]
    BY CursorMoves DEF IInv, TypeOK
  <2>3. SameShape(Flagged, rules)
    BY <1>1, <2>1, <2>2, FlagsOnePlace
  <2> QED BY <1>1, <1>3, <2>3 DEF AddTerm
<1> QED BY <1>1, <1>2, <1>3
        DEF PreProcess, NoRules, AddNonTerm, DuplicateRule, EmptyPattern, SkipTerm

(* Without duplicates the non-terminals are the rule names in their order. *)
NameList(rs, n) == [k \in 1 .. n |-> rs[k].name]

ListedInOrder ==
  errors = 0 =>
    /\ phase = "non_terms" => non_terminals = NameList(rules, cur.r - 1)
    /\ phase \in {"terms", "done"} => non_terminals = NameList(rules, Len(rules))

(* They begin as the empty list.                                           *)
LEMMA OrderBegins ==
  ASSUME PreInit
  PROVE  ListedInOrder
BY DEF PreInit, Start, ListedInOrder, NameList

(* One more rule, one more name.                                           *)
LEMMA OneMoreName ==
  ASSUME NEW rs \in Seq(Rule), NEW k \in 1 .. Len(rs)
  PROVE  NameList(rs, k) = Append(NameList(rs, k - 1), rs[k].name)
<1> DEFINE f == NameList(rs, k - 1)
           g == NameList(rs, k)
           s == rs[k].name
<1>1. k - 1 \in Nat /\ k \in Nat /\ \A i \in 1 .. k : rs[i].name \in Symbols
  BY RuleListParts
<1>2. f \in Seq(Symbols) /\ Len(f) = k - 1 /\ g \in Seq(Symbols) /\ Len(g) = k
  BY <1>1 DEF NameList
<1>3. \A i \in 1 .. k - 1 : g[i] = f[i]
  BY <1>1 DEF NameList
<1>4. g[k] = s /\ s \in Symbols
  BY <1>1 DEF NameList
<1> HIDE DEF f, g, s
<1>5. g = Append(f, s)
  BY <1>1, <1>2, <1>3, <1>4
<1> QED BY <1>5 DEF f, g, s

(* Every step of the passes keeps that order.                              *)
LEMMA OrderStep ==
  ASSUME IInv, ListedInOrder, PreProcess
  PROVE  ListedInOrder'
<1> SUFFICES ASSUME errors' = 0, phase' # "crash"
             PROVE  /\ phase' = "non_terms" =>
                          non_terminals' = NameList(rules', cur'.r - 1)
                    /\ phase' \in {"terms", "done"} =>
                          non_terminals' = NameList(rules', Len(rules'))
  BY DEF ListedInOrder
<1>1. /\ errors \in Nat /\ rules \in Seq(Rule) /\ rules' \in Seq(Rule)
      /\ cur \in [r : Nat, p : Nat, e : Nat]
      /\ SameShape(rules', rules)
  BY PassKeepsShape DEF IInv, TypeOK
<1>2. CASE AddNonTerm
  <2>1. /\ phase = "non_terms" /\ rules # <<>> /\ NextRule /\ rules' = rules
        /\ errors = 0 /\ non_terminals' = Append(non_terminals, rules[cur.r].name)
    BY <1>2 DEF AddNonTerm, NamesWith, WildLoop
  <2>2. Len(rules) \in Nat /\ Len(rules) # 0
    BY <1>1, <2>1
  <2>3. cur.r \in 1 .. Len(rules)
    BY <2>1, <2>2 DEF IInv, NamesAreRight
  <2>4. non_terminals' = NameList(rules, cur.r)
    BY <1>1, <2>1, <2>3, OneMoreName DEF ListedInOrder
  <2>5. CASE cur.r < Len(rules)
    <3>1. phase' = "non_terms" /\ cur'.r = cur.r + 1
      BY <1>1, <2>1, <2>5, CursorMoves DEF NextRule
    <3>2. cur'.r - 1 = cur.r
      BY <2>2, <2>3, <3>1
    <3> QED BY <2>1, <2>4, <3>1, <3>2
  <2>6. CASE ~(cur.r < Len(rules))
    <3>1. phase' = "terms" /\ cur.r = Len(rules)
      BY <2>1, <2>2, <2>3, <2>6 DEF NextRule
    <3> QED BY <2>1, <2>4, <3>1
  <2> QED BY <2>5, <2>6
<1>3. CASE DuplicateRule
  BY <1>1, <1>3 DEF DuplicateRule, Reported
<1>4. CASE AddTerm \/ SkipTerm
  <2>1. /\ phase = "terms" /\ errors = 0 /\ non_terminals' = non_terminals
        /\ NextElem
    BY <1>4 DEF AddTerm, SkipTerm
  <2>2. phase' \in {"terms", "done"}
    BY <2>1 DEF NextElem, WalkEnds
  <2>3. NameList(rules', Len(rules')) = NameList(rules, Len(rules))
    BY <1>1 DEF NameList, SameShape
  <2> QED BY <2>1, <2>2, <2>3 DEF ListedInOrder
<1>5. CASE NoRules \/ EmptyPattern
  BY <1>5 DEF NoRules, EmptyPattern
<1> QED BY <1>2, <1>3, <1>4, <1>5 DEF PreProcess

-----------------------------------------------------------------------------
(* What the passes promise.                                                *)

(* When all places were passed, the terminals are all that can be.         *)
LEMMA DoneIsClassified ==
  ASSUME IInv
  PROVE  EverySymbolClassified
<1> SUFFICES ASSUME phase = "done"
             PROVE  /\ ToSet(non_terminals) = RuleNames
                    /\ ToSet(terminals) = UsedSymbols \ RuleNames
                    /\ IsInjective(terminals) /\ IsInjective(non_terminals)
  BY DEF EverySymbolClassified
<1>1. \A w \in Places : Passed(w)
  BY DEF Passed, PassedAt
<1>2. TerminalsAreMet /\ MetIsListed /\ IsInjective(terminals)
  BY DEF IInv, TermsAreRight
<1>3. \A i \in DOMAIN terminals : terminals[i] \in UsedSymbols \ RuleNames
  BY <1>2 DEF TerminalsAreMet, UsedSymbols
<1>4. ASSUME NEW s \in UsedSymbols \ RuleNames
      PROVE  s \in ToSet(terminals)
  <2>1. PICK w \in Places : ElemAt(w).str = s
    BY DEF UsedSymbols
  <2> QED BY <1>1, <1>2, <2>1 DEF MetIsListed, StrInLst, ToSet
<1>5. ToSet(terminals) = UsedSymbols \ RuleNames
  BY <1>3, <1>4 DEF ToSet
<1> QED BY <1>2, <1>5 DEF IInv, NamesAreRight

(* When all places were passed, the flags mark the first uses.             *)
LEMMA DoneIsFlagged ==
  ASSUME IInv
  PROVE  FlagMarksFirstUse
<1> SUFFICES ASSUME phase = "done"
             PROVE  FlagMarksFirstUse
  BY DEF FlagMarksFirstUse
<1>1. \A w \in Places : Passed(w)
  BY DEF Passed, PassedAt
<1>2. FlagsAreRight /\ InOrder
  BY DEF IInv, TermsAreRight
<1> QED BY <1>1, <1>2 DEF FlagMarksFirstUse, FlagsAreRight, InOrder

(* A walk that got past every list met no empty one.                       *)
LEMMA CrashIsRight ==
  ASSUME IInv
  PROVE  CrashIffEmptyList
<1>1. phase = "crash" => HasEmptyList
  BY DEF IInv, WalkIsRight
<1>2. ASSUME phase = "done"
      PROVE  ~HasEmptyList
  <2>1. /\ rules \in Seq(Rule) /\ Len(rules) > 0
        /\ \A r \in 1 .. Len(rules) : FullRule(rules, r)
    BY <1>2 DEF IInv, TypeOK, WalkIsRight
  <2>2. rules # <<>> /\ DOMAIN rules = 1 .. Len(rules)
    BY <2>1
  <2>3. ASSUME NEW r \in DOMAIN rules
        PROVE  /\ rules[r].patterns # <<>>
               /\ \A p \in DOMAIN rules[r].patterns : rules[r].patterns[p].elems # <<>>
    <3>1. r \in 1 .. Len(rules) /\ DOMAIN rules[r].patterns = 1 .. NPats(rules, r)
      BY <2>1, <2>2, RuleListParts DEF NPats
    <3>2. NPats(rules, r) > 0 /\ NPats(rules, r) \in Nat
      BY <2>1, <3>1, NumbersAreNat DEF FullRule
    <3>3. rules[r].patterns # <<>>
      BY <2>1, <3>1, <3>2, NumbersAreNat
    <3>4. ASSUME NEW p \in DOMAIN rules[r].patterns
          PROVE  rules[r].patterns[p].elems # <<>>
      <4>1. p \in 1 .. NPats(rules, r) /\ NElems(rules, r, p) > 0
        BY <2>1, <3>1 DEF FullRule
      <4> QED BY <2>1, <3>1, <4>1, NumbersAreNat
    <3> QED BY <3>3, <3>4
  <2> QED BY <2>2, <2>3 DEF HasEmptyList
<1> QED BY <1>1, <1>2 DEF CrashIffEmptyList

(* The count after the first pass is the number of duplicates.             *)
LEMMA DuplicatesAreCounted ==
  ASSUME IInv
  PROVE  EveryDuplicateReported
<1> SUFFICES ASSUME phase \in {"terms", "done"}
             PROVE  EveryDuplicateReported
  BY DEF EveryDuplicateReported
<1>1. errors = Cardinality(Duplicates(rules, Len(rules)))
  BY DEF IInv, NamesAreRight
<1>2. DOMAIN rules = 1 .. Len(rules)
  BY DEF IInv, TypeOK
<1> QED BY <1>1, <1>2 DEF EveryDuplicateReported, Duplicates

(* No error is counted exactly when no two rules have the same name.       *)
LEMMA CleanPassesMean ==
  ASSUME IInv, phase \in {"terms", "done"}
  PROVE  errors = 0 <=> \A q, r \in 1 .. Len(rules) :
                          rules[q].name = rules[r].name => q = r
<1> DEFINE N == Len(rules)
           D == Duplicates(rules, N)
<1>1. N \in Nat /\ errors = Cardinality(D)
  BY DEF IInv, TypeOK, NamesAreRight
<1>2. D = {r \in 1 .. N : \E q \in 1 .. r - 1 : rules[q].name = rules[r].name}
  BY DEF Duplicates
<1> HIDE DEF N, D
<1>3. IsFiniteSet(D)
  <2>1. IsFiniteSet(1 .. N) /\ D \subseteq 1 .. N
    BY <1>1, <1>2, FS_Interval
  <2> QED BY <2>1, FS_Subset
<1>4. errors = 0 <=> D = {}
  BY <1>1, <1>3, FS_EmptySet
<1>5. ASSUME D = {}, NEW q \in 1 .. N, NEW r \in 1 .. N, q < r,
             rules[q].name = rules[r].name
      PROVE  FALSE
  <2>1. q \in 1 .. r - 1
    BY <1>1, <1>5
  <2>2. r \in D
    BY <1>2, <1>5, <2>1
  <2> QED BY <1>5, <2>2
<1>6. \A q, r \in 1 .. N : q < r \/ r < q \/ q = r
  BY <1>1
<1>7. ASSUME \A q, r \in 1 .. N : rules[q].name = rules[r].name => q = r
      PROVE  D = {}
  <2> SUFFICES ASSUME NEW r \in D PROVE FALSE
    OBVIOUS
  <2>1. r \in 1 .. N
    BY <1>2
  <2>2. PICK q \in 1 .. r - 1 : rules[q].name = rules[r].name
    BY <1>2
  <2>3. q \in 1 .. N /\ q # r
    BY <1>1, <2>1, <2>2
  <2> QED BY <1>7, <2>1, <2>2, <2>3
<1>8. D = {} => \A q, r \in 1 .. N : rules[q].name = rules[r].name => q = r
  BY <1>5, <1>6
<1> QED BY <1>4, <1>7, <1>8 DEF N

(***************************************************************************)
(* Every symbol of every grammar is classified: the rule names on one      *)
(* side, all other symbols that are used on the other, each listed once.   *)
(***************************************************************************)
THEOREM SymbolsClassified == Spec => []EverySymbolClassified
<1>1. IInv => EverySymbolClassified
  BY DoneIsClassified
<1> QED BY <1>1, Invariant, PTL

(* is_terminal marks the first use of each terminal, and nothing else.     *)
THEOREM FirstUsesMarked == Spec => []FlagMarksFirstUse
<1>1. IInv => FlagMarksFirstUse
  BY DoneIsFlagged
<1> QED BY <1>1, Invariant, PTL

(* Each rule beyond the first of its name is one error.                    *)
THEOREM DuplicatesReported == Spec => []EveryDuplicateReported
<1>1. IInv => EveryDuplicateReported
  BY DuplicatesAreCounted
<1> QED BY <1>1, Invariant, PTL

(* The passes are killed only by an empty list, and never pass over one.   *)
THEOREM KilledByEmptyLists == Spec => []CrashIffEmptyList
<1>1. IInv => CrashIffEmptyList
  BY CrashIsRight
<1> QED BY <1>1, Invariant, PTL
=============================================================================
