----------------------------- MODULE CommandTree -----------------------------
(***************************************************************************)
(* set and show of clawgressctl as functions: which commands the schema    *)
(* lets through, what they make of the candidate configuration, and which  *)
(* commands show prints for it.                                            *)
(*                                                                         *)
(* A configuration is a tree of maps; here it is the function from the     *)
(* paths of its leaves, sequences of keys, to their values.  A path that   *)
(* was typed in its dotted form is the sequence of its pieces.  Left out   *)
(* are values typed as JSON literals, and blanks around a word: they come  *)
(* through the arguments of `clawgressctl set` alone, as does a word with  *)
(* blanks in it, which is kept.                                            *)
(***************************************************************************)
EXTENDS Naturals, Sequences, FiniteSets, SequencesExt

CONSTANTS
  Schema,      \* the set commands: [tokens, accepts, multi]; the token "<>"
               \* stands for any, accepts is the set of values let through
  Dashed,      \* names with a dash: what they are with underscores
  Dotted,      \* names with a dot: the keys they fall into
  Printed,     \* numerals: how fmt prints their float64
  Spaced       \* words with blanks in them: the words between the blanks

SwitchesOn == {"enable", "enabled", "on", "true"}
SwitchesOff == {"disable", "disabled", "off", "false"}
NotFinite == {"inf", "nan"}

(* No value is empty; underscores leave no dash behind, a name with a dot  *)
(* falls into two keys or more, a word with a blank into two words or      *)
(* more, and no numeral is a word.                                         *)
ASSUME CommandTreeAssumption ==
  /\ \A p \in Schema :
       /\ p.multi \in BOOLEAN /\ p.tokens \in Seq(STRING) /\ Len(p.tokens) > 0
       /\ "" \notin p.accepts
  /\ \A n \in DOMAIN Dashed : Dashed[n] \notin DOMAIN Dashed
  /\ \A n \in DOMAIN Dotted : Dotted[n] \in Seq(STRING) /\ Len(Dotted[n]) > 1
  /\ \A w \in DOMAIN Spaced :
       /\ Spaced[w] \in Seq(STRING) /\ Len(Spaced[w]) > 1
       /\ Range(Spaced[w]) \cap DOMAIN Spaced = {}
  /\ DOMAIN Printed \cap (SwitchesOn \cup SwitchesOff \cup NotFinite \cup DOMAIN Spaced) = {}

-----------------------------------------------------------------------------
(* cmdmap: normalizeTokens, matchPatternTokens, ValidateSetTokens *)

Underscored(t) == IF t \in DOMAIN Dashed THEN Dashed[t] ELSE t
Normal(tokens) == [i \in DOMAIN tokens |-> Underscored(tokens[i])]

MatchesPattern(pattern, tokens) ==
  /\ Len(pattern) = Len(tokens)
  /\ \A i \in DOMAIN pattern : pattern[i] \in {"<>", tokens[i]}

ValidSet(tokens, raw) ==
  \E p \in Schema : MatchesPattern(Normal(p.tokens), Normal(tokens)) /\ raw \in p.accepts

(* The tokens are joined by dots and split at dots again. *)
KeyPath(tokens) ==
  FlattenSeq([i \in DOMAIN tokens |->
    LET t == Underscored(tokens[i]) IN IF t \in DOMAIN Dotted THEN Dotted[t] ELSE <<t>>])

(* Whether a path is a list is asked of the path alone, not of the pattern *)
(* that let the value through.                                             *)
IsMultiPath(keys) ==
  \E p \in Schema : p.multi /\ MatchesPattern(Normal(p.tokens), keys)

-----------------------------------------------------------------------------
(* Values: a leaf is one scalar or a list of them. *)

Text(s) == [t |-> "text", v |-> s]
Flag(b) == [t |-> "flag", v |-> b]
Number(s) == [t |-> "number", v |-> s]
NoNumber == [t |-> "nan", v |-> ""]
MapItem == [t |-> "map", v |-> "map[...]"]

One(x) == [list |-> FALSE, items |-> <<x>>]
List(items) == [list |-> TRUE, items |-> items]

(* Switches become booleans and numerals numbers, in every command. *)
ParseValue(raw) ==
  CASE raw \in SwitchesOn -> Flag("true")
    [] raw \in SwitchesOff -> Flag("false")
    [] raw \in NotFinite -> NoNumber
    [] raw \in DOMAIN Printed -> Number(Printed[raw])
    [] OTHER -> Text(raw)

-----------------------------------------------------------------------------
(* setByPath *)

EmptyTree == <<>>

(* Mutant: a value on the way to a leaf stays. *)
AboveNothing(tree, keys) == {}

Above(tree, keys) == {p \in DOMAIN tree : IsStrictPrefix(p, keys)}

Below(tree, keys) == {p \in DOMAIN tree : IsStrictPrefix(keys, p)}

(* A leaf on the way is replaced by a map; what was below goes. *)
Put(tree, keys, value) ==
  [p \in (DOMAIN tree \ (Above(tree, keys) \cup Below(tree, keys))) \cup {keys} |->
     IF p = keys THEN value ELSE tree[p]]

(* Mutant: every value is added to a list. *)
AppendsAlways(keys) == TRUE

Appends(keys) == IsMultiPath(keys)

(* In append mode what is there, a map too, becomes an item of the list. *)
SetByPath(tree, keys, value) ==
  Put(tree, keys,
      IF ~Appends(keys) THEN One(value)
      ELSE IF Below(tree, keys) # {} THEN List(<<MapItem, value>>)
      ELSE IF keys \notin DOMAIN tree THEN List(<<value>>)
      ELSE List(Append(tree[keys].items, value)))

(* A value JSON has no number for fails before the file is opened. *)
Encodes(raw) == ParseValue(raw) # NoNumber

AfterSet(tree, tokens, raw) == SetByPath(tree, KeyPath(tokens), ParseValue(raw))

(* A command that is refused changes nothing. *)
Accepted(c) == ValidSet(c.tokens, c.raw) /\ Encodes(c.raw)
Entered(tree, c) == IF Accepted(c) THEN AfterSet(tree, c.tokens, c.raw) ELSE tree

(* What commands make of an empty configuration. *)
TreeOf(cmds) == FoldLeft(Entered, EmptyTree, cmds)

-----------------------------------------------------------------------------
(* renderSetCommands *)

(* strings.Fields of a word. *)
Fields(w) == IF w \in DOMAIN Spaced THEN Spaced[w] ELSE <<w>>

(* Path and value are printed without quotes, joined by blanks, and so are *)
(* not told apart from words that blanks part.                             *)
Line(keys, x) == FlattenSeq([i \in DOMAIN keys |-> Fields(keys[i])]) \o Fields(x.v)

(* Mutant: one command is printed for a list. *)
LinesFirst(tree) == [keys \in DOMAIN tree |-> <<Line(keys, Head(tree[keys].items))>>]

(* Per path, the commands that are printed, as their words; they are       *)
(* sorted as text, so that the order among the items of a list is lost.    *)
Lines(tree) ==
  [keys \in DOMAIN tree |->
     [i \in DOMAIN tree[keys].items |-> Line(keys, tree[keys].items[i])]]

(* The last word is the value. *)
ParseSetPathAndValue(words) == [tokens |-> Front(words), raw |-> Last(words)]

(* The printed commands typed into an empty candidate. *)
Replay(tree) ==
  LET lines == Lines(tree)
      Cmds(keys) == [i \in DOMAIN lines[keys] |-> ParseSetPathAndValue(lines[keys][i])]
      paths == SetToSeq(DOMAIN tree)
  IN TreeOf(FlattenSeq([k \in DOMAIN paths |-> Cmds(paths[k])]))

(* The same configuration but for the order of lists. *)
SameTree(a, b) ==
  /\ DOMAIN a = DOMAIN b
  /\ \A keys \in DOMAIN a :
       /\ a[keys].list = b[keys].list
       /\ ToBag(a[keys].items) = ToBag(b[keys].items)
=============================================================================
