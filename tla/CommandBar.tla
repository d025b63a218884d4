------------------------------ MODULE CommandBar ------------------------------
(***************************************************************************)
(* The entry of the command bar (command_bar.cc): what its keys do to the  *)
(* text and the position in it.  Whose callback it has and who gets the    *)
(* keys is in Windows.  Positions are those of the code: the number of     *)
(* characters before.  No text is selected, and there is no "tag:" in a    *)
(* search, which is what could be completed there.                         *)
(***************************************************************************)
EXTENDS Naturals, Sequences, SequencesExt, FiniteSets, FiniteSetsExt

CONSTANTS
  Letter,              \* characters that are typed; " ", "+", "-" and "," break tags
  TagNames,            \* Db::tags in order, sequences of letters
  TagbarMove,          \* tagbar_move: "Tags" or "Chars"
  MaxText, MaxQuery,   \* bounds: length of a text, for tags and others
  MaxPast              \* and of the search history

ASSUME BarAssumption ==
  /\ TagNames # <<>> /\ \A i \in DOMAIN TagNames : TagNames[i] \in Seq(Letter)
  /\ TagbarMove \in {"Tags", "Chars"} /\ {MaxText, MaxQuery, MaxPast} \subseteq Nat

VARIABLES
  bar_mode,         \* CommandMode, or "closed"
  bar_edit,         \* edit_mode: "Tags" or "Chars"
  entry_text, entry_position,
  orig_text, history_pos,
  past,             \* the search history as loaded, newest first
  text_queries,     \* some text was searched for
  bar_fate,         \* "fine", "crashed"
  typed             \* the text that browsing the history began with
barVars == <<bar_mode, bar_edit, entry_text, entry_position, orig_text, history_pos,
             past, text_queries, bar_fate, typed>>
browsing == <<orig_text, history_pos, typed>>
restOfBar == <<bar_mode, bar_edit, past, text_queries, bar_fate>>

BarInit ==
  /\ bar_mode = "closed" /\ bar_edit = TagbarMove /\ entry_text = <<>> /\ entry_position = 0
  /\ orig_text = <<>> /\ history_pos = 0 /\ past = <<>> /\ text_queries = FALSE
  /\ bar_fate = "fine" /\ typed = <<>>

-----------------------------------------------------------------------------
(* Text and position.                                                      *)

\* txt[pos], which is a 0 at the end.
Char(t, i) == IF i < Len(t) THEN t[i + 1] ELSE "end"
Before(t, i) == SubSeq(t, 1, i)
After(t, i) == SubSeq(t, i + 1, Len(t))

\* gtk_entry_set_text: another text begins at its first position.
SetText(t) ==
  entry_text' = t /\ entry_position' = IF t = entry_text THEN entry_position ELSE 0

\* The nearest space before position i, or the beginning; and after, or the end.
SpaceBefore(t, i) == Max({0} \cup {j \in 0 .. i : Char(t, j) = " "})
SpaceAfter(t, i) == Min({Len(t)} \cup {j \in i .. Len(t) : Char(t, j) = " "})

ByTags == bar_edit = "Tags" /\ bar_mode \in {"Tag", "DiffTag"}
InsideTag == Char(entry_text, entry_position) # " " /\ entry_position \in 1 .. Len(entry_text) - 1

-----------------------------------------------------------------------------
(* Opening and closing.                                                    *)

\* enable_command.  load_history: the history is of any kind here, and of
\* interest while the bar is open for a search.
BarEnable ==
  /\ bar_fate = "fine" /\ bar_mode = "closed"
  /\ bar_mode' \in {"Search", "SearchText", "Filter", "Tag", "DiffTag", "AttachMids"}
  /\ bar_edit' = TagbarMove
  /\ entry_text' \in CASE bar_mode' = "Tag" -> {<<>>, TagNames[1]}
                       [] bar_mode' \in {"Search", "Filter"} -> SeqOf(Letter, MaxQuery)
                       [] OTHER -> {<<>>}
  /\ entry_position' = Len(entry_text')
  /\ past' \in IF bar_mode' = "Search" THEN SeqOf(SeqOf(Letter, MaxQuery) \ {<<>>}, MaxPast)
              ELSE {<<>>}
  /\ orig_text' = <<>> /\ history_pos' = 0 /\ typed' = <<>>
  /\ UNCHANGED <<text_queries, bar_fate>>

\* Every key without a meaning of its own, Return and Escape too, ends
\* browsing in a search.
ResetBrowsing ==
  orig_text' = <<>> /\ history_pos' = 0 /\ typed' = <<>>

\* set_search_mode (false): the search bar empties the entry.
BarCloses ==
  /\ bar_fate = "fine" /\ bar_mode # "closed" /\ ResetBrowsing
  /\ bar_mode' = "closed" /\ entry_text' = <<>> /\ entry_position' = 0 /\ past' = <<>>
  /\ UNCHANGED <<bar_edit, bar_fate>>
BarEscape == BarCloses /\ UNCHANGED text_queries

\* on_entry_activated: texts searched for are offered later.
BarActivate ==
  /\ BarCloses
  /\ text_queries' = IF bar_mode \in {"Filter", "SearchText"} THEN text_queries \/ entry_text # <<>>
                     ELSE text_queries

-----------------------------------------------------------------------------
(* Keys.                                                                   *)

Pressed == bar_fate = "fine" /\ bar_mode # "closed"

\* A letter, which the entry inserts.
BarType ==
  /\ Pressed /\ Len(entry_text) < IF bar_mode \in {"Tag", "DiffTag"} THEN MaxText ELSE MaxQuery
  /\ \E c \in Letter : entry_text' = InsertAt(entry_text, entry_position + 1, c)
  /\ entry_position' = entry_position + 1
  /\ ResetBrowsing /\ UNCHANGED restOfBar

BarCtrl ==
  /\ Pressed /\ bar_edit' = IF bar_edit = "Tags" THEN "Chars" ELSE "Tags"
  /\ UNCHANGED <<bar_mode, entry_text, entry_position, browsing, past, text_queries, bar_fate>>

\* Before the beginning of an empty text there is a search for a space too:
\* pos-- wraps and txt[pos] is read from anywhere.
BarLeft ==
  /\ Pressed
  /\ IF ~ByTags \/ InsideTag THEN entry_position' = Max({entry_position, 1}) - 1
     ELSE LET end == entry_position = Len(entry_text)
              pos == Max({2, entry_position + IF end THEN 0 ELSE 1}) - 2
          IN  entry_position' = SpaceBefore(entry_text, pos)
  /\ bar_fate' \in {"fine"} \cup (IF ByTags /\ entry_text = <<>> THEN {"crashed"} ELSE {})
  /\ UNCHANGED <<bar_mode, bar_edit, entry_text, browsing, past, text_queries>>

BarRight ==
  /\ Pressed
  /\ LET next == Min({entry_position + 1, Len(entry_text)})
     IN  entry_position' = IF ~ByTags \/ InsideTag THEN next ELSE SpaceAfter(entry_text, next)
  /\ UNCHANGED <<entry_text, browsing, restOfBar>>

\* Without a tag the text from position a to b is deleted.
Cut(a, b) ==
  /\ entry_text' = Before(entry_text, a) \o After(entry_text, b)
  /\ entry_position' = a

\* At the end of the text the entry deletes the last character.
BarBackSpace ==
  /\ Pressed
  /\ LET previous == Max({entry_position, 1}) - 1
         normal == ~ByTags \/ InsideTag \/ entry_position = Len(entry_text)
     IN  Cut(IF normal THEN previous ELSE SpaceBefore(entry_text, previous), entry_position)
  /\ UNCHANGED <<browsing, restOfBar>>

BarDelete ==
  /\ Pressed
  /\ LET next == Min({entry_position + 1, Len(entry_text)})
     IN  Cut(entry_position, IF ~ByTags \/ InsideTag THEN next ELSE SpaceAfter(entry_text, next))
  /\ UNCHANGED <<browsing, restOfBar>>

\* Bug variant: the text is saved with every step back.
BarUpSaves ==
  /\ Pressed /\ bar_mode = "Search" /\ past # <<>>
  /\ orig_text' = entry_text
  /\ typed' = IF history_pos = 0 THEN entry_text ELSE typed
  /\ IF history_pos < Len(past) THEN history_pos' = history_pos + 1 /\ SetText(past[history_pos'])
     ELSE UNCHANGED <<history_pos, entry_text, entry_position>>
  /\ UNCHANGED restOfBar

BarUp ==
  /\ Pressed /\ bar_mode = "Search" /\ past # <<>>
  /\ orig_text' = IF orig_text = <<>> THEN entry_text ELSE orig_text
  /\ typed' = IF history_pos = 0 THEN entry_text ELSE typed
  /\ IF history_pos < Len(past) THEN history_pos' = history_pos + 1 /\ SetText(past[history_pos'])
     ELSE UNCHANGED <<history_pos, entry_text, entry_position>>
  /\ UNCHANGED restOfBar

BarDown ==
  /\ Pressed /\ bar_mode = "Search" /\ history_pos > 0
  /\ history_pos' = history_pos - 1
  /\ IF history_pos = 1 THEN SetText(orig_text) /\ orig_text' = <<>>
     ELSE SetText(past[history_pos']) /\ UNCHANGED orig_text
  /\ UNCHANGED <<typed, restOfBar>>

-----------------------------------------------------------------------------
(* Completion of tags.                                                     *)

BreakOn == IF bar_mode = "DiffTag" THEN {"+", "-", " "} ELSE {",", " "}
Breaks(t) == {i \in 0 .. Len(t) - 1 : Char(t, i) \in BreakOn}

\* get_partial_tag: where the tag at the position begins, and what there is
\* of it.  The end serves as its length, so that there is more of it than
\* there should be if another one follows.
PartialTag ==
  LET t == entry_text
      near == {i \in Breaks(t) : entry_position > 0 => i < entry_position}
      out == IF near = {} THEN 0 ELSE Max(near)
      end == Min({Len(t)} \cup {i \in Breaks(t) : i >= out + 2})
      skip == IF out \in Breaks(t) THEN 1 ELSE 0
      in == SubSeq(t, out + skip + 1, Min({Len(t), out + end}))
      blank == Min({Len(in)} \cup {i \in 0 .. Len(in) - 1 : Char(in, i) # " "})
  IN  IF t = <<>> \/ out >= end THEN [pos |-> out, key |-> <<>>]
      ELSE [pos |-> out + skip, key |-> After(in, blank)]

MatchingTags == {i \in DOMAIN TagNames : IsPrefix(PartialTag.key, TagNames[i])}

\* on_match_selected: the rest of the text follows, but for a character if
\* the tag is not at the beginning.
Complete(name) ==
  LET pos == PartialTag.pos
      end == pos + Len(PartialTag.key)
      one == IF pos > 0 THEN 1 ELSE 0
      text == Before(entry_text, pos) \o name
                \o IF end < Len(entry_text) THEN After(entry_text, end + one) ELSE <<>>
  IN  /\ entry_text' = text
      /\ entry_position' = Min({pos + Len(name) + one, Len(text)})

\* Tab takes the first tag that matches.  The completion of texts searched
\* for has no match of its own and throws.
BarTab ==
  /\ Pressed
  /\ IF bar_mode \in {"Tag", "DiffTag"} /\ MatchingTags # {} THEN Complete(TagNames[Min(MatchingTags)])
     ELSE UNCHANGED <<entry_text, entry_position>>
  /\ bar_fate' = IF bar_mode \in {"SearchText", "Filter"} /\ text_queries THEN "crashed" ELSE "fine"
  /\ UNCHANGED <<browsing, bar_mode, bar_edit, past, text_queries>>

BarNext ==
  \/ BarEnable \/ BarEscape \/ BarActivate \/ BarType \/ BarCtrl \/ BarLeft \/ BarRight
  \/ BarBackSpace \/ BarDelete \/ BarUp \/ BarDown \/ BarTab
BarSpec == BarInit /\ [][BarNext]_barVars

-----------------------------------------------------------------------------
(* Properties.                                                             *)

\* Type invariant.
BarTypeOK ==
  /\ entry_text \in Seq(Letter) /\ entry_position \in 0 .. Len(entry_text)
  /\ history_pos \in 0 .. Len(past) /\ bar_fate \in {"fine", "crashed"}

\* The pieces of a text between characters of a set.
Pieces(t, breaks) ==
  LET at == {i \in 0 .. Len(t) - 1 : Char(t, i) \in breaks}
      first == {i \in (0 .. Len(t) - 1) \ at : i = 0 \/ i - 1 \in at}
      begin == SetToSortSeq(first, <)
  IN  [k \in DOMAIN begin |->
         SubSeq(t, begin[k] + 1, Min({Len(t)} \cup {i \in at : i > begin[k]}))]

\* What one key does to a text that took many keys: browsing the history and
\* back gives the text it began with, unless that was empty, when it may be
\* one of the history; BackSpace and Delete take either a character or all
\* of what is between two spaces; and a completion changes one tag or puts
\* one in, unless there is a break before the first: then it may join that
\* one with the next (entry_key_press, on_match_selected).
BarKeepsInput ==
  [][ /\ BarDown /\ history_pos = 1 /\ typed # <<>> => entry_text' = typed
      /\ Len(entry_text') + 1 < Len(entry_text) /\ (BarBackSpace \/ BarDelete) =>
           LET old == Pieces(entry_text, {" "})
           IN  \E k \in DOMAIN old : Pieces(entry_text', {" "}) = RemoveAt(old, k)
      /\ BarTab /\ 0 \notin Breaks(entry_text) /\ bar_mode \in {"Tag", "DiffTag"} =>
           LET old == Pieces(entry_text, BreakOn)
               new == Pieces(entry_text', BreakOn)
           IN  \/ \E k \in DOMAIN new : RemoveAt(new, k) = old
               \/ Cardinality({k \in DOMAIN old : k \notin DOMAIN new \/ old[k] # new[k]}) < 2
                  /\ Len(new) = Len(old)
    ]_barVars

=============================================================================
