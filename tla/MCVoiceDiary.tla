---------------------------- MODULE MCVoiceDiary ----------------------------
(* The ingest with small budgets, and the texts of single entries.         *)
EXTENDS VoiceDiary, DiaryText

VARIABLE entry   \* [lines, sentences]: what is to be tidied

(* What was said: nothing, enough and then a word about something else,    *)
(* and one thing.                                                          *)
Said(topic, words) == [topic |-> topic, words |-> words]
SaidIn(rec) ==
  CASE rec = "mute" -> <<>>
    [] rec = "tail" -> <<Said(FALSE, 3), Said(TRUE, 1)>>
    [] OTHER -> <<Said(FALSE, 3)>>
MCWordless == {rec \in Recording : SaidIn(rec) = <<>>}
MCUnfoldable == {rec \in Recording : FoldRaises(SaidIn(rec))}

File1(name, rec, at, kind, whole) ==
  [name |-> name, rec |-> rec, at |-> at, kind |-> kind, whole |-> whole]
Budget(deliveries, deletes, kills, rebuilds, touches, recoveries) ==
  [deliveries |-> deliveries, deletes |-> deletes, kills |-> kills, rebuilds |-> rebuilds,
   touches |-> touches, recoveries |-> recoveries]

(* A paused MP4 that is finished later, and another; one that grows though *)
(* it could be played; two of one second; one without a word, and one that *)
(* tidy cannot fold, between others.                                       *)
Paused == {File1("a", "r1", 1, "m4a", FALSE), File1("a", "r2", 3, "m4a", TRUE),
           File1("b", "r3", 2, "ogg", TRUE)}
Growing == {File1("a", "r1", 1, "ogg", TRUE), File1("a", "r2", 2, "ogg", TRUE)}
Alike == {File1("a", "r1", 1, "ogg", TRUE), File1("b", "r2", 1, "ogg", TRUE)}
Two == {File1("a", "r1", 1, "m4a", TRUE), File1("b", "r2", 2, "ogg", TRUE)}
Odd == {File1("a", "mute", 1, "m4a", TRUE), File1("b", "r1", 2, "ogg", TRUE)}
Stuck == {File1("a", "r1", 1, "ogg", TRUE), File1("b", "tail", 2, "m4a", TRUE),
          File1("c", "r2", 3, "ogg", TRUE)}
MCBudgets ==
  { Budget(Odd, 1, 1, 0, 0, 0), Budget(Stuck, 1, 1, 0, 0, 0),
    Budget(Paused, 1, 1, 0, 0, 0), Budget(Growing, 1, 1, 0, 0, 0), Budget(Alike, 1, 1, 0, 0, 0),
    Budget(Two, 1, 1, 1, 0, 1), Budget(Two, 0, 0, 1, 1, 1) }

NoText == [lines |-> <<>>, sentences |-> <<>>]
Lines == {<<>>, <<"a">>, <<"b">>, <<"a", "b">>, <<"b", "a">>, <<"a", "b", "a">>, <<"a", Mark>>}
Sentences == [topic : BOOLEAN, words : 1..3]
Seqs(S, n) == UNION {[1..k -> S] : k \in 0..n}

MCInit ==
  /\ \/ todo \in MCBudgets /\ entry = NoText
     \/ /\ todo = Budget({}, 0, 0, 0, 0, 0)
        /\ \/ \E l \in Seqs(Lines, 4) : entry = [NoText EXCEPT !.lines = l]
           \/ \E s \in Seqs(Sentences, 5) : entry = [NoText EXCEPT !.sentences = s]
  /\ Init
MCNext == Next /\ UNCHANGED entry
MCSpec == MCInit /\ [][MCNext]_<<vars, entry>> /\ Fair

(* What tidy drops and keeps, and how it sets paragraphs, of every entry. *)
EntryKeepsItsLines == OnlyEchoesGo(entry.lines)
EntryReadsEvenly == ParagraphsEven(entry.sentences)
EntryReadsWell == EntryKeepsItsLines /\ EntryReadsEvenly
=============================================================================
