----------------------------- MODULE DiaryText -----------------------------
(***************************************************************************)
(* How a diary entry's text is made from what whisper returns (tidy, in    *)
(* scripts/voice-diary-ingest.py): repeated lines go, then sentences are   *)
(* set in paragraphs.  A line is a sequence of words and Marks, a sentence *)
(* its number of words and whether it opens a subject.                     *)
(*                                                                         *)
(* Left out: spaces before punctuation, names, where a sentence ends.      *)
(***************************************************************************)
EXTENDS Naturals, SequencesExt

CONSTANTS
  Mark,       \* what norm drops from a line
  Window,     \* DEDUPE_WINDOW
  EchoLength, \* the least length of a reworded repeat
  MinWords, MaxWords, \* of a paragraph, before a new subject and at all
  TailWords   \* a shorter last paragraph joins the one above

ASSUME TextAssumption ==
  /\ {Window, EchoLength, MinWords, MaxWords, TailWords} \subseteq Nat
  /\ 0 < MinWords /\ MinWords <= MaxWords

Norm(line) == SelectSeq(line, LAMBDA w : w # Mark)
Repeats(n, r) ==
  LET shorter == IF Len(n) <= Len(r) THEN n ELSE r
      longer == IF Len(n) <= Len(r) THEN r ELSE n
  IN  n # <<>> /\ r # <<>> /\
      (n = r \/ (Len(shorter) >= EchoLength /\
                 \E i \in 1..(Len(longer) - Len(shorter) + 1) :
                   SubSeq(longer, i, i + Len(shorter) - 1) = shorter))
IsEcho(n, recent) == \E i \in DOMAIN recent : Repeats(n, recent[i])

AllKept(kept) == kept
Recent(kept) ==
  SubSeq(kept, IF Len(kept) > Window THEN Len(kept) - Window + 1 ELSE 1, Len(kept))

(* The places of the lines that stay. *)
KeptLines(lines) ==
  LET norms(places) == [k \in DOMAIN places |-> Norm(lines[places[k]])]
      kept[n \in 0..Len(lines)] ==
        IF n = 0 THEN <<>>
        ELSE IF IsEcho(Norm(lines[n]), norms(Recent(kept[n - 1]))) THEN kept[n - 1]
        ELSE Append(kept[n - 1], n)
  IN  kept[Len(lines)]

Words(para) == FoldSeq(LAMBDA s, sum : s.words + sum, 0, para)

(* A paragraph is full for the next sentence. *)
FullByCount(para, sentence) == sentence.topic \/ Words(para) >= MaxWords
FullFor(para, sentence) ==
  \/ sentence.topic /\ Words(para) >= MinWords
  \/ Words(para) >= MaxWords

Unfolded(sentences) ==
  LET step(paras, s) ==
        IF paras = <<>> \/ FullFor(Last(paras), s) THEN Append(paras, <<s>>)
        ELSE Append(Front(paras), Append(Last(paras), s))
  IN  FoldLeft(step, <<>>, sentences)

(* "paras[-2] = f'{paras[-2]} {paras.pop()}'": the two are joined and the  *)
(* tail is gone before the place to put them is looked up, which is then   *)
(* the one above both.  Of two paragraphs there is no such place.          *)
ShortTail(paras) == Len(paras) > 1 /\ Words(Last(paras)) < TailWords
FoldRaises(sentences) == ShortTail(Unfolded(sentences)) /\ Len(Unfolded(sentences)) = 2
FoldTail(paras) ==
  LET n == Len(paras)
  IN  IF ShortTail(paras)
      THEN SubSeq(paras, 1, n - 3) \o <<paras[n - 1] \o paras[n], paras[n - 1]>>
      ELSE paras
Paragraphs(sentences) == FoldTail(Unfolded(sentences))
-----------------------------------------------------------------------------
(* Properties of a text. *)

(* A line is dropped if and only if it repeats one of the last lines that  *)
(* were kept before it: what is said again later, or is not the same,      *)
(* stays (tidy, is_echo).                                                  *)
OnlyEchoesGo(lines) ==
  LET kept == Range(KeptLines(lines))
      near(m, n) == m \in kept /\ m < n /\ Cardinality({k \in kept : m < k /\ k < n}) < Window
  IN  \A n \in DOMAIN lines :
        n \notin kept <=> \E m \in 1..(n - 1) : near(m, n) /\ Repeats(Norm(lines[n]), Norm(lines[m]))

(* Of an entry whose last paragraph is long enough no sentence is lost or  *)
(* moved, no paragraph but the last is a stub and none is a wall of text;  *)
(* where the last is short, tidy folds it into the wrong one (tidy).       *)
ParagraphsEven(sentences) ==
  LET paras == Paragraphs(sentences)
      longest == Max({0} \cup {sentences[i].words : i \in DOMAIN sentences})
  IN  ~ShortTail(Unfolded(sentences)) =>
        /\ FlattenSeq(paras) = sentences
        /\ \A k \in DOMAIN paras :
             /\ k < Len(paras) => Words(paras[k]) >= MinWords
             /\ Words(paras[k]) < MaxWords + longest
=============================================================================
