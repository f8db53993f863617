---------------------------- MODULE LocalAnswers ----------------------------
(***************************************************************************)
(* What a stored chunk itself says about a question (providers/mock.py,    *)
(* used by the evidence gate as well): the passage of a text that supports *)
(* the question, and the reading of the columns of a table.                *)
(*                                                                         *)
(* A text is a sequence of sentences, of which only the words with a       *)
(* meaning, the years, the length and the form are kept; two sentences     *)
(* equal in these are the same.  A question is its words and years.        *)
(***************************************************************************)
EXTENDS Integers, FiniteSets, Sequences, Selections
LOCAL INSTANCE SequencesExt

CONSTANTS
    Void,        \* no passage, no cell, no date
    GenericWords, DecisionWords, MetricWords,   \* words with a role in the rules below
    PriorityWords, FactorWords

QuoteLimit == 600
MaxColumns == 4

Smaller(a, b) == IF a < b THEN a ELSE b
Larger(a, b) == IF a > b THEN a ELSE b
Upto(s, n) == SubSeq(s, 1, Smaller(n, Len(s)))

-----------------------------------------------------------------------------
(* The passage of a text.                                                  *)

\* A whole sentence, neither a heading nor broken off, at its first occurrence.
Quotable(text, i) ==
    /\ text[i].form = "plain"
    /\ text[i].size \in 20..QuoteLimit
    /\ \A j \in 1..(i - 1) : text[j] # text[i]

Overlap(sentence, terms) == Cardinality(terms \cap sentence.words)

Candidates(text, terms) ==
    SetToSortSeq({i \in DOMAIN text : Quotable(text, i)},
                 LAMBDA i, j : LET a == Overlap(text[i], terms)
                                   b == Overlap(text[j], terms)
                               IN a > b \/ (a = b /\ i < j))

\* Six tenths of the question's words, rounded up, between two and four.
RequiredOverlap(sentence, terms, dated) ==
    IF terms = {} \/ (sentence.cjk /\ dated) THEN 0
    ELSE Smaller(4, Larger(2, (3 * Cardinality(terms) + 4) \div 5))

\* The best sentence and, if it fits, the best one that shares a word with it.
QuotedFrom(text, terms, ranked, best, required) ==
    LET Joins(i) == /\ i # ranked[1]
                    /\ Overlap(text[i], terms) >= Smaller(1, required)
                    /\ text[i].words \cap best.words # {}
                    /\ best.size + 1 + text[i].size <= QuoteLimit
        joined == Upto(SelectSeq(ranked, Joins), 1)
    IN IF Overlap(best, terms) < required THEN Void
       ELSE <<best>> \o [k \in DOMAIN joined |-> text[joined[k]]]

PassageOf(text, terms, dated, ranked) ==
    IF ranked = <<>> THEN Void
    ELSE QuotedFrom(text, terms, ranked, text[ranked[1]],
                    RequiredOverlap(text[ranked[1]], terms, dated))

SupportedPassage(text, terms, dated) == PassageOf(text, terms, dated, Candidates(text, terms))

-----------------------------------------------------------------------------
(* The reading of a table: its first column names the periods.             *)

DecisionQuestion(q) == q.words \cap DecisionWords # {} /\ q.words \cap MetricWords = {}
FactorQuestion(q) == q.words \cap {"affect", "driver", "drive", "factor", "influence"} # {}

TableCoversYears(q, table) ==
    q.years \subseteq UNION {table.periods[i].years : i \in DOMAIN table.periods}

NumericColumns(table) ==
    LET Numeric(c) == \E i \in DOMAIN c.cells : c.cells[i] # Void
    IN Pick(table.columns, {k \in DOMAIN table.columns : Numeric(table.columns[k])})

\* The columns that bear the question's words, at least two of them if some column bears two.
AskedColumns(columns, asked) ==
    LET Score(c) == Cardinality(asked \cap c.terms)
        needed == IF \E k \in DOMAIN columns : Score(columns[k]) >= 2 THEN 2 ELSE 1
    IN Upto(Pick(columns, {k \in DOMAIN columns : Score(columns[k]) >= needed}), MaxColumns)

DefaultColumns(columns) ==
    LET prioritized ==
            Pick(columns, {k \in DOMAIN columns : columns[k].terms \cap PriorityWords # {}})
    IN Upto(IF prioritized = <<>> THEN columns ELSE prioritized, MaxColumns)

SummaryColumns(columns, q) ==
    LET asked == q.words \ GenericWords
    IN IF asked = {} THEN DefaultColumns(columns) ELSE AskedColumns(columns, asked)

OutcomeColumn(c) == "gold" \in c.terms /\ c.terms \cap {"price", "return", "value"} # {}

FactorColumns(columns) ==
    LET Factor(c) == c.terms \cap FactorWords # {} /\ ~ OutcomeColumn(c)
    IN Upto(Pick(columns, {k \in DOMAIN columns : Factor(columns[k])}), MaxColumns)

\* The cells of a column that hold a number, with their periods.
PointOf(table, c, i) == [period |-> table.periods[i].name, value |-> c.cells[i]]
NumericPoints(table, c) ==
    Pick([i \in DOMAIN table.periods |-> PointOf(table, c, i)],
         {i \in DOMAIN table.periods : c.cells[i] # Void})

\* From where to where the column went, and its peak and low where these lie elsewhere.
SentenceOf(c, points, first, last) ==
    LET FirstOf(I) == CHOOSE i \in I : \A j \in I : i <= j
        peak == points[FirstOf({i \in DOMAIN points :
                                  \A j \in DOMAIN points : points[j].value <= points[i].value})]
        trough == points[FirstOf({i \in DOMAIN points :
                                    \A j \in DOMAIN points : points[j].value >= points[i].value})]
    IN [column |-> c, from |-> first, to |-> last,
        direction |-> IF last.value > first.value THEN "rose"
                      ELSE IF last.value < first.value THEN "fell" ELSE "unchanged",
        peak |-> IF peak.period # last.period THEN peak ELSE Void,
        low |-> IF trough.period # first.period THEN trough ELSE Void]

ColumnSentence(c, points) == SentenceOf(c, points, points[1], points[Len(points)])

SelectedColumns(numeric, q) ==
    IF FactorQuestion(q) THEN FactorColumns(numeric) ELSE SummaryColumns(numeric, q)

ReadColumns(table, usable) ==
    IF usable = <<>> THEN Void
    ELSE [k \in DOMAIN usable |-> ColumnSentence(usable[k], NumericPoints(table, usable[k]))]

UsableColumns(table, selected) ==
    Pick(selected, {k \in DOMAIN selected : Len(NumericPoints(table, selected[k])) >= 2})

AnswerFromTable(q, table) ==
    IF \/ table.columns = <<>> \/ table.periods = <<>>
       \/ DecisionQuestion(q)
       \/ ~ TableCoversYears(q, table)
    THEN Void
    ELSE ReadColumns(table, UsableColumns(table, SelectedColumns(NumericColumns(table), q)))

-----------------------------------------------------------------------------

\* A table has a row for each period, each with a name of its own, and numbers where given.
TableAskable(table) ==
    /\ table.columns \in Seq(Range(table.columns)) /\ table.periods \in Seq(Range(table.periods))
    /\ \A i, j \in DOMAIN table.periods : table.periods[i].name = table.periods[j].name => i = j
    /\ \A c \in Range(table.columns) : \A i \in DOMAIN table.periods :
          c.cells[i] \in Int \cup {Void} /\ PointOf(table, c, i) # Void

\* Who reads the sentences of a table knows the true extremes of each column: an extreme that
\* is not named is the last value or the first.  No more columns than allowed are read, each
\* of them was asked for, and no outcome is passed off as a factor.
TrueReading(q, table, answer, asked) ==
    answer # Void =>
        /\ Len(answer) \in 1..MaxColumns
        /\ \A k \in DOMAIN answer :
            LET s == answer[k]
                high == IF s.peak = Void THEN s.to.value ELSE s.peak.value
                low == IF s.low = Void THEN s.from.value ELSE s.low.value
                points == NumericPoints(table, s.column)
            IN /\ \A i \in DOMAIN points : points[i].value \in low..high
               /\ s.direction = "rose" => low < high
               /\ IF FactorQuestion(q) THEN ~ OutcomeColumn(s.column)
                  ELSE asked = {} \/ asked \cap s.column.terms # {}
=============================================================================
