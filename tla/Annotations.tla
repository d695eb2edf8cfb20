------------------------------- MODULE Annotations ------------------------------
(***************************************************************************)
(* Rename annotations, from the comments of the desired text to the        *)
(* renamed_from of the parsed objects (core/src/annotation.rs and          *)
(* parse_schema of the four dialects).                                     *)
(*                                                                         *)
(* Three readers scan the same text with different ideas of it: the        *)
(* extractor, which knows quotes and goes line by line; the splitter of    *)
(* the MySQL, SQLite and SQL Server parsers, which knows comments as well  *)
(* and takes \ for an escape; and the parser.  A text is a sequence of     *)
(* tokens: the head of the CREATE statement of a name, "column", ";",      *)
(* "nl", "'", a quote after a backslash, block comment marks, and line     *)
(* comments: "note", "renamed" (an annotation) and "invalid" (one that     *)
(* does not parse).                                                        *)
(***************************************************************************)
EXTENDS Naturals, Sequences, FiniteSets
LOCAL SE == INSTANCE SequencesExt

CONSTANTS
    Dialects, Names,
    Texts           \* of each dialect, a set of texts

VARIABLES
    dialect, text,
    pc,
    line,           \* the lines before it are extracted
    clean,          \* the text without the annotations found so far
    annotations,    \* the lines they were on
    objects,        \* [name, renamed] of the parsed statements
    attachments,    \* [line, target] of the parsed statements
    ops             \* objects to mark

vars == <<dialect, text, pc, line, clean, annotations, objects, attachments, ops>>

Comments == {"note", "renamed", "invalid"}
Backslashed == "\\'"

LineOf(t, i) == 1 + Cardinality({j \in 1..(i - 1) : t[j] = "nl"})
LinesOf(t) == LineOf(t, Len(t) + 1)

(* The state of a reader before each token.                                *)
Scan(Step(_, _), t) ==
    LET state[i \in 1..(Len(t) + 1)] == IF i = 1 THEN "code" ELSE Step(state[i - 1], t[i - 1])
    IN state

-------------------------------------------------------------------------------
(* Three readers.                                                          *)

Quoted(escapes, token) == IF token = "'" \/ (token = Backslashed /\ ~escapes) THEN "code" ELSE "single"

SqlStep(escapes, state, token) ==
    CASE state = "single" -> Quoted(escapes, token)
      [] state = "block" -> IF token = "*/" THEN "code" ELSE "block"
      [] state = "line" -> IF token = "nl" THEN "code" ELSE "line"
      [] OTHER -> CASE token = "'" -> "single"
                    [] token = "/*" -> "block"
                    [] token \in Comments -> "line"
                    [] OTHER -> "code"

(* What the text means to the database.                                    *)
Meaning(d, t) == Scan(LAMBDA state, token : SqlStep(d = "mysql", state, token), t)

(* split_statement_spans, the same in three dialects.                      *)
SplitStep(state, token) == SqlStep(TRUE, state, token)

(* Mutant: quotes are not looked at.                                       *)
CommentStepBlind(state, token) ==
    CASE token = "nl" -> "code" [] token \in Comments -> "line" [] OTHER -> state

(* find_line_comment_start: every line begins outside of quotes.           *)
CommentStep(state, token) ==
    CASE token = "nl" -> "code"
      [] state = "line" -> "line"
      [] state = "single" -> Quoted(FALSE, token)
      [] OTHER -> CASE token = "'" -> "single" [] token \in Comments -> "line" [] OTHER -> "code"

(* parse_annotation: the first of a line that parses.                      *)
AnnotationsOn(t, l) ==
    LET found == {i \in DOMAIN t : /\ LineOf(t, i) = l
                                   /\ t[i] = "renamed"
                                   /\ Scan(CommentStep, t)[i] # "single"}
    IN {i \in found : \A j \in found : i <= j}

-------------------------------------------------------------------------------
(* Statements.                                                             *)

(* The spans between semicolons, as sets of positions.                     *)
Spans(state, t) ==
    LET ends == {i \in DOMAIN t : t[i] = ";" /\ state[i] = "code"}
        spanOf(i) == Cardinality({j \in ends : j < i})
        spans == [n \in 0..Cardinality(ends) |-> {i \in DOMAIN t : spanOf(i) = n}]
    IN [n \in 1..(Cardinality(ends) + 1) |-> spans[n - 1]]

(* A span begins with what is not white space, comments included.          *)
Solid(t, span) == {i \in span : t[i] # "nl"}
LineOfSpan(t, span) == LineOf(t, CHOOSE i \in Solid(t, span) : \A j \in Solid(t, span) : i <= j)

(* The statements of the text: the position of the head and the span.      *)
Heads(d, t) == {i \in DOMAIN t : t[i] \in Names /\ Meaning(d, t)[i] = "code"}
Statements(d, t) ==
    LET spans == SelectSeq(Spans(Meaning(d, t), t), LAMBDA s : s \cap Heads(d, t) # {})
    IN [k \in DOMAIN spans |-> [name |-> t[CHOOSE i \in spans[k] : i \in Heads(d, t)], span |-> spans[k]]]

(* statement_metadata by position: an empty statement has an entry, one    *)
(* without an entry is on line 1.                                          *)
SplitLine(d, t, k) ==
    LET entries == SelectSeq(Spans(Scan(SplitStep, t), t), LAMBDA s : Solid(t, s) # {})
    IN IF k \in DOMAIN entries THEN LineOfSpan(t, entries[k]) ELSE 1

(* PostgreSQL's own parser knows where each of its statements begins.      *)
StatementLine(d, t, k) ==
    IF d = "postgres" THEN LineOfSpan(t, Statements(d, t)[k].span) ELSE SplitLine(d, t, k)

-------------------------------------------------------------------------------
Init ==
    /\ dialect \in Dialects
    /\ text \in Texts[dialect]
    /\ pc = "extract"
    /\ line = 1
    /\ clean = text
    /\ annotations = <<>>
    /\ objects = <<>>
    /\ attachments = <<>>
    /\ ops = <<>>

(* extract, one line.                                                      *)
Extract ==
    /\ pc = "extract"
    /\ line <= LinesOf(text)
    /\ LET found == AnnotationsOn(text, line)
       IN /\ clean' = [i \in DOMAIN text |-> IF i \in found THEN "note" ELSE clean[i]]
          /\ annotations' = IF found = {} THEN annotations ELSE Append(annotations, line)
    /\ line' = line + 1
    /\ UNCHANGED <<dialect, text, pc, objects, attachments, ops>>

(* parse_schema                                                            *)
Parse ==
    /\ pc = "extract"
    /\ line > LinesOf(text)
    /\ LET statements == Statements(dialect, clean)
       IN /\ objects' = [k \in DOMAIN statements |-> [name |-> statements[k].name, renamed |-> FALSE]]
          /\ attachments' = [k \in DOMAIN statements |->
                               [line |-> StatementLine(dialect, clean, k), target |-> statements[k].name]]
    /\ pc' = "attach"
    /\ UNCHANGED <<dialect, text, line, clean, annotations, ops>>

(* Mutant: or else the next statement is taken.                            *)
AttachedToNext(l) ==
    LET after == {k \in DOMAIN attachments : attachments[k].line >= l}
    IN {k \in after : \A n \in after : k <= n}

(* find_attachment_for_line and resolve_attachment: exactly one of each.   *)
AttachedTo(l) == {k \in DOMAIN attachments : attachments[k].line = l}
NamedBy(k) == {o \in DOMAIN objects : objects[o].name = attachments[k].target}
Resolved(l) ==
    IF Cardinality(AttachedTo(l)) # 1 THEN {}
    ELSE LET k == CHOOSE k \in AttachedTo(l) : TRUE
         IN IF Cardinality(NamedBy(k)) = 1 THEN NamedBy(k) ELSE {}

Marked(o) == [objects EXCEPT ![o].renamed = TRUE]

(* Mutant: an object is marked as soon as its annotation is resolved.      *)
AttachAtOnce ==
    /\ pc = "attach"
    /\ annotations # <<>>
    /\ IF Resolved(Head(annotations)) = {}
       THEN pc' = "failed" /\ UNCHANGED objects
       ELSE \E o \in Resolved(Head(annotations)) : objects' = Marked(o) /\ UNCHANGED pc
    /\ annotations' = Tail(annotations)
    /\ UNCHANGED <<dialect, text, line, clean, attachments, ops>>

(* Mutant: an annotation that belongs to nothing is passed over.           *)
AttachOrSkip ==
    /\ pc = "attach"
    /\ annotations # <<>>
    /\ ops' = ops \o SE!SetToSeq(Resolved(Head(annotations)))
    /\ annotations' = Tail(annotations)
    /\ UNCHANGED <<dialect, text, pc, line, clean, objects, attachments>>

(* attach_annotations, the first pass.                                     *)
Attach ==
    /\ pc = "attach"
    /\ annotations # <<>>
    /\ IF Resolved(Head(annotations)) = {}
       THEN pc' = "failed" /\ UNCHANGED ops
       ELSE \E o \in Resolved(Head(annotations)) : ops' = Append(ops, o) /\ UNCHANGED pc
    /\ annotations' = Tail(annotations)
    /\ UNCHANGED <<dialect, text, line, clean, objects, attachments>>

(* The second pass.                                                        *)
Apply ==
    /\ pc = "attach"
    /\ annotations = <<>>
    /\ ops # <<>>
    /\ objects' = Marked(Head(ops))
    /\ ops' = Tail(ops)
    /\ UNCHANGED <<dialect, text, pc, line, clean, annotations, attachments>>

Finish ==
    /\ pc = "attach"
    /\ annotations = <<>>
    /\ ops = <<>>
    /\ pc' = "done"
    /\ UNCHANGED <<dialect, text, line, clean, annotations, objects, attachments, ops>>

Next == Extract \/ Parse \/ Attach \/ Apply \/ Finish

Spec == Init /\ [][Next]_vars

-------------------------------------------------------------------------------
(* Properties                                                              *)

IsComment(i) == Meaning(dialect, text)[i] \in {"code", "line"}
Written == {i \in DOMAIN text : text[i] = "renamed" /\ IsComment(i)}

(* The statement an annotation is written at: the last one with code       *)
(* before it on its line, or else the next one.                            *)
Code(k) ==
    LET s == Statements(dialect, text)[k]
    IN {i \in s.span : /\ Meaning(dialect, text)[i] \in {"code", "single"}
                       /\ text[i] \notin Comments \cup {"nl", "/*"}}
Owner(i) ==
    LET all == DOMAIN Statements(dialect, text)
        before == {k \in all : \E j \in Code(k) : j < i /\ LineOf(text, j) = LineOf(text, i)}
        after == {k \in all : \A j \in Code(k) : j > i}
    IN IF before # {} THEN {k \in before : \A n \in before : n <= k}
       ELSE {k \in after : \A n \in after : k <= n}

(* An annotation of a text that is accepted marks an object of its own,    *)
(* the one it is written at, and an object without one is not marked; a    *)
(* text that is refused marks nothing.                                     *)
MarksAreWhereWritten ==
    LET marked == {k \in DOMAIN objects : objects[k].renamed}
    IN /\ pc = "done" => /\ marked = UNION {Owner(i) : i \in Written}
                         /\ Cardinality(marked) = Cardinality(Written)
       /\ pc = "failed" => marked = {}

(* Taking the annotations out changes comments only.                       *)
OnlyCommentsChange ==
    \A i \in DOMAIN text : clean[i] # text[i] => IsComment(i)
===============================================================================
